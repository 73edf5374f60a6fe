------------------------ MODULE DesktopConsoleProofs ------------------------
(***************************************************************************)
(* The safety properties of DesktopConsole, for any number of tasks, calls *)
(* under way and requests that fail.                                       *)
(*                                                                         *)
(* The page holds what the service told it some time ago.  The proof rests *)
(* on what the contract never takes back: whatever a task was seen to be,  *)
(* the phase it has come to since is one that may follow (Followed), and a *)
(* step of the service keeps it so for every call and every variable of    *)
(* the page, without a look at any of them.                                *)
(***************************************************************************)
EXTENDS DesktopConsole, TLAPS

CallsConsistent ==
  \A c \in Slots : calls[c] # Free => CallConsistent(calls[c], phase, gated)

-----------------------------------------------------------------------------
(* The service.                                                            *)

(* The service has gone on, and nothing that was seen of it is refuted.    *)
GoesOn ==
  /\ ContractConsistent'
  /\ gated \subseteq gated'
  /\ \A s \in State, t \in Actions :
       Followed(s, t, phase, gated) => Followed(s, t, phase', gated')

Starts(a) == \/ Service!Deny(a) \/ Service!Ask(a) \/ Service!Begin(a)
             \/ Service!Grant(a) \/ Service!Decline(a) \/ Service!Undo(a)

EndsOf(a) == \/ Service!Succeed(a) \/ Service!Fail(a) \/ Service!Abort(a)
             \/ Service!Undone(a) \/ Service!UndoFails(a) \/ Service!UndoAborts(a)

(* What a step of the service changes.                                     *)
LEMMA MoveShape ==
  ASSUME ContractConsistent, NEW a \in Actions, Starts(a) \/ EndsOf(a)
  PROVE  \E to \in Phase :
           /\ phase' = [phase EXCEPT ![a] = to]
           /\ gated' = IF to = "waiting" THEN gated \cup {a} ELSE gated
           /\ Starts(a) => ~Service!Busy
           /\ EndsOf(a) => phase[a] \in {"acting", "undoing"}
           /\ \/ phase[a] = "absent"  /\ to \in {"refused", "waiting", "acting"}
              \/ phase[a] = "waiting" /\ to \in {"refused", "acting"}
              \/ phase[a] = "acting"  /\ to \in {"done", "failed"}
              \/ phase[a] = "acting"  /\ to = IF a \in gated THEN "waiting" ELSE "absent"
              \/ phase[a] = "done"    /\ to = "undoing"
              \/ phase[a] = "undoing" /\ to \in {"undone", "failed", "done"}
<1>1. ASSUME Starts(a)
      PROVE  /\ ~Service!Busy
             /\ \/ Service!Move(a, "absent", "refused") /\ gated' = gated
                \/ Service!Move(a, "absent", "waiting") /\ gated' = gated \cup {a}
                \/ Service!Move(a, "absent", "acting") /\ gated' = gated
                \/ Service!Move(a, "waiting", "acting") /\ gated' = gated
                \/ Service!Move(a, "waiting", "refused") /\ gated' = gated
                \/ Service!Move(a, "done", "undoing") /\ gated' = gated
  BY <1>1 DEF Starts, Service!Deny, Service!Ask, Service!Begin, Service!Grant,
              Service!Decline, Service!Undo
<1>2. ASSUME EndsOf(a)
      PROVE  /\ gated' = gated
             /\ \/ \E to \in {"done", "failed"} : Service!Move(a, "acting", to)
                \/ Service!Move(a, "acting", IF a \in gated THEN "waiting" ELSE "absent")
                \/ \E to \in {"undone", "failed", "done"} : Service!Move(a, "undoing", to)
  BY <1>2 DEF EndsOf, Service!Succeed, Service!Fail, Service!Abort, Service!Undone,
              Service!UndoFails, Service!UndoAborts
<1>3. CASE Starts(a)
  <2>1. PICK to \in {"refused", "waiting", "acting", "undoing"} :
          /\ phase' = [phase EXCEPT ![a] = to]
          /\ gated' = IF to = "waiting" THEN gated \cup {a} ELSE gated
          /\ \/ phase[a] = "absent"  /\ to \in {"refused", "waiting", "acting"}
             \/ phase[a] = "waiting" /\ to \in {"refused", "acting"}
             \/ phase[a] = "done"    /\ to = "undoing"
    BY <1>1, <1>3 DEF Service!Move
  <2>2. to \in Phase  BY DEF Phase, State
  <2>3. ~Service!Busy  BY <1>1, <1>3
  <2>4. EndsOf(a) => phase[a] \in {"acting", "undoing"}  BY <1>2 DEF Service!Move
  <2> QED BY <2>1, <2>2, <2>3, <2>4
<1>4. CASE EndsOf(a)
  <2>1. PICK to \in {"done", "failed", "waiting", "absent", "undone"} :
          /\ phase' = [phase EXCEPT ![a] = to] /\ gated' = gated
          /\ to = "waiting" => a \in gated
          /\ \/ phase[a] = "acting"  /\ to \in {"done", "failed"}
             \/ phase[a] = "acting"  /\ to = IF a \in gated THEN "waiting" ELSE "absent"
             \/ phase[a] = "undoing" /\ to \in {"undone", "failed", "done"}
    BY <1>2, <1>4 DEF Service!Move
  <2>2. to \in Phase  BY DEF Phase, State
  <2>3. Starts(a) => ~Service!Busy  BY <1>1
  <2>4. gated' = IF to = "waiting" THEN gated \cup {a} ELSE gated  BY <2>1
  <2> QED BY <2>1, <2>2, <2>3, <2>4
<1> QED BY <1>3, <1>4

(* A step of the service refutes nothing.                                  *)
LEMMA MoveGoesOn ==
  ASSUME ContractConsistent, NEW a \in Actions, Starts(a) \/ EndsOf(a)
  PROVE  /\ GoesOn
         /\ \A t \in Actions \ {a} : phase'[t] = phase[t]
<1>1. PICK to \in Phase :
           /\ phase' = [phase EXCEPT ![a] = to]
           /\ gated' = IF to = "waiting" THEN gated \cup {a} ELSE gated
           /\ Starts(a) => ~Service!Busy
           /\ EndsOf(a) => phase[a] \in {"acting", "undoing"}
           /\ \/ phase[a] = "absent"  /\ to \in {"refused", "waiting", "acting"}
              \/ phase[a] = "waiting" /\ to \in {"refused", "acting"}
              \/ phase[a] = "acting"  /\ to \in {"done", "failed"}
              \/ phase[a] = "acting"  /\ to = IF a \in gated THEN "waiting" ELSE "absent"
              \/ phase[a] = "done"    /\ to = "undoing"
              \/ phase[a] = "undoing" /\ to \in {"undone", "failed", "done"}
  BY MoveShape
<1>2. phase \in [Actions -> Phase] /\ gated \subseteq Actions  BY DEF ContractConsistent
<1>3. /\ phase' \in [Actions -> Phase] /\ phase'[a] = to
      /\ \A t \in Actions \ {a} : phase'[t] = phase[t]
  BY <1>1, <1>2
<1>4. gated \subseteq gated' /\ gated' \subseteq Actions /\ gated' \subseteq gated \cup {a}
      /\ (to = "waiting" => a \in gated')
  BY <1>1, <1>2
<1>5. \A b, c \in Actions : {phase'[b], phase'[c]} \subseteq {"acting", "undoing"} => b = c
  <2> SUFFICES ASSUME NEW b \in Actions \ {a}, phase'[b] \in {"acting", "undoing"},
                      phase'[a] \in {"acting", "undoing"}
               PROVE  FALSE
    BY <1>3 DEF ContractConsistent
  <2>1. phase[b] \in {"acting", "undoing"}  BY <1>3
  <2>2. Service!Busy  BY <2>1 DEF Service!Busy
  <2>3. EndsOf(a)  BY <1>1, <2>2
  <2>4. phase[a] \in {"acting", "undoing"}  BY <1>1, <2>3
  <2> QED BY <2>1, <2>4 DEF ContractConsistent
<1>6. \A b \in Actions : phase'[b] = "waiting" => b \in gated'
  BY <1>3, <1>4 DEF ContractConsistent
<1>7. \A b \in gated' : phase'[b] # "absent"
  <2>1. a \in gated' => to # "absent"  BY <1>1 DEF ContractConsistent
  <2> QED BY <1>2, <1>3, <1>4, <2>1 DEF ContractConsistent
<1>8. ContractConsistent'  BY <1>3, <1>4, <1>5, <1>6, <1>7 DEF ContractConsistent
<1>9. ASSUME NEW s \in State, NEW t \in Actions, Followed(s, t, phase, gated)
      PROVE  Followed(s, t, phase', gated')
  <2>1. CASE t # a  BY <1>3, <1>4, <1>9, <2>1 DEF Followed
  <2>2. CASE t = a
    <3>1. phase[a] \in Later(s) /\ (s = "waiting" => a \in gated)  BY <1>9, <2>2 DEF Followed
    <3>2. CASE s = "waiting"
      <4>1. to # "absent"  BY <1>1, <3>1, <3>2 DEF ContractConsistent
      <4> QED BY <1>3, <1>4, <2>2, <3>1, <3>2, <4>1 DEF Followed, Later
    <3>3. CASE s = "done"
      <4>1. phase[a] \in {"done", "undone", "failed", "undoing"}
        BY <3>1, <3>3 DEF Later, After
      <4>2. to \in {"undone", "failed", "done", "undoing"}  BY <1>1, <4>1
      <4> QED BY <1>3, <2>2, <3>3, <4>2 DEF Followed, Later, After
    <3>4. CASE s \notin {"waiting", "done"}
      <4>1. phase[a] \in {"refused", "failed", "undone"}
        BY <3>1, <3>4 DEF Later, State
      <4> QED BY <1>1, <4>1
    <3> QED BY <3>2, <3>3, <3>4
  <2> QED BY <2>1, <2>2
<1> QED BY <1>3, <1>4, <1>8, <1>9 DEF GoesOn

-----------------------------------------------------------------------------
(* The calls.                                                              *)

(* A call that goes on running, or does not run, stays consistent.         *)
LEMMA CallStays ==
  ASSUME NEW x \in Call, GoesOn, CallConsistent(x, phase, gated),
         x.answer = "running" => phase'[x.task] = phase[x.task]
  PROVE  CallConsistent(x, phase', gated')
<1>1. x.task \in Actions  BY DEF Call
<1>2. x.stage = "task" /\ x.answer \in State => Followed(x.answer, x.task, phase', gated')
  BY <1>1 DEF CallConsistent, GoesOn
<1>3. x.stage = "receipt" => x.seen \in State /\ Followed(x.seen, x.task, phase', gated')
  BY <1>1 DEF CallConsistent, GoesOn
<1>4. x.op \in {"pair", "poll"} => x.task \in gated'  BY DEF CallConsistent, GoesOn
<1>5. x.answer = "running" =>
        /\ x.op \in {"execute", "approve", "rollback"} /\ x.stage = "task"
        /\ phase'[x.task] = IF x.op = "rollback" THEN "undoing" ELSE "acting"
  BY DEF CallConsistent
<1> QED BY <1>2, <1>3, <1>4, <1>5 DEF CallConsistent

(* While nothing is busy no call runs: the service may start something.    *)
LEMMA CallsStay ==
  ASSUME TypeOK, CallsConsistent, GoesOn, ~Service!Busy
  PROVE  \A c \in Slots : calls[c] # Free => CallConsistent(calls[c], phase', gated')
<1> SUFFICES ASSUME NEW c \in Slots, calls[c] # Free
             PROVE  CallConsistent(calls[c], phase', gated')
  OBVIOUS
<1>1. PICK x \in Call : x = calls[c]  BY DEF TypeOK
<1>2. CallConsistent(x, phase, gated)  BY <1>1 DEF CallsConsistent
<1>3. x.answer # "running"
  <2> SUFFICES ASSUME x.answer = "running" PROVE FALSE  OBVIOUS
  <2>1. phase[x.task] \in {"undoing", "acting"} /\ x.task \in Actions
    BY <1>2 DEF CallConsistent, Call
  <2> QED BY <2>1 DEF Service!Busy
<1> QED BY <1>1, <1>2, <1>3, CallStays

(* Of the calls one changes, into a consistent one or none.                *)
LEMMA OneCallChanges ==
  ASSUME TypeOK, NEW c, NEW y, y = Free \/ (y \in Call /\ CallConsistent(y, phase', gated')),
         calls' = [calls EXCEPT ![c] = y],
         \A d \in Slots : calls[d] # Free => CallConsistent(calls[d], phase', gated')
  PROVE  CallsConsistent' /\ calls' \in [Slots -> Call \cup {Free}]
<1>1. calls \in [Slots -> Call \cup {Free}]  BY DEF TypeOK
<1>2. \A d \in Slots : calls'[d] = calls[d] \/ calls'[d] = y  BY <1>1
<1>3. calls' \in [Slots -> Call \cup {Free}]  BY <1>1
<1>4. \A d \in Slots : calls'[d] # Free => CallConsistent(calls'[d], phase', gated')
  BY <1>2
<1> QED BY <1>3, <1>4 DEF CallsConsistent

(* Or none of them.                                                        *)
LEMMA NoCallChanges ==
  ASSUME TypeOK, UNCHANGED calls,
         \A d \in Slots : calls[d] # Free => CallConsistent(calls[d], phase', gated')
  PROVE  CallsConsistent' /\ calls' \in [Slots -> Call \cup {Free}]
  BY DEF TypeOK, CallsConsistent

(* A new call is consistent, if a poll or a pairing is for a gated task.   *)
LEMMA NewCallConsistent ==
  ASSUME NEW op \in Operation, NEW t \in Actions, op \in {"pair", "poll"} => t \in gated'
  PROVE  NewCall(op, t) \in Call /\ CallConsistent(NewCall(op, t), phase', gated')
<1>1. NewCall(op, t) \in Call  BY DEF NewCall, Call, Stage, Nothing
<1> QED BY <1>1 DEF NewCall, CallConsistent, State

(* A call is answered: it is the same, but for its answer.                 *)
LEMMA AnswerFields ==
  ASSUME NEW x \in Call, NEW answer \in State \cup {"none", "running", "ok", "error"}
  PROVE  LET y == [x EXCEPT !.answer = answer]
         IN  /\ y \in Call /\ y.op = x.op /\ y.task = x.task /\ y.stage = x.stage
             /\ y.seen = x.seen /\ y.answer = answer
  BY DEF Call

(* The service's variables stay: nothing that was consistent is not.       *)
LEMMA ServiceStays ==
  ASSUME ContractConsistent, UNCHANGED service
  PROVE  GoesOn
  BY DEF GoesOn, service, ContractConsistent

(* While the service rests, so does what its calls were answered.          *)
LEMMA AllStay ==
  ASSUME CallsConsistent, UNCHANGED service
  PROVE  \A c \in Slots : calls[c] # Free => CallConsistent(calls[c], phase', gated')
  BY DEF CallsConsistent, service

-----------------------------------------------------------------------------
(* The steps.                                                              *)

(* A step of the user or of the timer sends a call.                        *)
LEMMA FetchStep ==
  ASSUME ConsoleInv, UNCHANGED service, NEW op \in Operation, NEW t \in Actions, Fetch(op, t),
         op \in {"pair", "poll"} => t \in gated
  PROVE  CallsConsistent' /\ calls' \in [Slots -> Call \cup {Free}]
<1>1. PICK c : calls' = [calls EXCEPT ![c] = NewCall(op, t)]  BY DEF Fetch
<1>2. NewCall(op, t) \in Call /\ CallConsistent(NewCall(op, t), phase', gated')
  BY NewCallConsistent DEF service
<1>3. \A d \in Slots : calls[d] # Free => CallConsistent(calls[d], phase', gated')
  BY AllStay DEF ConsoleInv, CallsConsistent
<1> QED BY <1>1, <1>2, <1>3, OneCallChanges DEF ConsoleInv

(* What the user or the poll timer does: a call is sent at most.           *)
LEMMA UserStep ==
  ASSUME ConsoleInv, User \/ TimerFires
  PROVE  ConsoleInv'
<1>1. TypeOK /\ ContractConsistent /\ PageConsistent /\ CallsConsistent
  BY DEF ConsoleInv, CallsConsistent
<1>2. UNCHANGED <<service, faults>>
  BY DEF User, TimerFires, Submit, Decide, Rollback, Review, Close
<1>3. ContractConsistent'  BY <1>1, <1>2, ServiceStays DEF GoesOn
<1>4. /\ UNCHANGED <<current, receipt, timer, outcomes>>
      /\ busy' \in BOOLEAN
      /\ dialog' = dialog \/ dialog' = Nothing \/ (dialog' = current.task /\ current.state = "waiting")
  BY <1>1 DEF User, TimerFires, Submit, Decide, Rollback, Review, Close, page, TypeOK
<1>5. PageConsistent'  BY <1>1, <1>2, <1>4 DEF PageConsistent, service
<1>6. CallsConsistent' /\ calls' \in [Slots -> Call \cup {Free}]
  <2>1. CASE UNCHANGED calls
    BY <1>1, <1>2, <2>1, AllStay, NoCallChanges
  <2>2. ASSUME NEW t \in Actions, Submit(t) PROVE CallsConsistent' /\ calls' \in [Slots -> Call \cup {Free}]
    BY <1>2, <2>2, FetchStep DEF Submit, Operation
  <2>3. ASSUME NEW d \in {"approve", "reject"}, Decide(d)
        PROVE  CallsConsistent' /\ calls' \in [Slots -> Call \cup {Free}]
    <3>1. current.task \in Actions  BY <1>1, <2>3 DEF Decide, CanDecide, PageConsistent, Nothing
    <3> QED BY <1>2, <2>3, <3>1, FetchStep DEF Decide, Operation
  <2>4. CASE Rollback
    <3>1. current.task \in Actions  BY <1>1, <2>4 DEF Rollback, ContractConsistent
    <3> QED BY <1>2, <2>4, <3>1, FetchStep DEF Rollback, Operation
  <2>5. CASE Review
    <3>1. current.task \in Actions /\ current.task \in gated
      BY <1>1, <2>5 DEF Review, PageConsistent, ContractConsistent
    <3>2. Fetch("pair", current.task) \/ UNCHANGED calls  BY <2>5 DEF Review
    <3> QED BY <1>2, <2>1, <3>1, <3>2, FetchStep DEF Operation
  <2>6. CASE TimerFires
    <3>1. timer \in Actions /\ timer \in gated
      BY <1>1, <2>6 DEF TimerFires, PageConsistent, ContractConsistent
    <3> QED BY <1>2, <2>6, <3>1, FetchStep DEF TimerFires, Operation
  <2> QED BY <2>1, <2>2, <2>3, <2>4, <2>5, <2>6 DEF User, Close
<1>7. TypeOK'
  <2>1. dialog' \in Actions \cup {Nothing}
    BY <1>1, <1>4 DEF TypeOK, PageConsistent, Nothing
  <2> QED BY <1>1, <1>2, <1>4, <1>6, <2>1 DEF TypeOK, faults
<1> QED BY <1>3, <1>5, <1>6, <1>7 DEF ConsoleInv, CallsConsistent

(* The page stays as it is while the service goes on.                      *)
LEMMA PageStays ==
  ASSUME PageConsistent, GoesOn, UNCHANGED page
  PROVE  PageConsistent'
  BY DEF PageConsistent, GoesOn, page

(* A call is answered, and nothing else changes but the service.           *)
LEMMA AnswerStep ==
  ASSUME ConsoleInv, NEW c \in Slots, NEW x \in Call, calls[c] = x,
         NEW answer \in State \cup {"none", "running", "ok", "error"}, AnswerWith(c, answer),
         GoesOn, UNCHANGED page, failures' \in 0..MaxFailures, givenUp' \in BOOLEAN,
         \A d \in Slots : calls[d] # Free => CallConsistent(calls[d], phase', gated'),
         CallConsistent([x EXCEPT !.answer = answer], phase', gated')
  PROVE  ConsoleInv'
<1>1. TypeOK /\ PageConsistent  BY DEF ConsoleInv
<1>2. PICK y \in Call : y = [x EXCEPT !.answer = answer]  BY AnswerFields
<1>3. calls' = [calls EXCEPT ![c] = y]  BY <1>1, <1>2 DEF AnswerWith, TypeOK
<1>4. CallsConsistent' /\ calls' \in [Slots -> Call \cup {Free}]
  BY <1>1, <1>2, <1>3, OneCallChanges
<1>5. PageConsistent'  BY <1>1, PageStays
<1>6. TypeOK'  BY <1>1, <1>4 DEF TypeOK, page
<1> QED BY <1>4, <1>5, <1>6 DEF ConsoleInv, CallsConsistent, GoesOn

(* What an answer must be like for the call to stay consistent.            *)
AnswerFits(x, answer, ph, g) ==
  /\ x.op # "pair" /\ answer # "ok"
  /\ x.op = "poll" => x.task \in g
  /\ answer = "running" => /\ x.op \in {"execute", "approve", "rollback"} /\ x.stage = "task"
                           /\ ph[x.task] = IF x.op = "rollback" THEN "undoing" ELSE "acting"
  /\ answer \in State /\ x.stage = "task" => Followed(answer, x.task, ph, g)
  /\ x.stage = "receipt" => /\ Followed(x.seen, x.task, ph, g)
                            /\ answer \in After(x.seen) \cup {"none", "error"}
  /\ x.op = "rollback" /\ x.stage = "task" =>
       answer \in {"none", "running", "error", "undone"}

(* A call that is given a fitting answer is consistent.                    *)
LEMMA AnswerConsistent ==
  ASSUME NEW x \in Call, CallConsistent(x, phase, gated), NEW ph, NEW g,
         NEW answer \in State \cup {"none", "running", "ok", "error"}, AnswerFits(x, answer, ph, g)
  PROVE  CallConsistent([x EXCEPT !.answer = answer], ph, g)
<1>1. PICK y \in Call : /\ y = [x EXCEPT !.answer = answer] /\ y.op = x.op /\ y.task = x.task
                        /\ y.stage = x.stage /\ y.seen = x.seen /\ y.answer = answer
  BY AnswerFields
<1>2. x.stage = "receipt" => x.seen \in State  BY DEF CallConsistent
<1>3. x.op = "rollback" /\ x.stage # "task" => x.seen = "undone"
  BY DEF CallConsistent
<1>4. CallConsistent(y, ph, g)  BY <1>1, <1>2, <1>3 DEF CallConsistent, AnswerFits
<1> QED BY <1>1, <1>4

(* The service serves a request.                                           *)
LEMMA ServeStep ==
  ASSUME ConsoleInv, NEW c \in Slots, Serve(c) \/ RequestFails(c)
  PROVE  ConsoleInv'
<1>1. TypeOK /\ ContractConsistent /\ CallsConsistent  BY DEF ConsoleInv, CallsConsistent
<1>2. calls[c].op # "free"
  BY DEF Serve, ServeExecute, ServeDecision, ServeRollback, ServeRead, ServePairing,
         RequestFails, Sent
<1>3. PICK x \in Call : x = calls[c]  BY <1>1, <1>2 DEF TypeOK, Free
<1>4. CallConsistent(x, phase, gated)  BY <1>1, <1>2, <1>3 DEF CallsConsistent, Free
<1>5. x.task \in Actions /\ UNCHANGED page
  BY <1>3 DEF Call, Serve, ServeExecute, ServeDecision, ServeRollback, ServeRead, ServePairing,
              RequestFails
<1>6. failures' \in 0..MaxFailures /\ givenUp' \in BOOLEAN
  <2>1. CASE Serve(c)
    <3>1. UNCHANGED faults
      BY <2>1 DEF Serve, ServeExecute, ServeDecision, ServeRollback, ServeRead, ServePairing
    <3> QED BY <1>1, <3>1 DEF faults, TypeOK
  <2>2. CASE RequestFails(c)
    BY <1>1, <2>2, ConsoleAssumption DEF RequestFails, TypeOK
  <2> QED BY <2>1, <2>2
<1>7. ASSUME NEW answer \in State \cup {"none", "running", "ok", "error"}, AnswerWith(c, answer),
             UNCHANGED service,
             CallConsistent([x EXCEPT !.answer = answer], phase, gated)
      PROVE  ConsoleInv'
  <2>1. GoesOn /\ \A d \in Slots : calls[d] # Free => CallConsistent(calls[d], phase', gated')
    BY <1>1, <1>7, ServiceStays, AllStay
  <2>2. CallConsistent([x EXCEPT !.answer = answer], phase', gated')  BY <1>7 DEF service
  <2> QED BY <1>3, <1>5, <1>6, <1>7, <2>1, <2>2, AnswerStep
<1>8. ASSUME NEW answer \in State \cup {"none", "running", "ok", "error"}, AnswerWith(c, answer),
             Starts(x.task), ~Service!Busy,
             GoesOn => CallConsistent([x EXCEPT !.answer = answer], phase', gated')
      PROVE  ConsoleInv'
  <2>1. GoesOn  BY <1>1, <1>5, <1>8, MoveGoesOn
  <2>2. \A d \in Slots : calls[d] # Free => CallConsistent(calls[d], phase', gated')
    BY <1>1, <1>8, <2>1, CallsStay
  <2> QED BY <1>3, <1>5, <1>6, <1>8, <2>1, <2>2, AnswerStep
<1>9. CASE ServeExecute(c)
  <2>1. x.op = "execute" /\ x.stage = "task" /\ ~Service!Busy
    BY <1>3, <1>9 DEF ServeExecute, Sent
  <2>2. PICK answer \in {"waiting", "refused", "running"} :
          /\ AnswerWith(c, answer)
          /\ \/ answer = "waiting" /\ Service!Ask(x.task)
             \/ answer = "refused" /\ Service!Deny(x.task)
             \/ answer = "running" /\ Service!Begin(x.task)
    BY <1>3, <1>9 DEF ServeExecute
  <2>3. Starts(x.task)  BY <2>2 DEF Starts
  <2>4. phase \in [Actions -> Phase]  BY <1>1 DEF ContractConsistent
  <2>5. /\ answer = "waiting" => phase'[x.task] = "waiting" /\ x.task \in gated'
        /\ answer = "refused" => phase'[x.task] = "refused"
        /\ answer = "running" => phase'[x.task] = "acting"
    BY <1>5, <2>2, <2>4 DEF Service!Ask, Service!Deny, Service!Begin, Service!Move
  <2>6. AnswerFits(x, answer, phase', gated')
    BY <2>1, <2>2, <2>5 DEF AnswerFits, Followed, Later, State, Phase
  <2>7. answer \in State \cup {"none", "running", "ok", "error"}  BY DEF State
  <2>8. CallConsistent([x EXCEPT !.answer = answer], phase', gated')
    BY <1>4, <2>6, <2>7, AnswerConsistent
  <2> QED BY <1>8, <2>1, <2>2, <2>3, <2>7, <2>8
<1>10. CASE ServeDecision(c)
  <2>1. x.op \in {"approve", "reject"} /\ x.stage = "task" /\ ~Service!Busy
    BY <1>3, <1>10 DEF ServeDecision, Sent
  <2>2. PICK answer \in {"refused", "running", "error"} :
          /\ AnswerWith(c, answer)
          /\ \/ answer \in {"refused", "error"} /\ Service!Decline(x.task)
             \/ answer = "running" /\ x.op = "approve" /\ Service!Grant(x.task)
             \/ answer = "error" /\ UNCHANGED service
    BY <1>3, <1>10 DEF ServeDecision
  <2>4. phase \in [Actions -> Phase]  BY <1>1 DEF ContractConsistent
  <2>5. /\ answer = "refused" => phase'[x.task] = "refused"
        /\ answer = "running" => phase'[x.task] = "acting" /\ x.op = "approve"
    BY <1>5, <2>2, <2>4 DEF Service!Decline, Service!Grant, Service!Move
  <2>6. AnswerFits(x, answer, phase', gated')
    BY <2>1, <2>2, <2>5 DEF AnswerFits, Followed, Later, State, Phase
  <2>7. answer \in State \cup {"none", "running", "ok", "error"}  BY DEF State
  <2>8. CallConsistent([x EXCEPT !.answer = answer], phase', gated')
    BY <1>4, <2>6, <2>7, AnswerConsistent
  <2>9. CASE UNCHANGED service
    <3>1. CallConsistent([x EXCEPT !.answer = answer], phase, gated)
      BY <2>8, <2>9 DEF service
    <3> QED BY <1>7, <2>2, <2>7, <2>9, <3>1
  <2>10. CASE Service!Decline(x.task) \/ Service!Grant(x.task)
    <3>1. Starts(x.task)  BY <2>10 DEF Starts
    <3> QED BY <1>8, <2>1, <2>2, <2>7, <2>8, <3>1
  <2> QED BY <2>2, <2>9, <2>10
<1>11. CASE ServeRollback(c)
  <2>1. x.op = "rollback" /\ x.stage = "task" /\ ~Service!Busy
    BY <1>3, <1>11 DEF ServeRollback, Sent
  <2>2. PICK answer \in {"running", "error"} :
          /\ AnswerWith(c, answer)
          /\ \/ answer = "running" /\ Service!Undo(x.task)
             \/ answer = "error" /\ UNCHANGED service
    BY <1>3, <1>11 DEF ServeRollback
  <2>4. phase \in [Actions -> Phase]  BY <1>1 DEF ContractConsistent
  <2>5. answer = "running" => phase'[x.task] = "undoing"
    BY <1>5, <2>2, <2>4 DEF Service!Undo, Service!Move
  <2>6. AnswerFits(x, answer, phase', gated')
    BY <2>1, <2>2, <2>5 DEF AnswerFits, State
  <2>7. answer \in State \cup {"none", "running", "ok", "error"}  OBVIOUS
  <2>8. CallConsistent([x EXCEPT !.answer = answer], phase', gated')
    BY <1>4, <2>6, <2>7, AnswerConsistent
  <2>9. CASE UNCHANGED service
    <3>1. CallConsistent([x EXCEPT !.answer = answer], phase, gated)
      BY <2>8, <2>9 DEF service
    <3> QED BY <1>7, <2>2, <2>7, <2>9, <3>1
  <2>10. CASE Service!Undo(x.task)
    <3>1. Starts(x.task)  BY <2>10 DEF Starts
    <3> QED BY <1>8, <2>1, <2>2, <2>7, <2>8, <3>1
  <2> QED BY <2>2, <2>9, <2>10
<1>12. CASE ServeRead(c)
  <2>1. /\ x.op = "poll" \/ x.stage = "receipt"
        /\ ~Service!Busy /\ AnswerWith(c, phase[x.task]) /\ UNCHANGED service
    BY <1>3, <1>12 DEF ServeRead
  <2>2. PICK answer : answer = phase[x.task]  OBVIOUS
  <2>3. answer \in Phase \ {"acting", "undoing"}
    BY <1>1, <1>5, <2>1, <2>2 DEF ContractConsistent, Service!Busy
  <2>4. answer # "absent"
    <3>1. CASE x.op = "poll"
      BY <1>1, <1>4, <2>2, <3>1 DEF CallConsistent, ContractConsistent
    <3>2. CASE x.stage = "receipt"
      BY <1>4, <2>2, <3>2 DEF CallConsistent, Followed, Later, After, State
    <3> QED BY <2>1, <3>1, <3>2
  <2>5. answer \in State  BY <2>3, <2>4 DEF Phase
  <2>6. x.op # "pair"  BY <1>4, <2>1 DEF CallConsistent
  <2>7. AnswerFits(x, answer, phase, gated)
    <3>1. answer = "waiting" => x.task \in gated
      BY <1>1, <1>5, <2>2 DEF ContractConsistent
    <3>2. Followed(answer, x.task, phase, gated)
      BY <2>2, <2>5, <3>1 DEF Followed, Later, After, Phase, State
    <3>3. x.stage = "receipt" => /\ Followed(x.seen, x.task, phase, gated)
                                 /\ answer \in After(x.seen)
      BY <1>4, <2>2, <2>3, <2>5 DEF CallConsistent, Followed, Later, After
    <3>4. x.op = "poll" => x.task \in gated  BY <1>4 DEF CallConsistent
    <3>5. answer # "running" /\ answer # "ok"  BY <2>5 DEF State
    <3>6. x.op = "rollback" => x.stage # "task"  BY <2>1 
    <3> QED BY <2>6, <3>2, <3>3, <3>4, <3>5, <3>6 DEF AnswerFits
  <2>8. CallConsistent([x EXCEPT !.answer = answer], phase, gated)
    BY <1>4, <2>5, <2>7, AnswerConsistent
  <2> QED BY <1>7, <2>1, <2>2, <2>5, <2>8
<1>13. CASE ServePairing(c) \/ RequestFails(c)
  <2>1. PICK answer \in {"ok", "error"} :
          /\ AnswerWith(c, answer) /\ UNCHANGED service
          /\ answer = "ok" => x.op = "pair"
    BY <1>3, <1>13 DEF ServePairing, RequestFails
  <2>2. PICK y \in Call : /\ y = [x EXCEPT !.answer = answer] /\ y.op = x.op /\ y.task = x.task
                          /\ y.stage = x.stage /\ y.seen = x.seen /\ y.answer = answer
    BY AnswerFields
  <2>3. CallConsistent(y, phase, gated)
    BY <1>4, <2>1, <2>2 DEF CallConsistent, State
  <2> QED BY <1>7, <2>1, <2>2, <2>3
<1> QED BY <1>9, <1>10, <1>11, <1>12, <1>13 DEF Serve

(* The phone decides.                                                      *)
LEMMA PhoneStep ==
  ASSUME ConsoleInv, NEW t \in PhoneTasks, PhoneDecides(t)
  PROVE  ConsoleInv'
<1>1. TypeOK /\ ContractConsistent /\ CallsConsistent /\ PageConsistent
  BY DEF ConsoleInv, CallsConsistent
<1>2. UNCHANGED <<page, calls, faults>> /\ t \in Actions /\ Starts(t) /\ ~Service!Busy
  BY ConsoleAssumption DEF PhoneDecides, Starts, Service!Grant, Service!Decline
<1>3. GoesOn  BY <1>1, <1>2, MoveGoesOn
<1>4. CallsConsistent'  BY <1>1, <1>2, <1>3, CallsStay, NoCallChanges
<1>5. PageConsistent'  BY <1>1, <1>2, <1>3, PageStays
<1>6. TypeOK'  BY <1>1, <1>2 DEF TypeOK, page, faults
<1> QED BY <1>3, <1>4, <1>5, <1>6 DEF ConsoleInv, CallsConsistent, GoesOn

(* What the service is busy with ends, and the call that waits for it is   *)
(* answered with what has become of its own task.                          *)
LEMMA EndStep ==
  ASSUME ConsoleInv, NEW t \in Actions, ServiceEnds(t)
  PROVE  ConsoleInv'
<1>1. TypeOK /\ ContractConsistent /\ CallsConsistent /\ PageConsistent
  BY DEF ConsoleInv, CallsConsistent
<1>2. EndsOf(t) /\ UNCHANGED <<page, faults>>  BY DEF ServiceEnds, EndsOf
<1>3. GoesOn /\ phase \in [Actions -> Phase]
  BY <1>1, <1>2, MoveGoesOn DEF ContractConsistent
<1>4. PICK to : /\ phase'[t] = to
                /\ \/ phase[t] = "acting"  /\ to \in {"done", "failed", "waiting", "absent"}
                   \/ phase[t] = "undoing" /\ to \in {"undone", "failed", "done"}
  BY <1>2, <1>3 DEF EndsOf, Service!Succeed, Service!Fail, Service!Abort, Service!Undone,
                    Service!UndoFails, Service!UndoAborts, Service!Move
<1>5. PICK answer : answer = IF EndsInError(phase[t], to) THEN "error" ELSE to  OBVIOUS
<1>6. /\ answer \in {"error", "done", "failed", "undone"}
      /\ answer # "error" => phase'[t] = answer
      /\ phase[t] = "undoing" => answer \in {"error", "undone"}
  BY <1>4, <1>5 DEF EndsInError
<1>7. \A c \in Slots : calls'[c] = IF calls[c] # Free /\ calls[c].answer = "running"
                                     THEN [calls[c] EXCEPT !.answer = answer] ELSE calls[c]
  BY <1>4, <1>5 DEF ServiceEnds
<1>8. ASSUME NEW c \in Slots, calls'[c] # Free
      PROVE  calls'[c] \in Call /\ CallConsistent(calls'[c], phase', gated')
  <2>1. PICK x \in Call : x = calls[c]
    <3>1. calls[c] # Free  BY <1>7, <1>8
    <3> QED BY <1>1, <3>1 DEF TypeOK
  <2>2. calls[c] # Free  BY <1>7, <1>8
  <2>3. CallConsistent(x, phase, gated) /\ x.task \in Actions
    BY <1>1, <2>1, <2>2 DEF CallsConsistent, Call
  <2>4. CASE x.answer = "running"
    <3>1. calls'[c] = [x EXCEPT !.answer = answer]  BY <1>7, <2>1, <2>2, <2>4
    <3>2. /\ x.op \in {"execute", "approve", "rollback"} /\ x.stage = "task"
          /\ phase[x.task] = IF x.op = "rollback" THEN "undoing" ELSE "acting"
      BY <2>3, <2>4 DEF CallConsistent
    <3>3. x.task = t
      <4>1. {phase[x.task], phase[t]} \subseteq {"acting", "undoing"}  BY <1>4, <3>2
      <4> QED BY <1>1, <2>3, <4>1 DEF ContractConsistent
    <3>4. answer # "error" => Followed(answer, x.task, phase', gated')
      BY <1>6, <3>3 DEF Followed, Later, After
    <3>5. AnswerFits(x, answer, phase', gated')
      BY <1>6, <3>2, <3>3, <3>4 DEF AnswerFits, State
    <3>6. answer \in State \cup {"none", "running", "ok", "error"}  BY <1>6 DEF State
    <3>7. [x EXCEPT !.answer = answer] \in Call  BY <3>6, AnswerFields
    <3> QED BY <2>3, <3>1, <3>5, <3>6, <3>7, AnswerConsistent
  <2>5. CASE x.answer # "running"
    <3>1. calls'[c] = x  BY <1>7, <2>1, <2>5
    <3>2. CallConsistent(x, phase', gated')  BY <1>3, <2>3, <2>5, CallStays
    <3> QED BY <3>1, <3>2
  <2> QED BY <2>4, <2>5
<1>9. CallsConsistent'  BY <1>8 DEF CallsConsistent
<1>10. calls' \in [Slots -> Call \cup {Free}]
  <2>1. \E f \in [Slots -> Call \cup {Free}] : calls' = f
    <3>1. calls' = [c \in Slots |-> calls'[c]]  BY DEF ServiceEnds
    <3> QED BY <1>8, <3>1
  <2> QED BY <2>1
<1>11. PageConsistent'  BY <1>1, <1>2, <1>3, PageStays
<1>12. TypeOK'  BY <1>1, <1>2, <1>10 DEF TypeOK, page, faults
<1> QED BY <1>3, <1>9, <1>11, <1>12 DEF ConsoleInv, CallsConsistent, GoesOn

(* The receipt of a task is asked for: the call keeps what it has seen.    *)
LEMMA ReceiptCall ==
  ASSUME NEW x \in Call, CallConsistent(x, phase, gated), x.stage = "task", x.answer \in State
  PROVE  LET y == [x EXCEPT !.stage = "receipt", !.seen = x.answer, !.answer = "none"]
         IN  y \in Call /\ CallConsistent(y, phase, gated)
<1>1. PICK y : y = [x EXCEPT !.stage = "receipt", !.seen = x.answer, !.answer = "none"]
  OBVIOUS
<1>2. /\ y \in Call /\ y.op = x.op /\ y.task = x.task /\ y.stage = "receipt"
      /\ y.seen = x.answer /\ y.answer = "none"
  BY <1>1 DEF Call, Stage
<1>3. x.op # "pair"  BY DEF CallConsistent, State
<1>4. x.op = "rollback" => x.answer = "undone"  BY DEF CallConsistent, State
<1>5. CallConsistent(y, phase, gated)  BY <1>2, <1>3, <1>4 DEF CallConsistent, State
<1> QED BY <1>1, <1>2, <1>5

(* A call goes on with its answer.                                         *)
LEMMA ResumeStep ==
  ASSUME ConsoleInv, NEW c \in Slots, Resume(c)
  PROVE  ConsoleInv'
<1>1. TypeOK /\ ContractConsistent /\ CallsConsistent /\ PageConsistent
  BY DEF ConsoleInv, CallsConsistent
<1>2. UNCHANGED <<service, faults>>
  BY DEF Resume, TaskArrives, Executed, Decided, RolledBack, PairingArrives, PollUnresolved,
         PollResolved, Polled, CallFails
<1>3. calls[c].op # "free"
  BY DEF Resume, TaskArrives, Executed, Decided, RolledBack, PairingArrives, PollUnresolved,
         PollResolved, Polled, CallFails, Arrived
<1>4. PICK x \in Call : x = calls[c]  BY <1>1, <1>3 DEF TypeOK, Free
<1>5. CallConsistent(x, phase, gated) /\ x.task \in Actions
  BY <1>1, <1>3, <1>4 DEF CallsConsistent, Free, Call
<1>6. ContractConsistent' /\ \A d \in Slots : calls[d] # Free => CallConsistent(calls[d], phase', gated')
  BY <1>1, <1>2, ServiceStays, AllStay DEF GoesOn
<1>7. x.answer \in State \cup {"none", "running", "ok", "error"}  BY DEF Call
<1>8. ASSUME Arrived(c, {"execute", "approve", "reject", "rollback", "poll"}, "receipt"), Render(c)
      PROVE  /\ current' = [task |-> x.task, state |-> x.seen] /\ receipt' = x.answer
             /\ x.seen \in State /\ x.answer \in After(x.seen) /\ x.answer \in State
             /\ (x.seen = "waiting" => x.task \in gated)
             /\ outcomes' \subseteq Actions
  <2>1. x.stage = "receipt" /\ x.answer \notin {"none", "running", "error"}
    BY <1>4, <1>8 DEF Arrived
  <2>2. x.seen \in State /\ x.answer \in After(x.seen) /\ (x.seen = "waiting" => x.task \in gated)
    BY <1>5, <2>1 DEF CallConsistent, Followed
  <2>3. x.answer \in State  BY <2>2 DEF After, State
  <2> QED BY <1>1, <1>4, <1>5, <1>8, <2>2, <2>3 DEF Render, TypeOK
<1>9. CASE TaskArrives(c) \/ PollResolved(c)
  <2>1. /\ x.stage = "task" /\ x.op # "pair" /\ x.answer \notin {"none", "running", "error"}
        /\ FetchReceipt(c)
    BY <1>4, <1>9 DEF TaskArrives, PollResolved, Arrived
  <2>2. x.answer \in State  BY <1>5, <1>7, <2>1 DEF CallConsistent
  <2>3. PICK y \in Call : /\ y = [x EXCEPT !.stage = "receipt", !.seen = x.answer, !.answer = "none"]
                          /\ CallConsistent(y, phase, gated)
    BY <1>5, <2>1, <2>2, ReceiptCall
  <2>4. calls' = [calls EXCEPT ![c] = y]
    BY <1>1, <1>4, <2>1, <2>3 DEF FetchReceipt, TypeOK
  <2>5. CallConsistent(y, phase', gated')  BY <1>2, <2>3 DEF service
  <2>6. CallsConsistent' /\ calls' \in [Slots -> Call \cup {Free}]
    BY <1>1, <1>6, <2>4, <2>5, OneCallChanges
  <2>7. UNCHANGED <<current, receipt, dialog, busy, outcomes>> /\ (timer' = timer \/ timer' = Nothing)
    BY <1>9 DEF TaskArrives, PollResolved, page
  <2>8. PageConsistent'  BY <1>1, <1>2, <2>7 DEF PageConsistent, service
  <2>9. TypeOK'  BY <1>1, <1>2, <2>6, <2>7 DEF TypeOK, faults
  <2> QED BY <1>6, <2>6, <2>8, <2>9 DEF ConsoleInv, CallsConsistent
<1>10. CASE Executed(c)
  <2>1. /\ current' = [task |-> x.task, state |-> x.seen] /\ receipt' = x.answer
        /\ x.seen \in State /\ x.answer \in After(x.seen) /\ x.answer \in State
        /\ (x.seen = "waiting" => x.task \in gated)
        /\ outcomes' \subseteq Actions
    BY <1>8, <1>10 DEF Executed, Arrived
  <2>2. PICK y : y = IF x.seen = "waiting" /\ x.task \in PhoneTasks
                       THEN NewCall("pair", x.task) ELSE Free
    OBVIOUS
  <2>3. calls' = [calls EXCEPT ![c] = y]  BY <1>4, <1>10, <2>2 DEF Executed
  <2>4. y = Free \/ (y \in Call /\ CallConsistent(y, phase', gated'))
    <3>1. CASE y = NewCall("pair", x.task) /\ x.seen = "waiting"
      <4>1. x.task \in gated'  BY <1>2, <2>1, <3>1 DEF service
      <4> QED BY <1>5, <3>1, <4>1, NewCallConsistent DEF Operation
    <3> QED BY <2>2, <3>1
  <2>5. CallsConsistent' /\ calls' \in [Slots -> Call \cup {Free}]
    BY <1>1, <1>6, <2>3, <2>4, OneCallChanges
  <2>6. /\ dialog' = (IF x.seen = "waiting" THEN x.task ELSE dialog)
        /\ busy' = FALSE /\ timer' = timer
    BY <1>4, <1>10 DEF Executed
  <2>7. PageConsistent'
    BY <1>1, <1>2, <1>5, <2>1, <2>6 DEF PageConsistent, service, State, Nothing
  <2>8. TypeOK'  BY <1>1, <1>2, <1>5, <2>1, <2>5, <2>6 DEF TypeOK, faults
  <2> QED BY <1>6, <2>5, <2>7, <2>8 DEF ConsoleInv, CallsConsistent
<1>11. CASE Decided(c) \/ RolledBack(c) \/ Polled(c)
  <2>1. /\ current' = [task |-> x.task, state |-> x.seen] /\ receipt' = x.answer
        /\ x.seen \in State /\ x.answer \in After(x.seen) /\ x.answer \in State
        /\ (x.seen = "waiting" => x.task \in gated)
        /\ outcomes' \subseteq Actions
    BY <1>8, <1>11 DEF Decided, RolledBack, Polled, Arrived
  <2>2. /\ timer' = timer /\ busy' \in BOOLEAN
        /\ dialog' = Nothing \/ (dialog' = dialog /\ RolledBack(c))
    BY <1>1, <1>11 DEF Decided, RolledBack, Polled, TypeOK
  <2>3. RolledBack(c) => x.seen # "waiting"
    <3>1. RolledBack(c) => x.op = "rollback" /\ x.stage = "receipt"
      BY <1>4 DEF RolledBack, Arrived
    <3> QED BY <1>5, <3>1 DEF CallConsistent
  <2>4. calls' = [calls EXCEPT ![c] = Free]
    BY <1>11 DEF Decided, RolledBack, Polled, Return
  <2>5. CallsConsistent' /\ calls' \in [Slots -> Call \cup {Free}]
    BY <1>1, <1>6, <2>4, OneCallChanges
  <2>6. PageConsistent'
    BY <1>1, <1>2, <1>5, <2>1, <2>2, <2>3 DEF PageConsistent, service, State, Nothing
  <2>7. TypeOK'  BY <1>1, <1>2, <1>5, <2>1, <2>2, <2>5 DEF TypeOK, faults
  <2> QED BY <1>6, <2>5, <2>6, <2>7 DEF ConsoleInv, CallsConsistent
<1>12. CASE PairingArrives(c) \/ PollUnresolved(c) \/ CallFails(c)
  <2>1. /\ UNCHANGED <<current, receipt, dialog, outcomes>> /\ busy' \in BOOLEAN
        /\ timer' = timer \/ (timer' = x.task /\ x.op = "pair")
    BY <1>1, <1>4, <1>12 DEF PairingArrives, PollUnresolved, CallFails, page, Arrived, TypeOK
  <2>2. calls' = [calls EXCEPT ![c] = Free]
    BY <1>12 DEF PairingArrives, PollUnresolved, CallFails, Return
  <2>3. CallsConsistent' /\ calls' \in [Slots -> Call \cup {Free}]
    BY <1>1, <1>6, <2>2, OneCallChanges
  <2>4. x.op = "pair" => x.task \in gated  BY <1>5 DEF CallConsistent
  <2>5. PageConsistent'  BY <1>1, <1>2, <2>1, <2>4 DEF PageConsistent, service
  <2>6. TypeOK'  BY <1>1, <1>2, <1>5, <2>1, <2>3 DEF TypeOK, faults
  <2> QED BY <1>6, <2>3, <2>5, <2>6 DEF ConsoleInv, CallsConsistent
<1> QED BY <1>9, <1>10, <1>11, <1>12 DEF Resume

-----------------------------------------------------------------------------
(* The theorems.                                                           *)

(* What the page holds, and what its calls were answered, has not become   *)
(* impossible since.                                                       *)
THEOREM ConsoleInvariant == Spec => []ConsoleInv
<1>1. Init => ConsoleInv
  <2> SUFFICES ASSUME Init PROVE ConsoleInv  OBVIOUS
  <2>1. ContractConsistent  BY DEF Init, Service!Init, ContractConsistent, Phase
  <2>2. TypeOK
    <3>1. current \in [task : Actions \cup {Nothing}, state : State \cup {Nothing}]
      BY DEF Init
    <3>2. calls \in [Slots -> Call \cup {Free}]  BY DEF Init
    <3>3. receipt \in State \cup {Nothing} /\ {dialog, timer} \subseteq Actions \cup {Nothing}
      BY DEF Init
    <3>4. busy \in BOOLEAN /\ givenUp \in BOOLEAN /\ outcomes \subseteq Actions
      BY Zenon DEF Init
    <3>5. failures \in 0..MaxFailures
      <4>1. failures = 0 /\ MaxFailures \in Nat  BY Zenon, ConsoleAssumption DEF Init
      <4> QED BY ONLY <4>1
    <3> QED BY <3>1, <3>2, <3>3, <3>4, <3>5 DEF TypeOK
  <2>3. PageConsistent  BY DEF Init, PageConsistent, Nothing
  <2> QED BY <2>1, <2>2, <2>3 DEF Init, ConsoleInv
<1>2. ConsoleInv /\ [Next]_vars => ConsoleInv'
  <2> SUFFICES ASSUME ConsoleInv, [Next]_vars PROVE ConsoleInv'  OBVIOUS
  <2>1. CASE UNCHANGED vars
    BY <2>1 DEF vars, service, page, faults, ConsoleInv, TypeOK, ContractConsistent, PageConsistent
  <2>2. CASE User \/ TimerFires  BY <2>2, UserStep
  <2>3. CASE Ends  BY <2>3, EndStep DEF Ends
  <2>4. ASSUME NEW t \in PhoneTasks, PhoneDecides(t) PROVE ConsoleInv'  BY <2>4, PhoneStep
  <2>5. ASSUME NEW c \in Slots, Serve(c) \/ RequestFails(c) \/ Resume(c) PROVE ConsoleInv'
    BY <2>5, ServeStep, ResumeStep
  <2> QED BY <2>1, <2>2, <2>3, <2>4, <2>5 DEF Next
<1> QED BY <1>1, <1>2, PTL DEF Spec

(* The approval the dialog shows is the one a decision is sent for,        *)
(* although decideApproval takes it from currentTask, which polls and      *)
(* other calls replace meanwhile.                                          *)
THEOREM DecisionIsOfDialog == Spec => []DecidesWhatItShows
<1>1. ConsoleInv => DecidesWhatItShows
  BY DEF ConsoleInv, PageConsistent, DecidesWhatItShows, CanDecide
<1> QED BY <1>1, ConsoleInvariant, PTL

(* The receipt on the page is not older than the task it is shown with.    *)
THEOREM ReceiptIsCurrent == Spec => []ReceiptNotOlder
<1>1. ConsoleInv => ReceiptNotOlder  BY DEF ConsoleInv, PageConsistent, ReceiptNotOlder
<1> QED BY <1>1, ConsoleInvariant, PTL
=============================================================================
