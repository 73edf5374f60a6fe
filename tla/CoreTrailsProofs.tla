-------------------------- MODULE CoreTrailsProofs --------------------------
(***************************************************************************)
(* More theorems about CoreService, which rest on those of                 *)
(* CoreServiceProofs: what the event trails and the receipts say of the    *)
(* past of a task, how often an approval is granted, and that the service  *)
(* implements ApprovedAction.                                              *)
(***************************************************************************)
EXTENDS CoreServiceProofs, FiniteSetTheorems, WellFoundedInduction

-----------------------------------------------------------------------------
(* Trails.                                                                 *)

(* One sequence is a prefix of another if the other goes on where it ends. *)
LEMMA PrefixMeaning ==
  ASSUME NEW S, NEW s \in Seq(S), NEW t \in Seq(S)
  PROVE  IsPrefix(s, t) <=> Len(s) <= Len(t) /\ \A i \in 1..Len(s) : s[i] = t[i]
<1>1. /\ Len(s) \in Nat /\ Len(t) \in Nat
      /\ DOMAIN s = 1..Len(s) /\ DOMAIN t = 1..Len(t)
  OBVIOUS
<1>2. ASSUME Len(s) <= Len(t)
      PROVE  /\ DOMAIN SubSeq(s, 1, Len(s)) = 1..Len(s)
             /\ DOMAIN SubSeq(t, 1, Len(s)) = 1..Len(s)
             /\ \A i \in 1..Len(s) : /\ SubSeq(s, 1, Len(s))[i] = s[i]
                                     /\ SubSeq(t, 1, Len(s))[i] = t[i]
             /\ SubSeq(s, 1, Len(s)) \in Seq(S) /\ SubSeq(t, 1, Len(s)) \in Seq(S)
             /\ Len(SubSeq(s, 1, Len(s))) = Len(s) /\ Len(SubSeq(t, 1, Len(s))) = Len(s)
  BY <1>1, <1>2
<1>3. ASSUME IsPrefix(s, t)
      PROVE  Len(s) <= Len(t) /\ \A i \in 1..Len(s) : s[i] = t[i]
  BY <1>2, <1>3 DEF IsPrefix
<1>4. ASSUME Len(s) <= Len(t), \A i \in 1..Len(s) : s[i] = t[i]
      PROVE  IsPrefix(s, t)
  <2>1. SubSeq(s, 1, Len(s)) = SubSeq(t, 1, Len(s))  BY <1>2, <1>4
  <2> QED BY <1>4, <2>1 DEF IsPrefix
<1> QED BY <1>3, <1>4

(* Every sequence is a prefix of itself, and of what it is appended to.    *)
LEMMA PrefixSame ==
  ASSUME NEW S, NEW s \in Seq(S)
  PROVE  IsPrefix(s, s)
  BY PrefixMeaning

(* A sequence that grows by an element has all that was a prefix of it as  *)
(* strict prefixes.                                                        *)
LEMMA PrefixGrows ==
  ASSUME NEW S, NEW s \in Seq(S), NEW t \in Seq(S), NEW x \in S, IsPrefix(s, t)
  PROVE  /\ IsStrictPrefix(s, Append(t, x)) /\ IsPrefix(s, Append(t, x))
         /\ Append(t, x) \in Seq(S) /\ Last(Append(t, x)) = x
<1>1. Len(s) <= Len(t) /\ \A i \in 1..Len(s) : s[i] = t[i]  BY PrefixMeaning
<1>2. PICK u : u = Append(t, x)  OBVIOUS
<1>3. /\ u \in Seq(S) /\ Len(u) = Len(t) + 1 /\ \A i \in 1..Len(t) : u[i] = t[i]
      /\ u[Len(u)] = x /\ Len(s) \in Nat /\ Len(t) \in Nat
  BY <1>2
<1>4. Len(s) <= Len(u) /\ \A i \in 1..Len(s) : s[i] = u[i]  BY <1>1, <1>3
<1>5. IsPrefix(s, u)  BY <1>3, <1>4, PrefixMeaning
<1>6. s # u  BY <1>1, <1>3
<1> QED BY <1>2, <1>3, <1>5, <1>6 DEF IsStrictPrefix, Last

(* A prefix of a prefix is a prefix.                                       *)
LEMMA PrefixTrans ==
  ASSUME NEW S, NEW s \in Seq(S), NEW t \in Seq(S), NEW u \in Seq(S),
         IsPrefix(s, t), IsPrefix(t, u)
  PROVE  /\ IsPrefix(s, u)
         /\ IsStrictPrefix(t, u) => IsStrictPrefix(s, u)
<1>1. /\ Len(s) <= Len(t) /\ \A i \in 1..Len(s) : s[i] = t[i]
      /\ Len(t) <= Len(u) /\ \A i \in 1..Len(t) : t[i] = u[i]
      /\ Len(s) \in Nat /\ Len(t) \in Nat /\ Len(u) \in Nat
  BY PrefixMeaning
<1>2. Len(s) <= Len(u) /\ \A i \in 1..Len(s) : s[i] = u[i]
  BY <1>1
<1>3. IsPrefix(s, u)  BY <1>2, PrefixMeaning
<1>4. ASSUME s = u PROVE t = u
  <2>1. Len(t) = Len(u)  BY <1>1, <1>4
  <2> QED BY <1>1, <2>1
<1> QED BY <1>3, <1>4 DEF IsStrictPrefix

(* A legal trail stays legal when it takes a transition of the table.      *)
LEMMA TrailExtends ==
  ASSUME NEW s \in Seq(TaskState), LegalTrail(s), NEW x \in TaskState,
         ValidTransition(Last(s), x)
  PROVE  LegalTrail(Append(s, x))
<1>1. PICK u : u = Append(s, x)  OBVIOUS
<1>2. /\ u \in Seq(TaskState) /\ Len(u) = Len(s) + 1 /\ Len(s) \in Nat \ {0} /\ u # << >>
      /\ \A i \in 1..Len(s) : u[i] = s[i]
      /\ u[Len(u)] = x
  BY <1>1 DEF LegalTrail
<1>3. u[1] = "received"  BY <1>2 DEF LegalTrail
<1>4. ASSUME NEW i \in 2..Len(u)
      PROVE  ValidTransition(u[i - 1], u[i])
  <2>1. CASE i = Len(u)
    <3>1. u[i - 1] = Last(s)  BY <1>2, <2>1 DEF Last
    <3> QED BY <1>2, <2>1, <3>1
  <2>2. CASE i # Len(u)
    <3>1. i \in 2..Len(s) /\ i - 1 \in 1..Len(s) /\ i \in 1..Len(s)  BY <1>2, <2>2
    <3> QED BY <1>2, <3>1 DEF LegalTrail
  <2> QED BY <2>1, <2>2
<1> QED BY <1>1, <1>2, <1>3, <1>4 DEF LegalTrail

(* A new task has been received and planned.                               *)
LEMMA PlannedTrail ==
  ASSUME NEW caller \in Callers, NEW i \in Intents
  PROVE  /\ Planned(caller, i).events = <<"received", "planned">>
         /\ LegalTrail(<<"received", "planned">>)
         /\ Last(<<"received", "planned">>) = "planned"
         /\ <<"received", "planned">> \in Seq(TaskState)
<1>1. ValidTransition("received", "planned")  BY DEF ValidTransition, AllowedTransitions
<1> QED BY <1>1 DEF Planned, LegalTrail, Last, TaskState

(* A task has been granted a number of times.                              *)
LEMMA GrantsType ==
  ASSUME NEW w \in Task
  PROVE  /\ IsFiniteSet(Occurrences(w.events, "approved"))
         /\ Grants(w) \in Nat
<1>1. w.events \in Seq(TaskState)  BY DEF Task
<1>2. PICK n \in Nat : DOMAIN w.events = 1..n  BY <1>1
<1>3. PICK A : A = Occurrences(w.events, "approved")  OBVIOUS
<1>4. A \in SUBSET (1..n)  BY <1>2, <1>3 DEF Occurrences
<1>5. IsFiniteSet(1..n)  BY <1>2, FS_Interval
<1>6. IsFiniteSet(A)  BY <1>4, <1>5, FS_Subset
<1> QED BY <1>3, <1>6, FS_CardinalityType DEF Grants

(* Entering a state counts as a grant if the state is APPROVED.            *)
LEMMA GrantsAppend ==
  ASSUME NEW w \in Task, NEW t \in Task, NEW e \in TaskState,
         t.events = Append(w.events, e)
  PROVE  /\ e = "approved" => Grants(t) = Grants(w) + 1
         /\ e # "approved" => Grants(t) = Grants(w)
<1>1. w.events \in Seq(TaskState)  BY DEF Task
<1>2. PICK n \in Nat : n = Len(w.events) /\ DOMAIN w.events = 1..n  BY <1>1
<1>3. /\ DOMAIN t.events = 1..(n + 1) /\ t.events[n + 1] = e
      /\ \A i \in 1..n : t.events[i] = w.events[i]
  BY <1>1, <1>2
<1>4. PICK A : A = Occurrences(w.events, "approved")  OBVIOUS
<1>5. n + 1 \notin A  BY <1>2, <1>4 DEF Occurrences
<1>6. Occurrences(t.events, "approved") = IF e = "approved" THEN A \cup {n + 1} ELSE A
  BY <1>2, <1>3, <1>4 DEF Occurrences
<1>7. Cardinality(A \cup {n + 1}) = Cardinality(A) + 1
  <2>1. IsFiniteSet(A)  BY <1>4, GrantsType
  <2> QED BY <1>5, <2>1, FS_AddElement
<1> QED BY <1>4, <1>6, <1>7 DEF Grants

(* A new task has not been granted anything.                               *)
LEMMA GrantsFresh ==
  ASSUME NEW w, w.events = <<"received", "planned">>
  PROVE  Grants(w) = 0
<1>1. Occurrences(w.events, "approved") = {}  BY DEF Occurrences
<1> QED BY <1>1, FS_EmptySet DEF Grants

-----------------------------------------------------------------------------
(* What a step may do: wait, mark the stored task of a call that starts, or *)
(* end by storing a task.                                                  *)

(* Storing a task grants nothing, and leaves no approval to grant again;   *)
(* starting an execution grants the approval that was pending.             *)
StoredCounts(r, t) ==
  /\ r \notin DOMAIN tasks => Grants(t) = 0
  /\ r \in DOMAIN tasks => Grants(t) = Grants(tasks[r]) /\ ~Pending(t)

MarkCounts(r, d) ==
  /\ op'.kind = "approve"  => Pending(tasks[r]) /\ Grants(d) = Grants(tasks[r]) + 1
  /\ op'.kind = "rollback" => Grants(d) = Grants(tasks[r])

(* A task is stored that has gone on from the stored one, if there was one. *)
Ends(r, t) ==
  /\ Store(r, t)
  /\ AtRest(r) => op = Idle
  /\ op' = Idle /\ UNCHANGED <<faults, restarts>>
  /\ t.events # << >> /\ Last(t.events) = t.state
  /\ UndoBacked(t) /\ StoredCounts(r, t)
  /\ faults = 0 => LegalTrail(t.events)
  /\ r \in DOMAIN tasks =>
       /\ IsPrefix(tasks[r].events, t.events) /\ IsStrictPrefix(tasks[r].events, t.events)
       /\ t.session = tasks[r].session /\ t.intent = tasks[r].intent
       /\ \/ tasks[r].state = "awaiting_approval"
          \/ tasks[r].state = "completed" /\ t.state \in {"rolled_back", "failed"}

(* A call has started on a stored task, and left its mark there.           *)
Marks(r, d) ==
  /\ tasks' = Put(tasks, r, d)
  /\ UNCHANGED <<ledger, faults, restarts>>
  /\ op = Idle /\ op' # Idle /\ op'.request = r /\ op'.draft = d
  /\ \/ op'.kind = "approve"  /\ tasks[r].state = "awaiting_approval"
                              /\ Last(d.events) = "executing"
     \/ op'.kind = "rollback" /\ RollbackEligible(tasks[r])
                              /\ tasks[r].state = "completed"
                              /\ Last(d.events) = "rolling_back"
  /\ MarkCounts(r, d)
  /\ d.state = tasks[r].state /\ d.results = tasks[r].results
  /\ d.approval = tasks[r].approval
  /\ d.session = tasks[r].session /\ d.intent = tasks[r].intent
  /\ IsPrefix(tasks[r].events, d.events)
  /\ faults = 0 => LegalTrail(d.events)

(* Tasks and receipts stay as they are.                                    *)
Waits ==
  /\ UNCHANGED <<tasks, ledger, restarts>>
  /\ FlightTrail'
  /\ \/ faults' = faults /\ \A r \in DOMAIN tasks : AtRest(r)' => AtRest(r)
     \/ faults' \in Nat \ {0} /\ faults' = faults + 1

Shape ==
  \/ Waits \/ Restart
  \/ \E r \in Requests, t \in Task : Ends(r, t)
  \/ \E r \in DOMAIN tasks, d \in Task : Marks(r, d)

Starts == \E r \in DOMAIN tasks, d \in Task : Marks(r, d)

(* A stored task has a trail, and so has the call in flight; if it works on*)
(* a stored task, it has the trail of that task.                           *)
LEMMA StoredTrail ==
  ASSUME CoreInv, NEW r \in DOMAIN tasks
  PROVE  r \in Requests /\ tasks[r] \in Task /\ tasks[r].events \in Seq(TaskState)
  BY DEF CoreInv, TypeOK, Task

(* The task that a call works on: its trail is legal and ends in its       *)
(* state.                                                                  *)
LEMMA FlightLegal ==
  ASSUME ServiceInv, op.kind # "idle"
  PROVE  /\ op.draft \in Task /\ op.request \in Requests
         /\ op.draft.events \in Seq(TaskState)
         /\ op.kind \in {"create", "approve", "rollback"}
         /\ Last(op.draft.events) = IF op.kind = "rollback" THEN "rolling_back" ELSE "executing"
         /\ faults = 0 => LegalTrail(op.draft.events)
         /\ UndoBacked(op.draft)
         /\ op.kind = "create" =>
              op.request \notin DOMAIN tasks /\ op.draft.approval = NoApproval
         /\ op.kind # "create" =>
              LET w == tasks[op.request]
              IN  /\ op.request \in DOMAIN tasks
                  /\ w.events = op.draft.events /\ w.session = op.draft.session
                  /\ w.intent = op.draft.intent /\ w.approval = op.draft.approval
                  /\ w.approval # NoApproval => w.approval \in Approval
                  /\ op.kind = "approve" => w.state = "awaiting_approval" /\ w.approval # NoApproval
                  /\ op.kind = "rollback" => w.state = "completed"
<1>1. CoreInv /\ FlightTrail /\ TrailEndsInState  BY DEF ServiceInv
<1>2. op \in Frame /\ op.draft \in Task /\ op.request \in Requests  BY <1>1, FlightType
<1>3. op.draft.events \in Seq(TaskState) /\ op.kind \in {"create", "approve", "rollback"}
  BY <1>2 DEF Task, Frame
<1>4. op # Idle /\ UndoBacked(op.draft)  BY <1>1 DEF FlightTrail, Idle
<1>5. CASE op.kind = "create"
  <2>1. op.draft.events = <<"received", "planned", "executing">>  BY <1>1, <1>5 DEF FlightTrail
  <2>2. LegalTrail(op.draft.events) /\ Last(op.draft.events) = "executing"
    <3>1. ValidTransition("received", "planned") /\ ValidTransition("planned", "executing")
      BY DEF ValidTransition, AllowedTransitions
    <3> QED BY <2>1, <3>1 DEF LegalTrail, Last
  <2>3. op.request \notin DOMAIN tasks /\ op.draft.approval = NoApproval
    BY <1>1, <1>5 DEF CoreInv, FlightConsistent
  <2> QED BY <1>2, <1>3, <1>4, <1>5, <2>2, <2>3
<1>6. CASE op.kind # "create"
  <2>1. PICK w : w = tasks[op.request]  OBVIOUS
  <2>2. /\ op.request \in DOMAIN tasks
        /\ w.events = op.draft.events /\ w.session = op.draft.session
        /\ w.intent = op.draft.intent /\ w.approval = op.draft.approval
        /\ op.kind = "approve" => Pending(w)
        /\ op.kind = "rollback" => w.state = "completed"
    BY <1>1, <1>3, <1>6, <2>1
       DEF CoreInv, FlightConsistent, FlightTrail, RollbackEligible
  <2>3. w \in Task /\ TaskConsistent(w)
    BY <1>1, <2>1, <2>2 DEF CoreInv, TypeOK, StoredConsistent
  <2>4. op.kind = "approve" => w.state = "awaiting_approval" /\ w.approval # NoApproval
    BY <2>2, <2>3 DEF TaskConsistent, Pending
  <2>5. w.approval # NoApproval => w.approval \in Approval  BY <2>3 DEF Task
  <2>6. faults = 0 => LegalTrail(op.draft.events)
    BY <1>1, <2>1, <2>2 DEF TrailEndsInState
  <2>7. Last(op.draft.events) = IF op.kind = "rollback" THEN "rolling_back" ELSE "executing"
    BY <1>1, <1>3, <1>6 DEF FlightTrail
  <2> QED BY <1>2, <1>3, <1>4, <1>6, <2>1, <2>2, <2>4, <2>5, <2>6, <2>7
<1> QED BY <1>5, <1>6

(* The call in flight has granted what its trail tells: nothing yet if it  *)
(* creates a task, and what it undoes is not waiting for an approval.      *)
LEMMA FlightGrants ==
  ASSUME ServiceInv, op.kind # "idle"
  PROVE  /\ op.kind = "create" => Grants(op.draft) = 0
         /\ op.kind # "create" => Grants(op.draft) = Grants(tasks[op.request])
         /\ op.kind = "rollback" => ~Pending(op.draft)
<1>1. ASSUME op.kind = "create" PROVE Grants(op.draft) = 0
  <2>1. op.draft.events = <<"received", "planned", "executing">>
    BY <1>1 DEF ServiceInv, FlightTrail
  <2>2. Occurrences(op.draft.events, "approved") = {}  BY <2>1 DEF Occurrences
  <2> QED BY <2>2, FS_EmptySet DEF Grants
<1>2. ASSUME op.kind # "create" PROVE Grants(op.draft) = Grants(tasks[op.request])
  <2>1. PICK w : w = tasks[op.request]  OBVIOUS
  <2>2. w.events = op.draft.events  BY <1>2, <2>1, FlightLegal
  <2> QED BY <2>1, <2>2 DEF Grants
<1>3. ASSUME op.kind = "rollback" PROVE ~Pending(op.draft)
  <2>1. /\ op.request \in DOMAIN tasks /\ op.draft = tasks[op.request]
        /\ op.draft.state = "completed"
    BY <1>3 DEF ServiceInv, CoreInv, FlightConsistent, RollbackEligible
  <2>2. TaskConsistent(op.draft)  BY <2>1 DEF ServiceInv, CoreInv, StoredConsistent
  <2> QED BY <2>1, <2>2 DEF TaskConsistent
<1> QED BY <1>1, <1>2, <1>3

(* create_task, with a plan that is denied or needs an approval.           *)
LEMMA CreateEnds ==
  ASSUME ServiceInv, NEW r \in Requests, NEW caller \in Callers, NEW i \in Intents,
         CreateDenied(r, caller, i) \/ CreateAwaiting(r, caller, i)
  PROVE  Shape
<1> DEFINE Told(p, st) == /\ p = Enter(Planned(caller, i), st) /\ p.events # << >>
                          /\ Last(p.events) = st /\ p.state = st /\ LegalTrail(p.events)
                          /\ p.approval = NoApproval /\ p.results = << >>
                          /\ Grants(p) = 0
<1>1. r \notin DOMAIN tasks /\ op = Idle /\ op' = Idle /\ UNCHANGED <<faults, restarts>>
  BY DEF CreateDenied, CreateAwaiting, NewRequest
<1>2. ASSUME NEW st \in {"denied", "awaiting_approval"}
      PROVE  \E p \in Task : Told(p, st)
  <2>1. st \in TaskState /\ ValidTransition("planned", st)
    BY <1>2 DEF TaskState, ValidTransition, AllowedTransitions
  <2>2. PICK p : p = Enter(Planned(caller, i), st)  OBVIOUS
  <2>3. /\ p \in Task /\ p.state = st /\ p.approval = NoApproval /\ p.results = << >>
        /\ p.events = Append(<<"received", "planned">>, st) /\ Grants(p) = 0
    <3>1. PICK q \in Task : /\ q = Planned(caller, i) /\ q.events = <<"received", "planned">>
                            /\ q.approval = NoApproval /\ q.results = << >>
      BY PlannedFields, PlannedTrail
    <3>2. p = Enter(q, st)  BY <2>2, <3>1, Zenon
    <3>3. /\ Enter(q, st) \in Task /\ Enter(q, st).state = st
          /\ Enter(q, st).approval = q.approval /\ Enter(q, st).results = q.results
          /\ Enter(q, st).events = Append(q.events, st)
      BY ONLY <2>1, q \in Task, EnterFields
    <3>4. p \in Task /\ p.events = Append(q.events, st) /\ st # "approved"
      BY <1>2, <3>2, <3>3
    <3>5. Grants(p) = Grants(q)  BY ONLY <2>1, <3>4, q \in Task, GrantsAppend
    <3>6. Grants(q) = 0  BY <3>1, GrantsFresh
    <3> QED BY <3>1, <3>2, <3>3, <3>5, <3>6
  <2>4. Last(p.events) = st /\ LegalTrail(p.events)
    <3>1. PICK q \in Seq(TaskState) : /\ q = <<"received", "planned">> /\ LegalTrail(q)
                                      /\ Last(q) = "planned" /\ IsPrefix(q, q)
      BY PlannedTrail, PrefixSame
    <3>2. p.events = Append(q, st)  BY <2>3, <3>1
    <3>3. Last(Append(q, st)) = st  BY DEF Last
    <3>4. LegalTrail(Append(q, st))  BY ONLY <2>1, <3>1, q \in Seq(TaskState), TrailExtends
    <3> QED BY <3>2, <3>3, <3>4
  <2> QED BY <2>2, <2>3, <2>4 DEF LegalTrail
<1>3. CASE CreateDenied(r, caller, i)
  <2>1. PICK p \in Task : Told(p, "denied")  BY <1>2
  <2>2. Store(r, p)  BY <1>3, <2>1 DEF CreateDenied
  <2>3. UndoBacked(p) /\ StoredCounts(r, p)
    BY <1>1, <2>1 DEF UndoBacked, StoredCounts
  <2> QED BY <1>1, <2>1, <2>2, <2>3 DEF Ends, Shape, AtRest
<1>4. CASE CreateAwaiting(r, caller, i)
  <2>1. PICK p \in Task : Told(p, "awaiting_approval")  BY <1>2
  <2>2. PICK a \in Approval : a = ApprovalFor(i, lastToken') /\ a # NoApproval
    <3>1. lastToken' \in Nat \ {0} /\ Decision(i) = "require_approval"
      BY <1>4 DEF CreateAwaiting, ServiceInv, CoreInv, TypeOK
    <3> QED BY <3>1, ApprovalForConsistent DEF ServiceInv, CoreInv
  <2>3. PICK t \in Task : /\ t = [p EXCEPT !.approval = a] /\ t.approval = a
                          /\ t.events = p.events /\ t.state = p.state
    BY ApprovalField
  <2>4. Store(r, t)  BY <1>4, <2>1, <2>2, <2>3 DEF CreateAwaiting
  <2>5. UndoBacked(t) /\ StoredCounts(r, t)
    BY <1>1, <2>1, <2>2, <2>3 DEF UndoBacked, StoredCounts, Grants
  <2> QED BY <1>1, <2>1, <2>3, <2>4, <2>5 DEF Ends, Shape, AtRest
<1> QED BY <1>3, <1>4

(* create_task, with a plan that is allowed.                               *)
LEMMA CreateWaits ==
  ASSUME ServiceInv, NEW r \in Requests, NEW caller \in Callers, NEW i \in Intents,
         CreateExecuting(r, caller, i)
  PROVE  Shape
<1>1. PICK d \in Task : /\ d = Log(Planned(caller, i), "executing")
                        /\ d.events = Append(<<"received", "planned">>, "executing")
                        /\ d.results = << >>
  <2>1. PICK q \in Task : /\ q = Planned(caller, i) /\ q.events = <<"received", "planned">>
                          /\ q.results = << >>
    BY PlannedFields, PlannedTrail
  <2>2. "executing" \in TaskState  BY DEF TaskState
  <2>3. /\ Log(q, "executing") \in Task /\ Log(q, "executing").results = q.results
        /\ Log(q, "executing").events = Append(q.events, "executing")
    BY ONLY <2>2, q \in Task, LogFields
  <2> QED BY <2>1, <2>3
<1>2. /\ op'.kind = "create" /\ op'.request = r /\ op'.draft = d
      /\ r \notin DOMAIN tasks /\ op = Idle
      /\ UNCHANGED <<tasks, ledger, faults, restarts>>
  BY <1>1 DEF CreateExecuting, NewRequest
<1>3. FlightTrail'  BY <1>1, <1>2 DEF FlightTrail, UndoBacked
<1> QED BY <1>2, <1>3 DEF Waits, Shape, AtRest

(* approve_task, when the task is refused or its approval has expired.     *)
LEMMA DenialEnds ==
  ASSUME ServiceInv, NEW r, NEW caller, Decidable(r, caller),
         NEW s \in {"rejected", "expired"},
         Store(r, [Enter(tasks[r], "denied") EXCEPT !.approval = Settle(@, s)]),
         UNCHANGED <<now, op, lastToken, faults, restarts>>
  PROVE  Shape
<1>1. PICK w \in Task : w = tasks[r]
  BY DEF ServiceInv, CoreInv, TypeOK, Decidable
<1>2. /\ r \in Requests /\ r \in DOMAIN tasks /\ op = Idle /\ op' = Idle
      /\ w.approval # NoApproval /\ w.state = "awaiting_approval"
  BY <1>1 DEF ServiceInv, CoreInv, TypeOK, Decidable
<1>3. w.events \in Seq(TaskState) /\ w.approval \in Approval  BY <1>2 DEF Task
<1>4. "denied" \in TaskState /\ s \in ApprovalStatus  BY DEF TaskState, ApprovalStatus
<1>5. PICK e : e = Enter(w, "denied")  OBVIOUS
<1>6. /\ e \in Task /\ e.state = "denied" /\ e.approval = w.approval
      /\ e.events = Append(w.events, "denied")
      /\ e.session = w.session /\ e.intent = w.intent
  BY <1>4, <1>5, EnterFields
<1>7. PICK a \in Approval : a = Settle(e.approval, s) /\ a # NoApproval /\ a.status = s
  BY <1>3, <1>4, <1>6, SettleFields
<1>8. PICK t \in Task : /\ t = [e EXCEPT !.approval = a] /\ t.approval = a
                        /\ t.events = e.events /\ t.state = e.state
                        /\ t.session = e.session /\ t.intent = e.intent
  BY <1>6, ApprovalField
<1>9. Store(r, t)  BY <1>1, <1>5, <1>7, <1>8
<1>10. /\ IsPrefix(w.events, t.events) /\ IsStrictPrefix(w.events, t.events)
       /\ Last(t.events) = "denied" /\ t.events # << >>
  <2>1. IsPrefix(w.events, w.events)  BY <1>3, PrefixSame
  <2>2. Append(w.events, "denied") # << >>  BY <1>3
  <2>3. t.events = Append(w.events, "denied")  BY <1>6, <1>8
  <2> QED BY ONLY <1>3, <1>4, <2>1, <2>2, <2>3, PrefixGrows
<1>11. faults = 0 => LegalTrail(t.events)
  <2> SUFFICES ASSUME faults = 0 PROVE LegalTrail(t.events)  OBVIOUS
  <2>1. LegalTrail(w.events) /\ Last(w.events) = "awaiting_approval"
    BY <1>1, <1>2 DEF ServiceInv, TrailEndsInState, AtRest
  <2>2. ValidTransition("awaiting_approval", "denied")
    BY DEF ValidTransition, AllowedTransitions
  <2> QED BY <1>3, <1>4, <1>6, <1>8, <2>1, <2>2, TrailExtends
<1>12. UndoBacked(t) /\ StoredCounts(r, t)
  <2>1. t.events = Append(w.events, "denied") /\ "denied" # "approved"  BY <1>6, <1>8
  <2>2. Grants(t) = Grants(w)
    BY ONLY <1>4, <2>1, w \in Task, t \in Task, GrantsAppend
  <2> QED BY <1>1, <1>2, <1>7, <1>8, <2>2 DEF UndoBacked, StoredCounts, Pending
<1>13. Ends(r, t)
  BY <1>1, <1>2, <1>6, <1>8, <1>9, <1>10, <1>11, <1>12 DEF Ends, AtRest
<1> QED BY <1>2, <1>13 DEF Shape

(* approve_task, when the execution starts.                                *)
LEMMA GrantMarks ==
  ASSUME ServiceInv, NEW r, NEW caller \in Callers, NEW channel \in Channel,
         NEW approvalId, NEW token, NEW payload \in Intents,
         GrantApproval(r, caller, channel, approvalId, token, payload)
  PROVE  Starts
<1>1. PICK w \in Task : w = tasks[r]
  BY DEF GrantApproval, ServiceInv, CoreInv, TypeOK, Decidable
<1>2. r \in DOMAIN tasks /\ w.state = "awaiting_approval" /\ op = Idle
  BY <1>1 DEF GrantApproval, Decidable
<1>3. "approved" \in TaskState /\ "executing" \in TaskState  BY DEF TaskState
<1>4. w.events \in Seq(TaskState)  BY DEF Task
<1>5. PICK e : e = Log(w, "approved")  OBVIOUS
<1>6. /\ e \in Task /\ e.state = w.state /\ e.approval = w.approval
      /\ e.results = w.results /\ e.session = w.session /\ e.intent = w.intent
      /\ e.events = Append(w.events, "approved")
  BY <1>3, <1>5, LogFields
<1>7. PICK d : d = Log(e, "executing")  OBVIOUS
<1>8. /\ d \in Task /\ d.state = w.state /\ d.approval = w.approval
      /\ d.results = w.results /\ d.session = w.session /\ d.intent = w.intent
      /\ d.events = Append(e.events, "executing")
  BY <1>3, <1>6, <1>7, LogFields
<1>9. /\ e.events \in Seq(TaskState) /\ IsPrefix(w.events, e.events)
      /\ Last(e.events) = "approved"
  <2>1. IsPrefix(w.events, w.events)  BY <1>4, PrefixSame
  <2> QED BY <1>3, <1>4, <1>6, <2>1, PrefixGrows
<1>10. IsPrefix(w.events, d.events) /\ Last(d.events) = "executing"
  BY <1>3, <1>4, <1>8, <1>9, PrefixGrows
<1>11. faults = 0 => LegalTrail(d.events)
  <2> SUFFICES ASSUME faults = 0 PROVE LegalTrail(d.events)  OBVIOUS
  <2>1. LegalTrail(w.events) /\ Last(w.events) = "awaiting_approval"
    BY <1>1, <1>2 DEF ServiceInv, TrailEndsInState, AtRest
  <2>2. ValidTransition("awaiting_approval", "approved") /\ ValidTransition("approved", "executing")
    BY DEF ValidTransition, AllowedTransitions
  <2>3. LegalTrail(e.events)  BY <1>3, <1>4, <1>6, <2>1, <2>2, TrailExtends
  <2> QED BY <1>3, <1>8, <1>9, <2>2, <2>3, TrailExtends
<1>12. /\ tasks' = Put(tasks, r, d) /\ UNCHANGED <<ledger, faults, restarts>>
       /\ op'.kind = "approve" /\ op'.request = r /\ op'.draft = d /\ op' # Idle
  BY <1>1, <1>5, <1>7 DEF GrantApproval, Idle
<1>13. MarkCounts(r, d)
  <2>1. Grants(e) = Grants(w) + 1
    <3>1. e \in Task /\ e.events = Append(w.events, "approved")  BY <1>6
    <3> QED BY ONLY <1>3, <3>1, w \in Task, GrantsAppend
  <2>2. Grants(d) = Grants(e)
    <3>1. e \in Task /\ d \in Task /\ d.events = Append(e.events, "executing")
      BY <1>6, <1>8
    <3> QED BY ONLY <1>3, <3>1, "executing" # "approved", GrantsAppend
  <2>3. Pending(w)  BY <1>1, <1>2 DEF ServiceInv, CoreInv, StoredConsistent, TaskConsistent
  <2> QED BY <1>1, <1>12, <2>1, <2>2, <2>3 DEF MarkCounts
<1>14. Marks(r, d)  BY <1>1, <1>2, <1>8, <1>10, <1>11, <1>12, <1>13 DEF Marks
<1> QED BY <1>2, <1>8, <1>14 DEF Starts

(* rollback_task, when the undo starts.                                    *)
LEMMA RollbackMarks ==
  ASSUME ServiceInv, NEW r, NEW caller \in Callers, RollbackBegin(r, caller)
  PROVE  Starts
<1>1. PICK w \in Task : w = tasks[r]
  BY DEF RollbackBegin, ServiceInv, CoreInv, TypeOK
<1>2. r \in DOMAIN tasks /\ w.state = "completed" /\ op = Idle /\ RollbackEligible(w)
  BY <1>1 DEF RollbackBegin, RollbackEligible
<1>3. "rolling_back" \in TaskState  BY DEF TaskState
<1>4. w.events \in Seq(TaskState)  BY DEF Task
<1>5. PICK d : d = Log(w, "rolling_back")  OBVIOUS
<1>6. /\ d \in Task /\ d.state = w.state /\ d.approval = w.approval
      /\ d.results = w.results /\ d.session = w.session /\ d.intent = w.intent
      /\ d.events = Append(w.events, "rolling_back")
  BY <1>3, <1>5, LogFields
<1>7. IsPrefix(w.events, d.events) /\ Last(d.events) = "rolling_back"
  <2>1. IsPrefix(w.events, w.events)  BY <1>4, PrefixSame
  <2> QED BY <1>3, <1>4, <1>6, <2>1, PrefixGrows
<1>8. faults = 0 => LegalTrail(d.events)
  <2> SUFFICES ASSUME faults = 0 PROVE LegalTrail(d.events)  OBVIOUS
  <2>1. LegalTrail(w.events) /\ Last(w.events) = "completed"
    BY <1>1, <1>2 DEF ServiceInv, TrailEndsInState, AtRest
  <2>2. ValidTransition("completed", "rolling_back")
    BY DEF ValidTransition, AllowedTransitions
  <2> QED BY <1>3, <1>4, <1>6, <2>1, <2>2, TrailExtends
<1>9. /\ tasks' = Put(tasks, r, d) /\ UNCHANGED <<ledger, faults, restarts>>
      /\ op'.kind = "rollback" /\ op'.request = r /\ op'.draft = d /\ op' # Idle
  BY <1>1, <1>5 DEF RollbackBegin, Idle
<1>10. MarkCounts(r, d)
  <2>1. Grants(d) = Grants(w)
    <3>1. d \in Task /\ d.events = Append(w.events, "rolling_back")  BY <1>6
    <3> QED BY ONLY <1>3, <3>1, w \in Task, "rolling_back" # "approved", GrantsAppend
  <2> QED BY <1>1, <1>9, <2>1 DEF MarkCounts
<1>11. Marks(r, d)  BY <1>1, <1>2, <1>6, <1>7, <1>8, <1>9, <1>10 DEF Marks
<1> QED BY <1>2, <1>6, <1>11 DEF Starts

(* A call in flight ends with a task that has gone on from its draft.      *)
LEMMA ConcludeEnds ==
  ASSUME ServiceInv, op.kind # "idle", NEW t \in Task, Conclude(t),
         t.approval = op.draft.approval, t.session = op.draft.session,
         t.intent = op.draft.intent, UndoBacked(t), Grants(t) = Grants(op.draft),
         IsPrefix(op.draft.events, t.events), IsStrictPrefix(op.draft.events, t.events),
         Last(t.events) = t.state, t.events # << >>,
         faults = 0 => LegalTrail(t.events),
         op.kind = "rollback" => t.state \in {"rolled_back", "failed"}
  PROVE  Shape
<1>1. PICK r \in Requests : r = op.request  BY FlightLegal
<1>2. PICK u \in Task : /\ Store(r, u)
                        /\ u.approval = t.approval \/ u.approval # NoApproval
                        /\ u.session = t.session /\ u.intent = t.intent
                        /\ u.results = t.results
                        /\ u.state = t.state /\ u.events = t.events
                        /\ op.kind = "approve" => ~Pending(u)
                        /\ op.kind # "approve" => u.approval = t.approval
  <2>1. CASE op.kind = "approve"
    <3>1. t.approval \in Approval  BY <2>1, FlightLegal
    <3>2. PICK a \in Approval : /\ a = Settle(t.approval, "consumed") /\ a # NoApproval
                                /\ a.status = "consumed"
      BY <3>1, SettleFields DEF ApprovalStatus
    <3>3. PICK u \in Task : /\ u = [t EXCEPT !.approval = a] /\ u.approval = a
                            /\ u.session = t.session /\ u.intent = t.intent
                            /\ u.results = t.results
                            /\ u.state = t.state /\ u.events = t.events
      BY ApprovalField
    <3>4. Store(r, u)  BY <1>1, <2>1, <3>2, <3>3 DEF Conclude
    <3>5. ~Pending(u)  BY <3>2, <3>3 DEF Pending
    <3> QED BY <2>1, <3>2, <3>3, <3>4, <3>5
  <2>2. CASE op.kind # "approve"
    <3>1. Store(r, t)  BY <1>1, <2>2 DEF Conclude
    <3> QED BY <2>2, <3>1
  <2> QED BY <2>1, <2>2
<1>3. op' = Idle /\ UNCHANGED <<faults, restarts>>  BY DEF Conclude
<1>4. UndoBacked(u)  BY <1>2 DEF UndoBacked
<1>5. ASSUME r \in DOMAIN tasks
      PROVE  /\ tasks[r].events = op.draft.events
             /\ tasks[r].session = op.draft.session /\ tasks[r].intent = op.draft.intent
             /\ \/ tasks[r].state = "awaiting_approval"
                \/ tasks[r].state = "completed" /\ t.state \in {"rolled_back", "failed"}
  <2>1. PICK w : w = tasks[op.request]  OBVIOUS
  <2>2. op.kind \in {"approve", "rollback"}  BY <1>1, <1>5, FlightLegal
  <2>3. /\ w.events = op.draft.events /\ w.session = op.draft.session
        /\ w.intent = op.draft.intent
        /\ op.kind = "approve" => w.state = "awaiting_approval"
        /\ op.kind = "rollback" => w.state = "completed"
    BY <2>1, <2>2, FlightLegal
  <2> QED BY <1>1, <2>1, <2>2, <2>3
<1>6. StoredCounts(r, u)
  <2>1. Grants(u) = Grants(op.draft)  BY <1>2 DEF Grants
  <2>2. op.kind \in {"create", "approve", "rollback"}  BY FlightLegal
  <2>3. CASE op.kind = "create"
    <3>1. r \notin DOMAIN tasks  BY <1>1, <2>3, FlightLegal
    <3>2. Grants(op.draft) = 0  BY <2>3, FlightGrants
    <3> QED BY <2>1, <3>1, <3>2 DEF StoredCounts
  <2>4. CASE op.kind # "create"
    <3>1. r \in DOMAIN tasks  BY <1>1, <2>4, FlightLegal
    <3>2. Grants(op.draft) = Grants(tasks[r])  BY <1>1, <2>4, FlightGrants
    <3>3. op.kind = "rollback" => ~Pending(u)
      <4>1. op.kind = "rollback" => ~Pending(op.draft)  BY <2>4, FlightGrants
      <4> QED BY <1>2, <4>1 DEF Pending
    <3> QED BY <1>2, <2>1, <2>2, <2>4, <3>1, <3>2, <3>3 DEF StoredCounts
  <2> QED BY <2>3, <2>4
<1>7. Ends(r, u)  BY <1>1, <1>2, <1>3, <1>4, <1>5, <1>6 DEF Ends, AtRest
<1> QED BY <1>7 DEF Shape

(* The execution is over.                                                  *)
LEMMA FinishEnds ==
  ASSUME ServiceInv, FinishExecution
  PROVE  Shape
<1>1. op.kind # "idle" /\ op.kind # "rollback"  BY DEF FinishExecution, Executing
<1>2. PICK d \in Task : d = op.draft  BY <1>1, FlightLegal
<1>3. /\ d.events \in Seq(TaskState) /\ Last(d.events) = "executing"
      /\ faults = 0 => LegalTrail(d.events)
      /\ UndoBacked(d)
  BY <1>1, <1>2, FlightLegal
<1>4. PICK s \in {"completed", "failed"} : Conclude(Enter(Log(d, "verifying"), s))
  BY <1>2 DEF FinishExecution
<1>5. "verifying" \in TaskState /\ s \in TaskState  BY DEF TaskState
<1>6. PICK l : l = Log(d, "verifying")  OBVIOUS
<1>7. /\ l \in Task /\ l.approval = d.approval /\ l.results = d.results
      /\ l.session = d.session /\ l.intent = d.intent
      /\ l.events = Append(d.events, "verifying")
  BY <1>5, <1>6, LogFields
<1>8. PICK t : t = Enter(l, s)  OBVIOUS
<1>9. /\ t \in Task /\ t.approval = d.approval /\ t.results = d.results /\ t.state = s
      /\ t.session = d.session /\ t.intent = d.intent
      /\ t.events = Append(l.events, s)
  BY <1>5, <1>7, <1>8, EnterFields
<1>10. /\ l.events \in Seq(TaskState) /\ IsPrefix(d.events, l.events)
       /\ Last(l.events) = "verifying"
  <2>1. IsPrefix(d.events, d.events)  BY <1>3, PrefixSame
  <2> QED BY <1>3, <1>5, <1>7, <2>1, PrefixGrows
<1>11. /\ IsPrefix(d.events, t.events) /\ IsStrictPrefix(d.events, t.events)
       /\ Last(t.events) = s /\ t.events # << >>
  <2>1. Append(l.events, s) # << >>  BY <1>10
  <2> QED BY <1>3, <1>5, <1>9, <1>10, <2>1, PrefixGrows
<1>12. faults = 0 => LegalTrail(t.events)
  <2> SUFFICES ASSUME faults = 0 PROVE LegalTrail(t.events)  OBVIOUS
  <2>1. ValidTransition("executing", "verifying") /\ ValidTransition("verifying", s)
    BY DEF ValidTransition, AllowedTransitions
  <2>2. LegalTrail(l.events)  BY <1>3, <1>5, <1>7, <2>1, TrailExtends
  <2> QED BY <1>5, <1>9, <1>10, <2>1, <2>2, TrailExtends
<1>13. UndoBacked(t)  BY <1>3, <1>9 DEF UndoBacked
<1>14. Conclude(t)  BY <1>4, <1>6, <1>8
<1>15. Grants(t) = Grants(d)
  <2>1. Grants(l) = Grants(d)
    <3>1. l \in Task /\ l.events = Append(d.events, "verifying")  BY <1>7
    <3> QED BY ONLY <1>5, <3>1, d \in Task, "verifying" # "approved", GrantsAppend
  <2>2. Grants(t) = Grants(l)
    <3>1. t \in Task /\ l \in Task /\ t.events = Append(l.events, s) /\ s # "approved"
      BY <1>7, <1>9
    <3> QED BY ONLY <1>5, <3>1, GrantsAppend
  <2> QED BY <2>1, <2>2
<1> QED BY <1>1, <1>2, <1>9, <1>11, <1>12, <1>13, <1>14, <1>15, ConcludeEnds

(* The call in flight fails, or its undo has succeeded: one more event.    *)
LEMMA LastEventEnds ==
  ASSUME ServiceInv, op.kind # "idle", NEW s \in {"failed", "rolled_back"},
         s = "rolled_back" => op.kind = "rollback",
         NEW t \in Task, Conclude(t), NEW e, e = Enter(op.draft, s),
         t.events = e.events, t.state = e.state, t.approval = e.approval,
         t.session = e.session, t.intent = e.intent, UndoBacked(t)
  PROVE  Shape
<1>1. PICK d \in Task : d = op.draft  BY FlightLegal
<1>2. /\ d.events \in Seq(TaskState)
      /\ Last(d.events) = IF op.kind = "rollback" THEN "rolling_back" ELSE "executing"
      /\ faults = 0 => LegalTrail(d.events)
  BY <1>1, FlightLegal
<1>3. s \in TaskState  BY DEF TaskState
<1>4. /\ e.state = s /\ e.approval = d.approval /\ e.session = d.session
      /\ e.intent = d.intent /\ e.events = Append(d.events, s)
  <2>1. e = Enter(d, s)  BY <1>1
  <2> QED BY <1>3, <2>1, EnterFields
<1>5. /\ IsPrefix(d.events, t.events) /\ IsStrictPrefix(d.events, t.events)
      /\ Last(t.events) = s /\ t.events # << >>
  <2>1. IsPrefix(d.events, d.events)  BY <1>2, PrefixSame
  <2>2. Append(d.events, s) # << >>  BY <1>2
  <2> QED BY <1>2, <1>3, <1>4, <2>1, <2>2, PrefixGrows
<1>6. faults = 0 => LegalTrail(t.events)
  <2>1. ValidTransition(Last(d.events), s)
    BY <1>2 DEF ValidTransition, AllowedTransitions
  <2> QED BY <1>2, <1>3, <1>4, <2>1, TrailExtends
<1>7. Grants(t) = Grants(d)
  <2>1. t.events = Append(d.events, s) /\ s # "approved"  BY <1>4
  <2> QED BY ONLY <1>3, <2>1, d \in Task, t \in Task, GrantsAppend
<1> QED BY <1>1, <1>4, <1>5, <1>6, <1>7, ConcludeEnds

(* A call that ends in failure leaves one task with a receipt of it.       *)
LEMMA FailureEnds ==
  ASSUME ServiceInv, op.kind # "idle", Conclude(Enter(op.draft, "failed"))
  PROVE  Shape
<1>1. PICK d \in Task : d = op.draft /\ UndoBacked(d)  BY FlightLegal
<1>2. PICK e : e = Enter(d, "failed")  OBVIOUS
<1>3. e \in Task /\ e.approval = d.approval /\ e.results = d.results
  BY <1>2, EnterFields DEF TaskState
<1>4. UndoBacked(e)  BY <1>1, <1>3 DEF UndoBacked
<1> QED BY <1>1, <1>2, <1>3, <1>4, LastEventEnds

(* So does an undo that succeeds.                                          *)
LEMMA UndoneEnds ==
  ASSUME ServiceInv, RollbackSucceeds
  PROVE  Shape
<1>1. op.kind = "rollback"  BY DEF RollbackSucceeds
<1>2. PICK d \in Task : d = op.draft /\ UndoBacked(d)  BY <1>1, FlightLegal
<1>3. PICK x : x = StepResult(UndoOf(SourceResult(d).capability), "rolled_back", TRUE)
  OBVIOUS
<1>4. x \in Result /\ x.capability \notin UndoableCapabilities
  BY <1>3 DEF StepResult, UndoOf, Result, StepStatus, Registered, NoteCapabilities,
              DeviceCapabilities, UndoableCapabilities
<1>5. PICK e : e = Enter(d, "rolled_back")  OBVIOUS
<1>6. e \in Task /\ e.approval = d.approval /\ e.results = d.results
  BY <1>5, EnterFields DEF TaskState
<1>7. PICK t : t = [e EXCEPT !.results = Append(e.results, x)]  OBVIOUS
<1>8. /\ t \in Task /\ t.approval = e.approval /\ t.intent = e.intent /\ t.session = e.session
      /\ t.state = e.state /\ t.events = e.events
      /\ t.results = Append(e.results, x) /\ e.results \in Seq(Result)
  <2>1. e.results \in Seq(Result)  BY <1>6 DEF Task
  <2>2. Append(e.results, x) \in Seq(Result)  BY <1>4, <2>1
  <2> QED BY <1>6, <1>7, <2>1, <2>2 DEF Task
<1>9. Conclude(t)  BY <1>2, <1>3, <1>5, <1>7 DEF RollbackSucceeds
<1>10. UndoBacked(t)  BY <1>2, <1>4, <1>6, <1>8 DEF UndoBacked
<1> QED BY <1>1, <1>2, <1>5, <1>8, <1>9, <1>10, LastEventEnds

(* One step of the plan returned: without an approval, nothing that can be *)
(* undone.                                                                 *)
LEMMA StepWaits ==
  ASSUME ServiceInv, StepReturns
  PROVE  Shape
<1>1. Executing /\ StepsLeft /\ op.kind # "idle"  BY DEF StepReturns, Executing
<1>2. CoreInv /\ FlightTrail  BY DEF ServiceInv
<1>3. op \in Frame /\ op.draft \in Task  BY <1>1, <1>2, FlightType
<1>4. PICK x \in ResultsOf(NextStep) : op' = [op EXCEPT !.draft.results = Append(@, x)]
  BY DEF StepReturns
<1>5. PICK d \in Task : d = op.draft /\ d.results \in Seq(Result)  BY <1>3 DEF Task
<1>6. PICK b : b = [d EXCEPT !.results = Append(d.results, x)]  OBVIOUS
<1>7. /\ b.approval = d.approval /\ b.session = d.session /\ b.events = d.events
      /\ b.results = Append(d.results, x)
  BY <1>6 DEF Task
<1>8. op' = [op EXCEPT !.draft = b]  BY <1>3, <1>4, <1>5, <1>6 DEF Frame, Task
<1>9. /\ op'.kind = op.kind /\ op'.request = op.request /\ op'.draft = b /\ op' # Idle
  BY <1>1, <1>3, <1>8 DEF Frame, Idle
<1>10. x.capability = NextStep
  BY <1>4 DEF ResultsOf, Verified, FailedNoEvidence, FailedEvidence, StepResult
<1>11. op.kind = "create" => NextStep \notin UndoableCapabilities
  <2> SUFFICES ASSUME op.kind = "create" PROVE NextStep \notin UndoableCapabilities
    OBVIOUS
  <2>1. Verdict(Plan) = "allow"
    <3>1. Decision(op.draft.intent) = "allow"  BY <1>2 DEF CoreInv, FlightConsistent
    <3> QED BY <3>1 DEF Decision, Plan
  <2>2. Plan = PlanOf(op.draft.intent.kind)
    <3>1. Decision(op.draft.intent) = "allow"  BY <1>2 DEF CoreInv, FlightConsistent
    <3> QED BY <3>1 DEF Decision, Plan, PlanFor
  <2>3. op.draft.intent.kind \in IntentKind  BY <1>3, IntentsAssumption DEF Task
  <2>4. Len(Plan) \in Nat /\ DOMAIN Plan = 1..Len(Plan)  BY <2>2, <2>3, PlanShape
  <2>5. Len(op.draft.results) \in Nat  BY <1>3 DEF Task
  <2>6. Len(op.draft.results) + 1 \in DOMAIN Plan  BY <1>1, <2>4, <2>5 DEF StepsLeft
  <2>7. ~NeedsApproval(NextStep)  BY <2>1, <2>6, VerdictOfSteps DEF NextStep
  <2> QED BY <2>7 DEF NeedsApproval, Registry, Registered, UndoableCapabilities,
                     NoteCapabilities, DeviceCapabilities
<1>12. UndoBacked(b)
  <2>1. UndoBacked(d) /\ (op.kind = "approve" => d.approval # NoApproval)
    BY <1>1, <1>5, FlightLegal
  <2> SUFFICES ASSUME d.approval = NoApproval
               PROVE  \A i \in DOMAIN b.results : b.results[i].capability \notin UndoableCapabilities
    BY <1>7 DEF UndoBacked
  <2>2. x.capability \notin UndoableCapabilities  BY <1>1, <1>10, <1>11, <2>1 DEF Executing
  <2> QED BY <1>5, <1>7, <2>1, <2>2 DEF UndoBacked
<1>13. UNCHANGED <<tasks, ledger, faults, restarts>>  BY DEF StepReturns
<1>14. FlightTrail'
  BY <1>1, <1>2, <1>5, <1>7, <1>9, <1>12, <1>13 DEF FlightTrail, UndoBacked, Executing
<1> QED BY <1>1, <1>9, <1>13, <1>14 DEF Waits, Shape, AtRest, Idle

(* An exception leaves the call.                                           *)
LEMMA RaiseWaits ==
  ASSUME ServiceInv, Raise
  PROVE  Shape
<1>1. /\ op' = Idle /\ faults' = faults + 1 /\ UNCHANGED <<tasks, ledger, restarts>>
  BY DEF Raise, ExecutionRaises, RollbackRaises
<1>2. faults' \in Nat \ {0}  BY <1>1, BoundsAssumption DEF ServiceInv, CoreInv, TypeOK
<1>3. FlightTrail'  BY <1>1 DEF FlightTrail, Idle
<1> QED BY <1>1, <1>2, <1>3 DEF Waits, Shape

(* Every step of the service has one of these shapes.                      *)
LEMMA StepShape ==
  ASSUME ServiceInv, [Next]_vars
  PROVE  Shape
<1>1. ASSUME UNCHANGED <<tasks, ledger, op, faults, restarts>>
      PROVE  Shape
  BY <1>1 DEF ServiceInv, FlightTrail, UndoBacked, Waits, Shape, AtRest
<1>2. CASE Create
  <2>1. PICK r \in Requests :
          \/ DuplicateRequest(r)
          \/ \E caller \in Callers, i \in Intents :
               \/ CreateDenied(r, caller, i)
               \/ CreateAwaiting(r, caller, i)
               \/ CreateExecuting(r, caller, i)
    BY <1>2 DEF Create
  <2>2. CASE DuplicateRequest(r)  BY <2>2, <1>1 DEF DuplicateRequest, vars
  <2> QED BY <2>1, <2>2, CreateEnds, CreateWaits
<1>3. CASE Decide
  <2>1. PICK r \in DOMAIN tasks, caller \in Callers, channel \in Channel :
          /\ Decidable(r, caller)
          /\ \/ \E decision \in DecisionKind : ExpireApproval(r, caller, decision, channel)
             \/ \E approvalId \in Requests \X Intents, token \in 1..lastToken, payload \in Intents :
                  \/ RejectApproval(r, caller, approvalId, token, payload)
                  \/ GrantApproval(r, caller, channel, approvalId, token, payload)
    BY <1>3 DEF Decide
  <2>2. ASSUME NEW decision \in DecisionKind, ExpireApproval(r, caller, decision, channel)
        PROVE  Shape
    BY <2>1, <2>2, DenialEnds DEF ExpireApproval
  <2>3. ASSUME NEW approvalId \in Requests \X Intents, NEW token \in 1..lastToken,
               NEW payload \in Intents,
               RejectApproval(r, caller, approvalId, token, payload)
        PROVE  Shape
    BY <2>1, <2>3, DenialEnds DEF RejectApproval
  <2>4. ASSUME NEW approvalId \in Requests \X Intents, NEW token \in 1..lastToken,
               NEW payload \in Intents,
               GrantApproval(r, caller, channel, approvalId, token, payload)
        PROVE  Shape
    BY <2>4, GrantMarks DEF Starts, Shape
  <2> QED BY <2>1, <2>2, <2>3, <2>4
<1>4. CASE Rollback  BY <1>4, RollbackMarks DEF Rollback, Starts, Shape
<1>5. CASE Return
  <2>1. CASE ExecutionFails  BY <2>1, FailureEnds DEF ExecutionFails, Executing
  <2>2. CASE RollbackFails  BY <2>2, FailureEnds DEF RollbackFails
  <2> QED BY <1>5, <2>1, <2>2, StepWaits, FinishEnds, UndoneEnds DEF Return
<1>6. CASE Raise  BY <1>6, RaiseWaits
<1>7. CASE Restart  BY <1>7 DEF Shape
<1>8. CASE Tick \/ UNCHANGED vars  BY <1>1, <1>8 DEF Tick, vars
<1> QED BY <1>2, <1>3, <1>4, <1>5, <1>6, <1>7, <1>8 DEF Next

-----------------------------------------------------------------------------
(* The parts of the invariant.                                             *)

(* What a stored task and its receipt are after the task was stored.       *)
LEMMA EndsFields ==
  ASSUME ServiceInv, NEW r \in Requests, NEW t \in Task, Ends(r, t)
  PROVE  /\ DOMAIN tasks' = DOMAIN tasks \cup {r} /\ tasks'[r] = t
         /\ \A q \in DOMAIN tasks \ {r} : tasks'[q] = tasks[q]
         /\ \A q \in Requests \ {r} : ledger'[q] = ledger[q]
         /\ t.events \in Seq(TaskState) /\ ledger[r] \in Seq(Receipt)
         /\ \E x \in Receipt : /\ x.version = Len(ledger[r]) + 1 /\ x.state = t.state
                               /\ x.events = t.events
                               /\ ledger'[r] = Append(ledger[r], x)
<1>1. CoreInv /\ TypeOK /\ ReceiptsTellTheTrail  BY DEF ServiceInv, CoreInv
<1>2. Store(r, t)  BY DEF Ends
<1>3. /\ DOMAIN tasks' = DOMAIN tasks \cup {r} /\ tasks'[r] = t
      /\ \A q \in DOMAIN tasks \ {r} : tasks'[q] = tasks[q]
  BY <1>1, <1>2, StoreType
<1>4. ledger[r] \in Seq(Receipt) /\ t.events \in Seq(TaskState)  BY <1>1 DEF TypeOK, Task
<1>5. NextVersion(ledger[r]) = Len(ledger[r]) + 1
  <2>1. CASE ledger[r] = << >>  BY <2>1 DEF NextVersion
  <2>2. CASE ledger[r] # << >>
    <3>1. Len(ledger[r]) \in DOMAIN ledger[r]  BY <1>4, <2>2
    <3>2. CASE r \in DOMAIN tasks
      BY <1>1, <2>2, <3>1, <3>2 DEF NextVersion, ReceiptsTellTheTrail
    <3>3. CASE r \notin DOMAIN tasks
      BY <2>2, <3>3 DEF ServiceInv, LatestReceiptCurrent
    <3> QED BY <3>2, <3>3
  <2> QED BY <2>1, <2>2
<1>6. PICK x : x = ReceiptOf(t, NextVersion(ledger[r]))  OBVIOUS
<1>7. x \in Receipt  BY <1>4, <1>6, ReceiptType, VersionType
<1>8. x.version = Len(ledger[r]) + 1 /\ x.state = t.state /\ x.events = t.events
  BY <1>5, <1>6 DEF ReceiptOf
<1>9. ledger'[r] = Append(ledger[r], x) /\ \A q \in Requests \ {r} : ledger'[q] = ledger[q]
  BY <1>1, <1>2, <1>6 DEF Store, TypeOK
<1> QED BY <1>3, <1>4, <1>7, <1>8, <1>9

(* Receipts keep telling the trail: the new one extends the last.          *)
LEMMA TellStep ==
  ASSUME ServiceInv, [Next]_vars
  PROVE  ReceiptsTellTheTrail'
<1>1. ReceiptsTellTheTrail /\ CoreInv /\ TypeOK  BY DEF ServiceInv, CoreInv
<1>2. CASE Waits  BY <1>1, <1>2 DEF Waits, ReceiptsTellTheTrail
<1>3. CASE Restart  BY <1>3 DEF Restart, ReceiptsTellTheTrail
<1>4. ASSUME NEW r \in DOMAIN tasks, NEW d \in Task, Marks(r, d)
      PROVE  ReceiptsTellTheTrail'
  <2>1. /\ DOMAIN tasks' = DOMAIN tasks /\ tasks'[r] = d
        /\ \A q \in DOMAIN tasks \ {r} : tasks'[q] = tasks[q]
        /\ ledger' = ledger /\ IsPrefix(tasks[r].events, d.events)
    BY <1>4 DEF Marks, Put
  <2>2. ASSUME NEW v \in DOMAIN ledger[r]
        PROVE  IsPrefix(ledger[r][v].events, d.events)
    <3>1. ledger[r] \in Seq(Receipt)  BY <1>1, StoredTrail DEF TypeOK
    <3>5. ledger[r][v] \in Receipt  BY <3>1
    <3>2. ledger[r][v].events \in Seq(TaskState)  BY <3>5 DEF Receipt
    <3>3. tasks[r].events \in Seq(TaskState) /\ d.events \in Seq(TaskState)
      BY <1>1, StoredTrail DEF Task
    <3>4. IsPrefix(ledger[r][v].events, tasks[r].events)  BY <1>1 DEF ReceiptsTellTheTrail
    <3> QED BY ONLY <3>2, <3>3, <3>4, <2>1, PrefixTrans
  <2> QED BY <1>1, <2>1, <2>2 DEF ReceiptsTellTheTrail
<1>5. ASSUME NEW r \in Requests, NEW t \in Task, Ends(r, t)
      PROVE  ReceiptsTellTheTrail'
  <2>1. /\ DOMAIN tasks' = DOMAIN tasks \cup {r} /\ tasks'[r] = t
        /\ \A q \in DOMAIN tasks \ {r} : tasks'[q] = tasks[q]
        /\ \A q \in Requests \ {r} : ledger'[q] = ledger[q]
        /\ t.events \in Seq(TaskState) /\ ledger[r] \in Seq(Receipt)
    BY <1>5, EndsFields
  <2>2. PICK x \in Receipt : /\ x.version = Len(ledger[r]) + 1 /\ x.state = t.state
                             /\ x.events = t.events
                             /\ ledger'[r] = Append(ledger[r], x)
    BY <1>5, EndsFields
  <2>3. PICK n \in Nat : n = Len(ledger[r])  BY <2>1
  <2>4. /\ DOMAIN ledger[r] = 1..n /\ DOMAIN ledger'[r] = 1..(n + 1)
        /\ ledger'[r][n + 1] = x /\ \A v \in 1..n : ledger'[r][v] = ledger[r][v]
    BY <2>1, <2>2, <2>3
  <2>5. r \notin DOMAIN tasks => n = 0
    BY <1>1, <2>3 DEF ServiceInv, LatestReceiptCurrent
  <2>6. ASSUME NEW v \in 1..n
        PROVE  /\ IsPrefix(ledger[r][v].events, t.events)
               /\ IsStrictPrefix(ledger[r][v].events, t.events)
    <3>1. r \in DOMAIN tasks  BY <2>5
    <3>5. ledger[r][v] \in Receipt  BY <2>1, <2>4
    <3>2. ledger[r][v].events \in Seq(TaskState)  BY <3>5 DEF Receipt
    <3>3. tasks[r].events \in Seq(TaskState)  BY <1>1, <3>1, StoredTrail
    <3>4. /\ IsPrefix(ledger[r][v].events, tasks[r].events)
          /\ IsPrefix(tasks[r].events, t.events) /\ IsStrictPrefix(tasks[r].events, t.events)
      BY <1>1, <1>5, <2>4, <3>1 DEF ReceiptsTellTheTrail, Ends
    <3> QED BY ONLY <2>1, <3>2, <3>3, <3>4, PrefixTrans
  <2>7. ASSUME NEW v \in 1..(n + 1)
        PROVE  /\ ledger'[r][v].version = v
               /\ Last(ledger'[r][v].events) = ledger'[r][v].state
               /\ IsPrefix(ledger'[r][v].events, t.events)
               /\ v > 1 => IsStrictPrefix(ledger'[r][v - 1].events, ledger'[r][v].events)
    <3>1. CASE v = n + 1
      <4>1. ledger'[r][v] = x /\ Last(t.events) = t.state
        BY <1>5, <2>4, <3>1 DEF Ends
      <4>2. IsPrefix(t.events, t.events)  BY <2>1, PrefixSame
      <4>3. v > 1 => v - 1 \in 1..n /\ ledger'[r][v - 1] = ledger[r][v - 1]
        BY <2>4, <3>1
      <4> QED BY <2>2, <2>3, <2>6, <3>1, <4>1, <4>2, <4>3
    <3>2. CASE v # n + 1
      <4>1. v \in 1..n /\ r \in DOMAIN tasks /\ v \in DOMAIN ledger[r]
        BY <2>4, <2>5, <3>2
      <4>2. /\ ledger[r][v].version = v
            /\ Last(ledger[r][v].events) = ledger[r][v].state
            /\ v > 1 => IsStrictPrefix(ledger[r][v - 1].events, ledger[r][v].events)
        BY <1>1, <4>1 DEF ReceiptsTellTheTrail
      <4>3. v > 1 => v - 1 \in 1..n  BY <4>1
      <4> QED BY <2>4, <2>6, <4>1, <4>2, <4>3
    <3> QED BY <3>1, <3>2
  <2>8. ASSUME NEW q \in DOMAIN tasks', NEW v \in DOMAIN ledger'[q]
        PROVE  /\ ledger'[q][v].version = v
               /\ Last(ledger'[q][v].events) = ledger'[q][v].state
               /\ IsPrefix(ledger'[q][v].events, tasks'[q].events)
               /\ v > 1 => IsStrictPrefix(ledger'[q][v - 1].events, ledger'[q][v].events)
    <3>1. CASE q = r  BY <2>1, <2>4, <2>7, <2>8, <3>1
    <3>2. CASE q # r
      <4>1. q \in DOMAIN tasks /\ q \in Requests  BY <1>1, <2>1, <3>2, StoredTrail
      <4>2. tasks'[q] = tasks[q] /\ ledger'[q] = ledger[q]  BY <2>1, <3>2, <4>1
      <4> QED BY <1>1, <2>8, <4>1, <4>2 DEF ReceiptsTellTheTrail
    <3> QED BY <3>1, <3>2
  <2> QED BY <2>8 DEF ReceiptsTellTheTrail
<1> QED BY <1>2, <1>3, <1>4, <1>5, StepShape DEF Shape

(* Without exceptions a stored trail is legal and ends in the state of its *)
(* task, unless a call is at work on it.                                   *)
LEMMA RestStep ==
  ASSUME ServiceInv, [Next]_vars
  PROVE  TrailEndsInState'
<1>1. TrailEndsInState /\ CoreInv /\ TypeOK  BY DEF ServiceInv, CoreInv
<1>2. CASE Waits
  BY <1>1, <1>2 DEF Waits, TrailEndsInState
<1>3. CASE Restart  BY <1>3 DEF Restart, TrailEndsInState
<1>4. ASSUME NEW r \in DOMAIN tasks, NEW d \in Task, Marks(r, d)
      PROVE  TrailEndsInState'
  <2>1. /\ DOMAIN tasks' = DOMAIN tasks /\ tasks'[r] = d
        /\ \A q \in DOMAIN tasks \ {r} : tasks'[q] = tasks[q]
        /\ ledger' = ledger /\ op' # Idle /\ op'.request = r /\ faults' = faults
        /\ faults = 0 => LegalTrail(d.events)
    BY <1>4 DEF Marks, Put
  <2>2. op = Idle  BY <1>4 DEF Marks
  <2> QED BY <1>1, <2>1, <2>2 DEF TrailEndsInState, AtRest
<1>5. ASSUME NEW r \in Requests, NEW t \in Task, Ends(r, t)
      PROVE  TrailEndsInState'
  <2>1. /\ DOMAIN tasks' = DOMAIN tasks \cup {r} /\ tasks'[r] = t
        /\ \A q \in DOMAIN tasks \ {r} : tasks'[q] = tasks[q]
        /\ \A q \in Requests \ {r} : ledger'[q] = ledger[q]
        /\ ledger[r] \in Seq(Receipt)
    BY <1>5, EndsFields
  <2>2. PICK x \in Receipt : x.events = t.events /\ ledger'[r] = Append(ledger[r], x)
    BY <1>5, EndsFields
  <2>3. Last(ledger'[r]) = x  BY <2>1, <2>2 DEF Last
  <2>4. /\ AtRest(r) => op = Idle
        /\ op' = Idle /\ faults' = faults /\ Last(t.events) = t.state
        /\ faults = 0 => LegalTrail(t.events)
    BY <1>5 DEF Ends
  <2>5. ASSUME faults = 0, NEW q \in DOMAIN tasks \ {r}
        PROVE  /\ LegalTrail(tasks'[q].events)
               /\ Last(tasks'[q].events) = tasks'[q].state
               /\ Last(ledger'[q]).events = tasks'[q].events
    <3>1. q \in Requests /\ AtRest(q)  BY <1>1, <2>4, StoredTrail DEF AtRest
    <3> QED BY <1>1, <2>1, <2>5, <3>1 DEF TrailEndsInState
  <2> QED BY <2>1, <2>2, <2>3, <2>4, <2>5 DEF TrailEndsInState
<1> QED BY <1>2, <1>3, <1>4, <1>5, StepShape DEF Shape

(* A grant uses up the pending approval, until an exception leaves the     *)
(* execution.                                                              *)
LEMMA CountStep ==
  ASSUME ServiceInv, [Next]_vars
  PROVE  GrantsCounted'
<1>1. GrantsCounted /\ CoreInv /\ TypeOK /\ faults \in Nat
  BY BoundsAssumption DEF ServiceInv, CoreInv, TypeOK
<1>2. \A r \in DOMAIN tasks : Grants(tasks[r]) \in Nat
  BY <1>1, StoredTrail, GrantsType
<1>3. CASE Waits
  <2>1. tasks' = tasks  BY <1>3 DEF Waits
  <2>2. CASE faults' = faults /\ \A r \in DOMAIN tasks : AtRest(r)' => AtRest(r)
    BY <1>1, <2>1, <2>2 DEF GrantsCounted, Grants, Pending
  <2>3. CASE faults' = faults + 1
    BY <1>1, <1>2, <2>1, <2>3 DEF GrantsCounted, Grants, Pending
  <2> QED BY <1>3, <2>2, <2>3 DEF Waits
<1>4. CASE Restart  BY <1>4 DEF Restart, GrantsCounted
<1>5. ASSUME NEW r \in DOMAIN tasks, NEW d \in Task, Marks(r, d)
      PROVE  GrantsCounted'
  <2>1. /\ DOMAIN tasks' = DOMAIN tasks /\ tasks'[r] = d
        /\ \A q \in DOMAIN tasks \ {r} : tasks'[q] = tasks[q]
        /\ op = Idle /\ op' # Idle /\ op'.request = r /\ faults' = faults
    BY <1>5 DEF Marks, Put
  <2>2. Grants(d) <= 1 + faults
    <3>1. op'.kind \in {"approve", "rollback"} /\ MarkCounts(r, d)  BY <1>5 DEF Marks
    <3>2. Grants(tasks[r]) <= 1 + faults  BY <1>1 DEF GrantsCounted
    <3>3. Pending(tasks[r]) => Grants(tasks[r]) <= faults
      BY <1>1, <2>1 DEF GrantsCounted, AtRest
    <3> QED BY <1>1, <1>2, <3>1, <3>2, <3>3 DEF MarkCounts
  <2> QED BY <1>1, <2>1, <2>2 DEF GrantsCounted, Grants, Pending, AtRest
<1>6. ASSUME NEW r \in Requests, NEW t \in Task, Ends(r, t)
      PROVE  GrantsCounted'
  <2>1. /\ DOMAIN tasks' = DOMAIN tasks \cup {r} /\ tasks'[r] = t
        /\ \A q \in DOMAIN tasks \ {r} : tasks'[q] = tasks[q]
    BY <1>6, EndsFields
  <2>2. faults' = faults /\ (AtRest(r) => op = Idle) /\ StoredCounts(r, t)  BY <1>6 DEF Ends
  <2>3. Grants(t) <= 1 + faults /\ (Pending(t) => Grants(t) <= faults)
    BY <1>1, <2>2 DEF StoredCounts, GrantsCounted
  <2>4. \A q \in DOMAIN tasks \ {r} : AtRest(q)  BY <2>2 DEF AtRest
  <2> QED BY <1>1, <2>1, <2>2, <2>3, <2>4 DEF GrantsCounted, Grants, Pending
<1> QED BY <1>3, <1>4, <1>5, <1>6, StepShape DEF Shape

(* What is stored keeps to what an approval was asked for, and the call in *)
(* flight to its trail.                                                    *)
LEMMA UndoStep ==
  ASSUME ServiceInv, [Next]_vars
  PROVE  /\ \A r \in DOMAIN tasks' : UndoBacked(tasks'[r])
         /\ FlightTrail'
<1>1. \A r \in DOMAIN tasks : UndoBacked(tasks[r])  BY DEF ServiceInv
<1>2. CASE Waits  BY <1>1, <1>2 DEF Waits
<1>3. CASE Restart  BY <1>3 DEF Restart, FlightTrail, Idle
<1>4. ASSUME NEW r \in DOMAIN tasks, NEW d \in Task, Marks(r, d)
      PROVE  /\ \A q \in DOMAIN tasks' : UndoBacked(tasks'[q])
             /\ FlightTrail'
  <2>1. /\ DOMAIN tasks' = DOMAIN tasks /\ tasks'[r] = d
        /\ \A q \in DOMAIN tasks \ {r} : tasks'[q] = tasks[q]
    BY <1>4 DEF Marks, Put
  <2>2. UndoBacked(d)  BY <1>1, <1>4 DEF Marks, UndoBacked
  <2>3. \A q \in DOMAIN tasks' : UndoBacked(tasks'[q])  BY <1>1, <2>1, <2>2
  <2>4. /\ op'.request = r /\ op'.draft = d /\ op'.kind \in {"approve", "rollback"}
        /\ op'.kind = "approve" => Last(d.events) = "executing"
        /\ op'.kind = "rollback" => Last(d.events) = "rolling_back"
    BY <1>4 DEF Marks
  <2>5. UndoBacked(op.draft)'  BY <2>2, <2>4 DEF UndoBacked
  <2> QED BY <2>1, <2>3, <2>4, <2>5 DEF FlightTrail
<1>5. ASSUME NEW r \in Requests, NEW t \in Task, Ends(r, t)
      PROVE  /\ \A q \in DOMAIN tasks' : UndoBacked(tasks'[q])
             /\ FlightTrail'
  <2>1. /\ DOMAIN tasks' = DOMAIN tasks \cup {r} /\ tasks'[r] = t
        /\ \A q \in DOMAIN tasks \ {r} : tasks'[q] = tasks[q]
    BY <1>5, EndsFields
  <2>2. UndoBacked(t) /\ op' = Idle  BY <1>5 DEF Ends
  <2>3. FlightTrail'  BY <2>2 DEF FlightTrail, Idle
  <2> QED BY <1>1, <2>1, <2>2, <2>3
<1> QED BY <1>2, <1>3, <1>4, <1>5, StepShape DEF Shape

(* The invariant holds at first, and every step keeps it.                  *)
LEMMA ServiceInit ==
  ASSUME Init
  PROVE  ServiceInv
<1>1. CoreInv  BY InitInv
<1>2. DOMAIN tasks = {} /\ op = Idle /\ \A r \in Requests : ledger[r] = << >>  BY DEF Init
<1> QED BY <1>1, <1>2 DEF ServiceInv, FlightTrail, Idle, LatestReceiptCurrent,
                          ReceiptsTellTheTrail, TrailEndsInState, GrantsCounted

(* Every step keeps the whole invariant.                                   *)
LEMMA ServiceStep ==
  ASSUME ServiceInv, [Next]_vars
  PROVE  ServiceInv'
<1>1. CoreInv /\ CoreInv' /\ LatestReceiptCurrent  BY NextInv DEF ServiceInv
<1>2. LatestReceiptCurrent'  BY <1>1, ReceiptStep
<1>3. ReceiptsTellTheTrail' /\ TrailEndsInState'  BY TellStep, RestStep
<1>4. (\A r \in DOMAIN tasks : UndoBacked(tasks[r]))' /\ FlightTrail'
  BY UndoStep DEF UndoBacked
<1>5. GrantsCounted'  BY CountStep
<1> QED BY <1>1, <1>2, <1>3, <1>4, <1>5 DEF ServiceInv

-----------------------------------------------------------------------------
(* The theorems.                                                           *)

(* The stored tasks, the call in flight, the trails and the receipts are   *)
(* always consistent with each other.                                      *)
THEOREM ServiceInvariant == Spec => []ServiceInv
BY ServiceInit, ServiceStep, PTL DEF Spec

(* The receipts of a task are consecutive, each extends the trail of the   *)
(* one before and is part of the task's own trail (_record_receipt), also  *)
(* when exceptions have left executions without a receipt.                 *)
THEOREM ReceiptHistory == Spec => []ReceiptsTellTheTrail
<1>1. ServiceInv => ReceiptsTellTheTrail  BY DEF ServiceInv
<1> QED BY <1>1, ServiceInvariant, PTL

(* As long as no exception has escaped, every trail is one of the state    *)
(* contract, although each handler checks its transitions one at a time,   *)
(* and at rest the latest receipt holds all of it.                         *)
THEOREM TrailsAreLegal == Spec => []UndisturbedTrails
<1>1. ServiceInv => UndisturbedTrails
  BY DEF ServiceInv, TrailEndsInState, UndisturbedTrails, AtRest
<1> QED BY <1>1, ServiceInvariant, PTL

(* An approval starts at most one execution, and one more for every        *)
(* exception that has let an execution go without settling the approval    *)
(* (approve_task stores the settled approval last).                        *)
THEOREM GrantsBounded == Spec => [](\A r \in DOMAIN tasks : Grants(tasks[r]) <= 1 + faults)
<1>1. ServiceInv => \A r \in DOMAIN tasks : Grants(tasks[r]) <= 1 + faults
  BY DEF ServiceInv, GrantsCounted
<1> QED BY <1>1, ServiceInvariant, PTL

(* As long as no exception has escaped, an approval is used once.          *)
THEOREM ApprovalUsedOnce == Spec => [](faults = 0 => TokenGrantedOnce)
<1>1. ServiceInv => (faults = 0 => TokenGrantedOnce)
  BY DEF ServiceInv, GrantsCounted, TokenGrantedOnce
<1> QED BY <1>1, ServiceInvariant, PTL

(* A set of numbers that is not empty has a least one.                     *)
LEMMA LeastExists ==
  ASSUME NEW S \in SUBSET Nat, S # {}
  PROVE  \E a \in S : \A b \in S : a <= b
<1>1. PICK a \in S : \A b \in S : ~(<<b, a>> \in OpToRel(<, Nat))
  BY Zenon, NatLessThanWellFounded, WFMin
<1>2. \A b \in S : ~(b < a)  BY <1>1 DEF OpToRel
<1> QED BY <1>2

(* The states that only an execution leads to, or a failure: a legal trail *)
(* that has entered one of them does not get out.                          *)
Started == {"executing", "verifying", "completed", "partially_completed", "failed",
            "rolling_back", "rolled_back"}

(* A legal trail that has started an execution ends in one of them.        *)
LEMMA StartedStays ==
  ASSUME NEW s \in Seq(TaskState), LegalTrail(s), NEW i \in DOMAIN s, s[i] \in Started
  PROVE  Last(s) \in Started
<1>1. PICK n \in Nat \ {0} : n = Len(s) /\ DOMAIN s = 1..n  BY DEF LegalTrail
<1>2. PICK S : S = {j \in i..n : s[j] \notin Started}  OBVIOUS
<1>3. i \in 1..n /\ S \in SUBSET Nat  BY <1>1, <1>2
<1>4. ASSUME S # {} PROVE FALSE
  <2>1. PICK a \in S : \A b \in S : a <= b  BY <1>3, <1>4, LeastExists
  <2>2. a \in i..n /\ s[a] \notin Started  BY <1>2
  <2>3. a # i  BY <2>2
  <2>4. a - 1 \in i..n /\ a \in 2..n /\ a - 1 < a  BY <1>3, <2>2, <2>3
  <2>5. s[a - 1] \in Started  BY <1>2, <1>3, <2>1, <2>4
  <2>6. ValidTransition(s[a - 1], s[a])  BY <1>1, <2>4 DEF LegalTrail
  <2>7. s[a] \in Started
    BY ONLY <2>5, <2>6 DEF Started, ValidTransition, AllowedTransitions
  <2> QED BY <2>2, <2>7
<1>5. s[n] \in Started  BY <1>1, <1>2, <1>3, <1>4
<1> QED BY <1>1, <1>5 DEF Last

(* A task that was denied has not been executed, as long as no exception   *)
(* has escaped: what the console tells whoever rejects, or is refused.     *)
THEOREM DeniedNeverExecuted ==
  Spec => [](faults = 0 =>
               \A r \in DOMAIN tasks :
                 tasks[r].state = "denied" => Occurrences(tasks[r].events, "executing") = {})
<1>1. ASSUME ServiceInv, faults = 0, NEW r \in DOMAIN tasks, tasks[r].state = "denied"
      PROVE  Occurrences(tasks[r].events, "executing") = {}
  <2>1. PICK w : w = tasks[r]  OBVIOUS
  <2>2. w.events \in Seq(TaskState)  BY <1>1, <2>1, StoredTrail DEF ServiceInv
  <2>3. AtRest(r)
    <3> SUFFICES ASSUME op # Idle, op.request = r PROVE FALSE  BY DEF AtRest
    <3>1. op.kind # "idle"
      BY <1>1 DEF ServiceInv, CoreInv, TypeOK, Frame
    <3> QED BY <1>1, <3>1, FlightLegal
  <2>4. LegalTrail(w.events) /\ Last(w.events) = "denied"
    BY <1>1, <2>1, <2>3 DEF ServiceInv, TrailEndsInState
  <2>5. ASSUME NEW i \in DOMAIN w.events, w.events[i] = "executing"
        PROVE  FALSE
    <3>1. w.events[i] \in Started  BY <2>5 DEF Started
    <3>2. Last(w.events) \in Started  BY <2>2, <2>4, <3>1, StartedStays
    <3> QED BY <2>4, <3>2 DEF Started
  <2> QED BY <2>1, <2>5 DEF Occurrences
<1>2. ServiceInv =>
        (faults = 0 =>
           \A r \in DOMAIN tasks :
             tasks[r].state = "denied" => Occurrences(tasks[r].events, "executing") = {})
  BY <1>1
<1> QED BY <1>2, ServiceInvariant, PTL

(* What a step does to a task that is stored already.                      *)
Final(r) ==
  /\ r \in DOMAIN tasks'
  /\ IsPrefix(ledger[r], ledger'[r])
  /\ IsPrefix(tasks[r].events, tasks'[r].events)
  /\ tasks[r].state \in {"denied", "failed", "rolled_back"} => tasks'[r] = tasks[r]
  /\ tasks[r].state = "completed" => tasks'[r].state \in {"completed", "rolled_back", "failed"}
  /\ tasks'[r].session = tasks[r].session /\ tasks'[r].intent = tasks[r].intent

(* What a step of the living process does to the history of one task.      *)
LEMMA FinalStep ==
  ASSUME ServiceInv, [Next]_vars, restarts' = restarts, NEW q \in DOMAIN tasks
  PROVE  Final(q)
<1>1. /\ CoreInv /\ TypeOK /\ q \in Requests /\ ledger[q] \in Seq(Receipt)
      /\ tasks[q].events \in Seq(TaskState)
  BY StoredTrail DEF ServiceInv, CoreInv, TypeOK
<1>2. IsPrefix(ledger[q], ledger[q]) /\ IsPrefix(tasks[q].events, tasks[q].events)
  BY <1>1, PrefixSame
<1>3. ASSUME tasks'[q] = tasks[q], q \in DOMAIN tasks', ledger'[q] = ledger[q]
      PROVE  Final(q)
  BY <1>2, <1>3 DEF Final
<1>4. CASE Waits  BY <1>3, <1>4 DEF Waits
<1>5. CASE Restart
  BY <1>1, <1>5, BoundsAssumption DEF Restart, TypeOK
<1>6. ASSUME NEW r \in DOMAIN tasks, NEW d \in Task, Marks(r, d)
      PROVE  Final(q)
  <2>1. /\ DOMAIN tasks' = DOMAIN tasks /\ tasks'[r] = d /\ ledger' = ledger
        /\ \A p \in DOMAIN tasks \ {r} : tasks'[p] = tasks[p]
    BY <1>6 DEF Marks, Put
  <2>2. CASE q # r  BY <1>3, <2>1, <2>2
  <2>3. CASE q = r  BY <1>2, <1>6, <2>1, <2>3 DEF Marks, Final
  <2> QED BY <2>2, <2>3
<1>7. ASSUME NEW r \in Requests, NEW t \in Task, Ends(r, t)
      PROVE  Final(q)
  <2>1. /\ DOMAIN tasks' = DOMAIN tasks \cup {r} /\ tasks'[r] = t
        /\ \A p \in DOMAIN tasks \ {r} : tasks'[p] = tasks[p]
        /\ \A p \in Requests \ {r} : ledger'[p] = ledger[p]
    BY <1>7, EndsFields
  <2>2. CASE q # r  BY <1>1, <1>3, <2>1, <2>2
  <2>3. CASE q = r
    <3>1. PICK x \in Receipt : ledger'[r] = Append(ledger[r], x)  BY <1>7, EndsFields
    <3>2. IsPrefix(ledger[q], ledger'[q])
      <4>1. IsPrefix(ledger[q], Append(ledger[q], x))  BY <1>1, <1>2, PrefixGrows
      <4> QED BY <2>3, <3>1, <4>1
    <3> QED BY <1>7, <2>1, <2>3, <3>2 DEF Ends, Final
  <2> QED BY <2>2, <2>3
<1> QED BY <1>4, <1>5, <1>6, <1>7, StepShape DEF Shape

(* As long as the process lives, nothing a task has reached is lost: no    *)
(* receipt, no event, no refusal, failure or undo; and nobody else's task  *)
(* takes its place.                                                        *)
THEOREM HistoryKept == Spec => HistoryIsFinal
<1>1. ASSUME ServiceInv, [Next]_vars
      PROVE  [restarts' = restarts => \A r \in DOMAIN tasks : Final(r)]_vars
  BY <1>1, FinalStep
<1>2. ServiceInv /\ [Next]_vars => [restarts' = restarts => \A r \in DOMAIN tasks : Final(r)]_vars
  BY <1>1
<1>3. Spec => [][restarts' = restarts => \A r \in DOMAIN tasks : Final(r)]_vars
  BY <1>2, ServiceInvariant, PTL DEF Spec
<1> QED BY <1>3 DEF HistoryIsFinal, Final

-----------------------------------------------------------------------------
(* The service implements ApprovedAction.                                  *)

(* The phase of a task no call is at work on.                              *)
PhaseOfState(s) ==
  CASE s = "awaiting_approval" -> "waiting"
    [] s = "denied"            -> "refused"
    [] s = "completed"         -> "done"
    [] s = "rolled_back"       -> "undone"
    [] OTHER                   -> "failed"

(* The phase of a task, by its stored state or by the call that works on   *)
(* it.                                                                     *)
LEMMA PhaseMeaning ==
  ASSUME NEW r \in Requests
  PROVE  /\ op = Idle \/ op.request # r =>
              PhaseOf(r) = IF r \in DOMAIN tasks THEN PhaseOfState(tasks[r].state) ELSE "absent"
         /\ op # Idle /\ op.request = r =>
              PhaseOf(r) = IF op.kind = "rollback" THEN "undoing" ELSE "acting"
  BY DEF PhaseOf, PhaseOfState

(* A phase changes, and no other.                                          *)
LEMMA PhaseMoves ==
  ASSUME NEW r \in Requests, NEW from, NEW to, PhaseOf(r) = from, PhaseOf(r)' = to,
         \A q \in Requests \ {r} : PhaseOf(q)' = PhaseOf(q)
  PROVE  Contract!Move(r, from, to)
  BY DEF Contract!Move

(* No call is in flight: none of the actions is busy.                      *)
LEMMA NotBusy ==
  ASSUME op = Idle
  PROVE  ~Contract!Busy
<1>1. \A r \in Requests : PhaseOf(r) \notin {"acting", "undoing"}
  BY PhaseMeaning DEF PhaseOfState
<1> QED BY <1>1 DEF Contract!Busy

(* A task is stored, and no call is in flight any more.                    *)
LEMMA StoreMaps ==
  ASSUME ServiceInv, NEW r \in Requests, NEW t \in Task, Store(r, t), op' = Idle,
         op # Idle => op.request = r
  PROVE  /\ PhaseOf(r)' = PhaseOfState(t.state)
         /\ \A q \in Requests \ {r} : PhaseOf(q)' = PhaseOf(q)
         /\ Gated' = IF t.approval = NoApproval THEN Gated \ {r} ELSE Gated \cup {r}
<1>1. /\ DOMAIN tasks' = DOMAIN tasks \cup {r} /\ tasks'[r] = t
      /\ \A q \in DOMAIN tasks \ {r} : tasks'[q] = tasks[q]
  BY StoreType DEF ServiceInv, CoreInv
<1>2. PhaseOf(r)' = PhaseOfState(t.state)  BY <1>1 DEF PhaseOf, PhaseOfState
<1>3. ASSUME NEW q \in Requests \ {r}
      PROVE  PhaseOf(q)' = PhaseOf(q)
  BY <1>1 DEF PhaseOf
<1>4. Gated' = IF t.approval = NoApproval THEN Gated \ {r} ELSE Gated \cup {r}
  BY <1>1 DEF Gated
<1> QED BY <1>2, <1>3, <1>4

(* create_task.                                                            *)
LEMMA CreateMaps ==
  ASSUME ServiceInv, NEW r \in Requests, NEW caller \in Callers, NEW i \in Intents,
         \/ CreateDenied(r, caller, i)
         \/ CreateAwaiting(r, caller, i)
         \/ CreateExecuting(r, caller, i)
  PROVE  Contract!Next
<1>1. op = Idle /\ r \notin DOMAIN tasks
  BY DEF CreateDenied, CreateAwaiting, CreateExecuting, NewRequest
<1>2. PhaseOf(r) = "absent" /\ ~Contract!Busy /\ r \notin Gated
  BY <1>1, PhaseMeaning, NotBusy DEF Gated
<1>3. PICK q \in Task : q = Planned(caller, i) /\ q.approval = NoApproval
  BY PlannedFields
<1>4. CASE CreateDenied(r, caller, i)
  <2>1. "denied" \in TaskState  BY DEF TaskState
  <2>2. PICK t : t = Enter(q, "denied")  OBVIOUS
  <2>3. t \in Task /\ t.state = "denied" /\ t.approval = NoApproval
    BY <1>3, <2>1, <2>2, EnterFields
  <2>4. Store(r, t) /\ op' = Idle  BY <1>1, <1>3, <1>4, <2>2 DEF CreateDenied
  <2>5. /\ PhaseOf(r)' = "refused" /\ Gated' = Gated
        /\ \A p \in Requests \ {r} : PhaseOf(p)' = PhaseOf(p)
    BY <1>1, <1>2, <2>3, <2>4, StoreMaps DEF PhaseOfState
  <2>6. Contract!Move(r, "absent", "refused")  BY <1>2, <2>5, PhaseMoves
  <2>7. Contract!Deny(r)  BY <1>2, <2>5, <2>6 DEF Contract!Deny
  <2> QED BY <2>7 DEF Contract!Next
<1>5. CASE CreateAwaiting(r, caller, i)
  <2>1. "awaiting_approval" \in TaskState  BY DEF TaskState
  <2>2. PICK e : e = Enter(q, "awaiting_approval")  OBVIOUS
  <2>3. e \in Task /\ e.state = "awaiting_approval"  BY <2>1, <2>2, EnterFields
  <2>4. PICK a \in Approval : a = ApprovalFor(i, lastToken') /\ a # NoApproval
    <3>1. lastToken' \in Nat \ {0} /\ Decision(i) = "require_approval"
      BY <1>5 DEF CreateAwaiting, ServiceInv, CoreInv, TypeOK
    <3> QED BY <3>1, ApprovalForConsistent DEF ServiceInv, CoreInv
  <2>5. PICK t \in Task : t = [e EXCEPT !.approval = a] /\ t.approval = a /\ t.state = e.state
    BY <2>3, ApprovalField
  <2>6. Store(r, t) /\ op' = Idle  BY <1>1, <1>3, <1>5, <2>2, <2>4, <2>5 DEF CreateAwaiting
  <2>7. /\ PhaseOf(r)' = "waiting" /\ Gated' = Gated \cup {r}
        /\ \A p \in Requests \ {r} : PhaseOf(p)' = PhaseOf(p)
    BY <1>1, <2>3, <2>4, <2>5, <2>6, StoreMaps DEF PhaseOfState
  <2>8. Contract!Move(r, "absent", "waiting")  BY <1>2, <2>7, PhaseMoves
  <2>9. Contract!Ask(r)  BY <1>2, <2>7, <2>8 DEF Contract!Ask
  <2> QED BY <2>9 DEF Contract!Next
<1>6. CASE CreateExecuting(r, caller, i)
  <2>1. op' # Idle /\ op'.request = r /\ op'.kind = "create" /\ tasks' = tasks
    BY <1>6 DEF CreateExecuting, Idle
  <2>2. /\ PhaseOf(r)' = "acting" /\ Gated' = Gated
        /\ \A p \in Requests \ {r} : PhaseOf(p)' = PhaseOf(p)
    BY <1>1, <2>1 DEF PhaseOf, Gated
  <2>3. Contract!Move(r, "absent", "acting")  BY <1>2, <2>2, PhaseMoves
  <2>4. Contract!Begin(r)  BY <1>2, <2>2, <2>3 DEF Contract!Begin
  <2> QED BY <2>4 DEF Contract!Next
<1> QED BY <1>4, <1>5, <1>6

(* approve_task, when the task is refused or its approval has expired.     *)
LEMMA DenialMaps ==
  ASSUME ServiceInv, NEW r, NEW caller, Decidable(r, caller),
         NEW s \in {"rejected", "expired"},
         Store(r, [Enter(tasks[r], "denied") EXCEPT !.approval = Settle(@, s)]),
         UNCHANGED <<now, op, lastToken, faults, restarts>>
  PROVE  Contract!Next
<1>1. PICK w \in Task : w = tasks[r]
  BY DEF ServiceInv, CoreInv, TypeOK, Decidable
<1>2. /\ r \in Requests /\ r \in DOMAIN tasks /\ op = Idle /\ op' = Idle
      /\ w.approval # NoApproval /\ w.state = "awaiting_approval"
  BY <1>1 DEF ServiceInv, CoreInv, TypeOK, Decidable
<1>3. w.approval \in Approval /\ "denied" \in TaskState /\ s \in ApprovalStatus
  BY <1>2 DEF Task, TaskState, ApprovalStatus
<1>4. PICK e : e = Enter(w, "denied")  OBVIOUS
<1>5. e \in Task /\ e.state = "denied" /\ e.approval = w.approval
  BY <1>3, <1>4, EnterFields
<1>6. PICK a \in Approval : a = Settle(e.approval, s) /\ a # NoApproval
  BY <1>3, <1>5, SettleFields
<1>7. PICK t \in Task : t = [e EXCEPT !.approval = a] /\ t.approval = a /\ t.state = e.state
  BY <1>5, ApprovalField
<1>8. Store(r, t)  BY <1>1, <1>4, <1>6, <1>7
<1>9. /\ PhaseOf(r) = "waiting" /\ ~Contract!Busy /\ r \in Gated
  BY <1>1, <1>2, PhaseMeaning, NotBusy DEF Gated, PhaseOfState
<1>10. /\ PhaseOf(r)' = "refused" /\ Gated' = Gated \cup {r}
       /\ \A p \in Requests \ {r} : PhaseOf(p)' = PhaseOf(p)
  BY <1>2, <1>5, <1>6, <1>7, <1>8, StoreMaps DEF PhaseOfState
<1>11. Contract!Move(r, "waiting", "refused")  BY <1>2, <1>9, <1>10, PhaseMoves
<1>12. Contract!Decline(r)  BY <1>9, <1>10, <1>11 DEF Contract!Decline
<1> QED BY <1>2, <1>12 DEF Contract!Next

(* A call starts on a stored task.                                         *)
LEMMA MarksMap ==
  ASSUME ServiceInv, NEW r \in DOMAIN tasks, NEW d \in Task, Marks(r, d)
  PROVE  Contract!Next
<1>1. /\ op = Idle /\ op' # Idle /\ op'.request = r /\ r \in Requests
      /\ DOMAIN tasks' = DOMAIN tasks
      /\ \A q \in DOMAIN tasks : /\ tasks'[q].state = tasks[q].state
                                 /\ tasks'[q].approval = tasks[q].approval
  BY StoredTrail DEF Marks, Put, ServiceInv
<1>2. ~Contract!Busy /\ Gated' = Gated  BY <1>1, NotBusy DEF Gated
<1>3. \A p \in Requests \ {r} : PhaseOf(p)' = PhaseOf(p)  BY <1>1 DEF PhaseOf
<1>4. CASE op'.kind = "approve"
  <2>1. PhaseOf(r) = "waiting" /\ PhaseOf(r)' = "acting"
    BY <1>1, <1>4 DEF Marks, PhaseOf
  <2>2. Contract!Move(r, "waiting", "acting")  BY <1>1, <1>3, <2>1, PhaseMoves
  <2>3. Contract!Grant(r)  BY <1>2, <2>2 DEF Contract!Grant
  <2> QED BY <1>1, <2>3 DEF Contract!Next
<1>5. CASE op'.kind = "rollback"
  <2>1. PhaseOf(r) = "done" /\ PhaseOf(r)' = "undoing"
    BY <1>1, <1>5 DEF Marks, PhaseOf
  <2>2. r \in Gated
    <3>1. RollbackEligible(tasks[r]) /\ UndoBacked(tasks[r])
      BY <1>5 DEF Marks, ServiceInv
    <3> QED BY <3>1 DEF RollbackEligible, Undoable, UndoBacked, Gated
  <2>3. Contract!Move(r, "done", "undoing")  BY <1>1, <1>3, <2>1, PhaseMoves
  <2>4. Contract!Undo(r)  BY <1>2, <2>2, <2>3 DEF Contract!Undo
  <2> QED BY <1>1, <2>4 DEF Contract!Next
<1> QED BY <1>4, <1>5 DEF Marks

(* The call in flight is over: an execution succeeds or fails, an undo too. *)
LEMMA ConcludeMaps ==
  ASSUME ServiceInv, op.kind # "idle", NEW t \in Task, Conclude(t),
         t.approval = op.draft.approval,
         t.state \in IF op.kind = "rollback" THEN {"rolled_back", "failed"}
                                            ELSE {"completed", "failed"}
  PROVE  Contract!Next
<1>1. PICK r \in Requests : r = op.request  BY FlightLegal
<1>2. op # Idle /\ op' = Idle  BY DEF Conclude, Idle
<1>3. PICK w \in Task : w = op.draft  BY FlightLegal
<1>4. /\ op.kind \in {"create", "approve", "rollback"}
      /\ op.kind = "create" => r \notin DOMAIN tasks /\ w.approval = NoApproval
      /\ op.kind # "create" => r \in DOMAIN tasks /\ tasks[r].approval = w.approval
      /\ op.kind = "approve" => w.approval \in Approval
  BY <1>1, <1>3, FlightLegal
<1>5. PICK u \in Task : /\ Store(r, u) /\ u.state = t.state
                        /\ u.approval = NoApproval <=> w.approval = NoApproval
  <2>1. CASE op.kind = "approve"
    <3>1. PICK a \in Approval : a = Settle(t.approval, "consumed") /\ a # NoApproval
      BY <1>3, <1>4, <2>1, SettleFields DEF ApprovalStatus
    <3>2. PICK u \in Task : /\ u = [t EXCEPT !.approval = a] /\ u.approval = a
                            /\ u.state = t.state
      BY ApprovalField
    <3>3. Store(r, u)  BY <1>1, <2>1, <3>1, <3>2 DEF Conclude
    <3>4. w.approval # NoApproval  BY <1>4, <2>1 DEF Approval, NoApproval, ApprovalStatus
    <3> QED BY <3>1, <3>2, <3>3, <3>4
  <2>2. CASE op.kind # "approve"
    <3>1. Store(r, t)  BY <1>1, <2>2 DEF Conclude
    <3> QED BY <1>3, <3>1
  <2> QED BY <2>1, <2>2
<1>6. /\ PhaseOf(r)' = PhaseOfState(t.state)
      /\ \A q \in Requests \ {r} : PhaseOf(q)' = PhaseOf(q)
      /\ Gated' = IF u.approval = NoApproval THEN Gated \ {r} ELSE Gated \cup {r}
  BY <1>1, <1>2, <1>5, StoreMaps
<1>7. Gated' = Gated  BY <1>4, <1>5, <1>6 DEF Gated
<1>8. CASE op.kind = "rollback"
  <2>1. PhaseOf(r) = "undoing"  BY <1>1, <1>2, <1>8, PhaseMeaning
  <2>2. CASE t.state = "rolled_back"
    <3>1. PhaseOf(r)' = "undone"  BY <1>6, <2>2 DEF PhaseOfState
    <3>2. Contract!Move(r, "undoing", "undone")  BY <1>6, <2>1, <3>1, PhaseMoves
    <3>3. Contract!Undone(r)  BY <1>7, <3>2 DEF Contract!Undone
    <3> QED BY <3>3 DEF Contract!Next
  <2>3. CASE t.state = "failed"
    <3>1. PhaseOf(r)' = "failed"  BY <1>6, <2>3 DEF PhaseOfState
    <3>2. Contract!Move(r, "undoing", "failed")  BY <1>6, <2>1, <3>1, PhaseMoves
    <3>3. Contract!UndoFails(r)  BY <1>7, <3>2 DEF Contract!UndoFails
    <3> QED BY <3>3 DEF Contract!Next
  <2> QED BY <1>8, <2>2, <2>3
<1>9. CASE op.kind # "rollback"
  <2>1. PhaseOf(r) = "acting"  BY <1>1, <1>2, <1>9, PhaseMeaning
  <2>2. CASE t.state = "completed"
    <3>1. PhaseOf(r)' = "done"  BY <1>6, <2>2 DEF PhaseOfState
    <3>2. Contract!Move(r, "acting", "done")  BY <1>6, <2>1, <3>1, PhaseMoves
    <3>3. Contract!Succeed(r)  BY <1>7, <3>2 DEF Contract!Succeed
    <3> QED BY <3>3 DEF Contract!Next
  <2>3. CASE t.state = "failed"
    <3>1. PhaseOf(r)' = "failed"  BY <1>6, <2>3 DEF PhaseOfState
    <3>2. Contract!Move(r, "acting", "failed")  BY <1>6, <2>1, <3>1, PhaseMoves
    <3>3. Contract!Fail(r)  BY <1>7, <3>2 DEF Contract!Fail
    <3> QED BY <3>3 DEF Contract!Next
  <2> QED BY <1>9, <2>2, <2>3
<1> QED BY <1>8, <1>9

(* The ways a call in flight ends.                                         *)
LEMMA ReturnMaps ==
  ASSUME ServiceInv, FinishExecution \/ ExecutionFails \/ RollbackSucceeds \/ RollbackFails
  PROVE  Contract!Next
<1>1. op.kind # "idle"
  BY DEF FinishExecution, ExecutionFails, RollbackSucceeds, RollbackFails, Executing
<1>2. PICK d \in Task : d = op.draft  BY <1>1, FlightLegal
<1>3. {"verifying", "completed", "failed", "rolled_back"} \subseteq TaskState  BY DEF TaskState
<1>4. CASE FinishExecution
  <2>1. op.kind # "rollback"  BY <1>4 DEF FinishExecution, Executing
  <2>2. PICK s \in {"completed", "failed"} : Conclude(Enter(Log(d, "verifying"), s))
    BY <1>2, <1>4 DEF FinishExecution
  <2>3. PICK l \in Task : l = Log(d, "verifying") /\ l.approval = d.approval
    BY <1>3, LogFields
  <2>4. PICK t \in Task : t = Enter(l, s) /\ t.approval = l.approval /\ t.state = s
    BY <1>3, EnterFields
  <2>5. Conclude(t)  BY <2>2, <2>3, <2>4
  <2> QED BY <1>1, <1>2, <2>1, <2>3, <2>4, <2>5, ConcludeMaps
<1>5. CASE ExecutionFails \/ RollbackFails
  <2>1. Conclude(Enter(d, "failed"))  BY <1>2, <1>5 DEF ExecutionFails, RollbackFails
  <2>2. PICK t \in Task : t = Enter(d, "failed") /\ t.approval = d.approval /\ t.state = "failed"
    BY <1>3, EnterFields
  <2>3. Conclude(t)  BY <2>1, <2>2
  <2> QED BY <1>1, <1>2, <2>2, <2>3, ConcludeMaps
<1>6. CASE RollbackSucceeds
  <2>1. op.kind = "rollback"  BY <1>6 DEF RollbackSucceeds
  <2>2. PICK x : x = StepResult(UndoOf(SourceResult(d).capability), "rolled_back", TRUE)
    OBVIOUS
  <2>3. x \in Result
    BY <2>2 DEF StepResult, UndoOf, Result, StepStatus, Registered, NoteCapabilities,
                DeviceCapabilities
  <2>4. PICK e \in Task : /\ e = Enter(d, "rolled_back") /\ e.approval = d.approval
                          /\ e.state = "rolled_back"
    BY <1>3, EnterFields
  <2>5. PICK t : t = [e EXCEPT !.results = Append(e.results, x)]  OBVIOUS
  <2>6. t \in Task /\ t.approval = e.approval /\ t.state = e.state
    <3>1. e.results \in Seq(Result)  BY DEF Task
    <3>2. Append(e.results, x) \in Seq(Result)  BY <2>3, <3>1
    <3> QED BY <2>5, <3>2 DEF Task
  <2>7. Conclude(t)  BY <1>2, <1>6, <2>2, <2>4, <2>5 DEF RollbackSucceeds
  <2> QED BY <1>1, <1>2, <2>1, <2>4, <2>6, <2>7, ConcludeMaps
<1> QED BY <1>4, <1>5, <1>6

(* An exception leaves the call: as if it had not been made.               *)
LEMMA RaiseMaps ==
  ASSUME ServiceInv, Raise
  PROVE  Contract!Next
<1>1. op.kind # "idle" /\ op' = Idle /\ tasks' = tasks
  BY DEF Raise, ExecutionRaises, RollbackRaises, Executing
<1>2. PICK r \in Requests : r = op.request  BY <1>1, FlightLegal
<1>3. op # Idle /\ Gated' = Gated  BY <1>1 DEF Idle, Gated
<1>4. \A q \in Requests \ {r} : PhaseOf(q)' = PhaseOf(q)  BY <1>1, <1>2 DEF PhaseOf
<1>5. PhaseOf(r)' = IF r \in DOMAIN tasks THEN PhaseOfState(tasks[r].state) ELSE "absent"
  BY <1>1 DEF PhaseOf, PhaseOfState
<1>6. op.kind \in {"create", "approve", "rollback"}  BY <1>1, FlightLegal
<1>7. CASE op.kind = "create"
  <2>1. r \notin DOMAIN tasks  BY <1>1, <1>2, <1>7, FlightLegal
  <2>2. PhaseOf(r) = "acting" /\ PhaseOf(r)' = "absent" /\ r \notin Gated
    BY <1>2, <1>3, <1>5, <1>7, <2>1, PhaseMeaning DEF Gated
  <2>3. Contract!Move(r, "acting", "absent")  BY <1>4, <2>2, PhaseMoves
  <2>4. Contract!Abort(r)  BY <1>3, <2>2, <2>3 DEF Contract!Abort
  <2> QED BY <2>4 DEF Contract!Next
<1>8. CASE op.kind = "approve"
  <2>1. r \in DOMAIN tasks /\ tasks[r].state = "awaiting_approval" /\ tasks[r].approval # NoApproval
    BY <1>1, <1>2, <1>8, FlightLegal
  <2>2. PhaseOf(r) = "acting" /\ PhaseOf(r)' = "waiting" /\ r \in Gated
    BY <1>2, <1>3, <1>5, <1>8, <2>1, PhaseMeaning DEF Gated, PhaseOfState
  <2>3. Contract!Move(r, "acting", "waiting")  BY <1>4, <2>2, PhaseMoves
  <2>4. Contract!Abort(r)  BY <1>3, <2>2, <2>3 DEF Contract!Abort
  <2> QED BY <2>4 DEF Contract!Next
<1>9. CASE op.kind = "rollback"
  <2>1. r \in DOMAIN tasks /\ tasks[r].state = "completed"
    BY <1>1, <1>2, <1>9, FlightLegal
  <2>2. PhaseOf(r) = "undoing" /\ PhaseOf(r)' = "done"
    BY <1>2, <1>3, <1>5, <1>9, <2>1, PhaseMeaning DEF PhaseOfState
  <2>3. Contract!Move(r, "undoing", "done")  BY <1>4, <2>2, PhaseMoves
  <2>4. Contract!UndoAborts(r)  BY <1>3, <2>3 DEF Contract!UndoAborts
  <2> QED BY <2>4 DEF Contract!Next
<1> QED BY <1>6, <1>7, <1>8, <1>9

(* A restart: the actions are forgotten.                                   *)
LEMMA RestartMaps ==
  ASSUME Restart
  PROVE  Contract!Next
<1>1. DOMAIN tasks' = {} /\ op' = Idle  BY DEF Restart
<1>2. \A r \in Requests : PhaseOf(r)' = "absent"  BY <1>1 DEF PhaseOf
<1>3. Gated' = {}  BY <1>1 DEF Gated
<1>4. Contract!Forget  BY <1>2, <1>3 DEF Contract!Forget
<1> QED BY <1>4 DEF Contract!Next

(* A step of the plan returned, or nothing happened to the tasks.          *)
StutterOfContract == Gated' = Gated /\ \A r \in Requests : PhaseOf(r)' = PhaseOf(r)

(* Steps that return, or change no task and no call, are stutters of the   *)
(* contract.                                                               *)
LEMMA WaitMaps ==
  ASSUME ServiceInv, StepReturns \/ UNCHANGED <<tasks, op>>
  PROVE  StutterOfContract
<1>1. CASE UNCHANGED <<tasks, op>>  BY <1>1 DEF StutterOfContract, PhaseOf, Gated
<1>2. CASE StepReturns
  <2>1. op.kind # "idle"  BY <1>2 DEF StepReturns, Executing
  <2>2. op \in Frame  BY <2>1, FlightType DEF ServiceInv
  <2>3. op'.kind = op.kind /\ op'.request = op.request /\ tasks' = tasks
    BY <1>2, <2>2 DEF StepReturns, Frame
  <2>4. op # Idle /\ op' # Idle  BY <2>1, <2>3 DEF Idle
  <2> QED BY <2>3, <2>4 DEF StutterOfContract, PhaseOf, Gated
<1> QED BY <1>1, <1>2

(* Every step of the service is a step of the contract, or a stutter.      *)
ContractStep == Contract!Next \/ StutterOfContract

(* Every step of the service is one of the contract.                       *)
LEMMA StepMaps ==
  ASSUME ServiceInv, [Next]_vars
  PROVE  ContractStep
<1>1. ASSUME UNCHANGED <<tasks, op>> PROVE ContractStep
  BY <1>1, WaitMaps DEF ContractStep
<1>2. CASE Create
  <2>1. PICK r \in Requests :
          \/ DuplicateRequest(r)
          \/ \E caller \in Callers, i \in Intents :
               \/ CreateDenied(r, caller, i)
               \/ CreateAwaiting(r, caller, i)
               \/ CreateExecuting(r, caller, i)
    BY <1>2 DEF Create
  <2>2. CASE DuplicateRequest(r)  BY <2>2, <1>1 DEF DuplicateRequest, vars
  <2> QED BY <2>1, <2>2, CreateMaps DEF ContractStep
<1>3. CASE Decide
  <2>1. PICK r \in DOMAIN tasks, caller \in Callers, channel \in Channel :
          /\ Decidable(r, caller)
          /\ \/ \E decision \in DecisionKind : ExpireApproval(r, caller, decision, channel)
             \/ \E approvalId \in Requests \X Intents, token \in 1..lastToken, payload \in Intents :
                  \/ RejectApproval(r, caller, approvalId, token, payload)
                  \/ GrantApproval(r, caller, channel, approvalId, token, payload)
    BY <1>3 DEF Decide
  <2>2. ASSUME NEW decision \in DecisionKind, ExpireApproval(r, caller, decision, channel)
        PROVE  Contract!Next
    BY <2>1, <2>2, DenialMaps DEF ExpireApproval
  <2>3. ASSUME NEW approvalId \in Requests \X Intents, NEW token \in 1..lastToken,
               NEW payload \in Intents,
               RejectApproval(r, caller, approvalId, token, payload)
        PROVE  Contract!Next
    BY <2>1, <2>3, DenialMaps DEF RejectApproval
  <2>4. ASSUME NEW approvalId \in Requests \X Intents, NEW token \in 1..lastToken,
               NEW payload \in Intents,
               GrantApproval(r, caller, channel, approvalId, token, payload)
        PROVE  Contract!Next
    BY <2>4, GrantMarks, MarksMap DEF Starts
  <2> QED BY <2>1, <2>2, <2>3, <2>4 DEF ContractStep
<1>4. CASE Rollback
  BY <1>4, RollbackMarks, MarksMap DEF Rollback, Starts, ContractStep
<1>5. CASE Return  BY <1>5, ReturnMaps, WaitMaps DEF Return, ContractStep
<1>6. CASE Raise  BY <1>6, RaiseMaps DEF ContractStep
<1>7. CASE Restart  BY <1>7, RestartMaps DEF ContractStep
<1>8. CASE Tick \/ UNCHANGED vars  BY <1>1, <1>8 DEF Tick, vars
<1> QED BY <1>2, <1>3, <1>4, <1>5, <1>6, <1>7, <1>8 DEF Next

(* The service is an implementation of ApprovedAction: seen through the    *)
(* phases of its tasks, whatever it does (exceptions and restarts included)*)
(* is something the contract allows.                                       *)
THEOREM Refinement == Spec => ImplementsContract
<1>1. Init => Contract!Init
  <2> SUFFICES ASSUME Init PROVE Contract!Init  OBVIOUS
  <2>1. DOMAIN tasks = {} /\ op = Idle  BY DEF Init
  <2> QED BY <2>1 DEF Contract!Init, PhaseOf, Gated
<1>2. ASSUME ServiceInv, [Next]_vars
      PROVE  [Contract!Next]_<<[r \in Requests |-> PhaseOf(r)], Gated>>
  <2>1. ContractStep  BY <1>2, StepMaps
  <2> QED BY <2>1 DEF ContractStep, StutterOfContract
<1>3. ServiceInv /\ [Next]_vars
        => [Contract!Next]_<<[r \in Requests |-> PhaseOf(r)], Gated>>
  BY <1>2
<1> QED BY <1>1, <1>3, ServiceInvariant, PTL DEF Spec, ImplementsContract, Contract!Spec

(* What a move of the contract does to the phases.                         *)
LEMMA MovePhases ==
  ASSUME NEW r \in Requests, NEW from, NEW to, Contract!Move(r, from, to), NEW q \in Requests
  PROVE  PhaseOf(r) = from /\ PhaseOf(q)' = IF q = r THEN to ELSE PhaseOf(q)
  BY DEF Contract!Move

(* What is being undone, or has been, is something that went through an    *)
(* approval.                                                               *)
OnlyGatedUndone == \A r \in Requests : PhaseOf(r) \in {"undoing", "undone"} => r \in Gated

(* The contract keeps it so: what it starts to undo is gated.              *)
LEMMA GatedStep ==
  ASSUME OnlyGatedUndone, Contract!Next, NEW q \in Requests, PhaseOf(q)' \in {"undoing", "undone"}
  PROVE  q \in Gated'
<1>1. CASE Contract!Forget  BY <1>1 DEF Contract!Forget
<1>2. ASSUME NEW r \in Requests,
             \/ Contract!Deny(r) \/ Contract!Begin(r) \/ Contract!Grant(r)
             \/ Contract!Decline(r) \/ Contract!Succeed(r) \/ Contract!Fail(r)
             \/ Contract!Abort(r) \/ Contract!UndoFails(r) \/ Contract!UndoAborts(r)
      PROVE  q \in Gated'
  <2>1. PICK from, to : /\ Contract!Move(r, from, to) /\ Gated' = Gated
                        /\ to \notin {"undoing", "undone"}
    BY <1>2 DEF Contract!Deny, Contract!Begin, Contract!Grant, Contract!Decline,
                Contract!Succeed, Contract!Fail, Contract!Abort, Contract!UndoFails,
                Contract!UndoAborts
  <2>2. PhaseOf(q)' = IF q = r THEN to ELSE PhaseOf(q)  BY <2>1, MovePhases
  <2> QED BY <2>1, <2>2 DEF OnlyGatedUndone
<1>3. ASSUME NEW r \in Requests, Contract!Ask(r)
      PROVE  q \in Gated'
  <2>1. PhaseOf(q)' = IF q = r THEN "waiting" ELSE PhaseOf(q)
    BY <1>3, MovePhases DEF Contract!Ask
  <2> QED BY <1>3, <2>1 DEF OnlyGatedUndone, Contract!Ask
<1>4. ASSUME NEW r \in Requests, Contract!Undo(r)
      PROVE  q \in Gated'
  <2>1. PhaseOf(q)' = IF q = r THEN "undoing" ELSE PhaseOf(q)
    BY <1>4, MovePhases DEF Contract!Undo
  <2> QED BY <1>4, <2>1 DEF OnlyGatedUndone, Contract!Undo
<1>5. ASSUME NEW r \in Requests, Contract!Undone(r)
      PROVE  q \in Gated'
  <2>1. PhaseOf(r) = "undoing" /\ PhaseOf(q)' = IF q = r THEN "undone" ELSE PhaseOf(q)
    BY <1>5, MovePhases DEF Contract!Undone
  <2> QED BY <1>5, <2>1 DEF OnlyGatedUndone, Contract!Undone
<1> QED BY <1>1, <1>2, <1>3, <1>4, <1>5 DEF Contract!Next

(* Only what went through an approval is ever undone, whatever exceptions  *)
(* and restarts come between: the contract has it so, and the service      *)
(* implements the contract.                                                *)
THEOREM UndoneGated == Spec => []OnlyGatedUndone
<1>1. Init => OnlyGatedUndone
  <2> SUFFICES ASSUME Init, NEW r \in Requests PROVE PhaseOf(r) = "absent"
    BY DEF OnlyGatedUndone
  <2> QED BY DEF Init, PhaseOf
<1>2. ASSUME OnlyGatedUndone, ServiceInv, [Next]_vars
      PROVE  OnlyGatedUndone'
  <2>1. ContractStep  BY <1>2, StepMaps
  <2>2. ASSUME NEW q \in Requests, PhaseOf(q)' \in {"undoing", "undone"}
        PROVE  q \in Gated'
    <3>1. CASE Contract!Next  BY <1>2, <2>2, <3>1, GatedStep
    <3>2. CASE StutterOfContract
      <4>1. PhaseOf(q)' = PhaseOf(q) /\ Gated' = Gated  BY <3>2 DEF StutterOfContract
      <4> QED BY <1>2, <2>2, <4>1 DEF OnlyGatedUndone
    <3> QED BY <2>1, <3>1, <3>2 DEF ContractStep
  <2> QED BY <2>2 DEF OnlyGatedUndone
<1>3. OnlyGatedUndone /\ ServiceInv /\ [Next]_vars => OnlyGatedUndone'  BY <1>2
<1> QED BY <1>1, <1>3, ServiceInvariant, PTL DEF Spec
=============================================================================
