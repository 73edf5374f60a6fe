--------------------------- MODULE DesktopConsole ---------------------------
(***************************************************************************)
(* The desktop page (ui/app.js): it submits instructions, shows the        *)
(* approval an action needs, polls for what the phone decides, and can     *)
(* undo.  Of the service only its contract, ApprovedAction, is used.       *)
(*                                                                         *)
(* Every fetch suspends the function that made it: a call is sent, answered*)
(* by the service, and resumed when the answer arrives, and between those  *)
(* steps the user, the phone, the poll timer and other calls go on with    *)
(* the page's global variables.                                            *)
(***************************************************************************)
EXTENDS Naturals, FiniteSets

CONSTANTS
  Actions,      \* tasks, one for each instruction
  PhoneTasks,   \* those whose approval must come from the phone
  MaxCalls,     \* bound on the calls under way
  MaxFailures   \* bound on the requests that fail

ASSUME ConsoleAssumption ==
  PhoneTasks \subseteq Actions /\ MaxCalls \in Nat \ {0} /\ MaxFailures \in Nat

VARIABLES
  phase, gated, \* the service, as its contract shows it
  current,      \* currentTask, as it was answered: [task, state]
  receipt,      \* currentReceipt: the state it was recorded in
  dialog,       \* the task whose approval the open dialog shows, or Nothing
  busy,         \* setBusy
  timer,        \* the task taskPollTimer polls for, or Nothing
  calls,        \* the calls under way
  failures,     \* requests that have failed
  givenUp,      \* history: one of them ended the polling for the phone's decision
  outcomes      \* history: the tasks of which a settled state was shown

Service == INSTANCE ApprovedAction

service == <<phase, gated>>
page    == <<current, receipt, dialog, busy, timer, outcomes>>
faults  == <<failures, givenUp>>
vars    == <<service, page, calls, faults>>

Nothing == "nothing"
Free    == [op |-> "free"]
Slots   == 1..MaxCalls

State   == {"waiting", "refused", "done", "failed", "undone"}
Settled(state) == state \in State \ {"waiting"}

Operation == {"execute", "pair", "poll", "approve", "reject", "rollback"}
Stage     == {"task", "receipt"}

(* seen: the task as it was answered, while its receipt is fetched.        *)
Call == [op     : Operation,
         task   : Actions,
         stage  : Stage,
         seen   : State \cup {Nothing},
         answer : State \cup {"none", "running", "ok", "error"}]

Init ==
  /\ Service!Init
  /\ current = [task |-> Nothing, state |-> Nothing]
  /\ receipt = Nothing
  /\ dialog = Nothing
  /\ busy = FALSE
  /\ timer = Nothing
  /\ calls = [c \in Slots |-> Free]
  /\ failures = 0
  /\ givenUp = FALSE
  /\ outcomes = {}

-----------------------------------------------------------------------------
(* Sending.                                                                *)

FreeSlots == {c \in Slots : calls[c] = Free}

NewCall(op, t) == [op |-> op, task |-> t, stage |-> "task",
                   seen |-> Nothing, answer |-> "none"]

Fetch(op, t) ==
  LET c == CHOOSE c \in FreeSlots : \A d \in FreeSlots : c <= d
  IN  calls' = [calls EXCEPT ![c] = NewCall(op, t)]

UserMayAct == FreeSlots # {}

(* executeInstruction: the form works while the dialog is open, too.       *)
Submit(t) ==
  /\ UserMayAct
  /\ ~busy
  /\ phase[t] = "absent"
  /\ \A c \in Slots \ FreeSlots : calls[c].task # t
  /\ busy' = TRUE
  /\ Fetch("execute", t)
  /\ UNCHANGED <<service, current, receipt, dialog, timer, faults, outcomes>>

(* decideApproval is about currentTask, whatever the dialog shows.  The    *)
(* approve button is hidden when the phone is required.                    *)
CanDecide == ~busy /\ dialog # Nothing /\ current.state = "waiting"

Decide(decision) ==
  /\ UserMayAct
  /\ CanDecide
  /\ decision = "approve" => dialog \notin PhoneTasks
  /\ busy' = TRUE
  /\ Fetch(decision, current.task)
  /\ UNCHANGED <<service, current, receipt, dialog, timer, faults, outcomes>>

(* Mutant: currentTask is not looked at first.                             *)
RollbackUnchecked ==
  /\ UserMayAct
  /\ ~busy
  /\ busy' = TRUE
  /\ Fetch("rollback", current.task)
  /\ UNCHANGED <<service, current, receipt, dialog, timer, faults, outcomes>>

(* rollbackCurrentTask.                                                    *)
Rollback ==
  /\ UserMayAct
  /\ ~busy
  /\ receipt = "done" /\ current.task \in gated
  /\ busy' = TRUE
  /\ Fetch("rollback", current.task)
  /\ UNCHANGED <<service, current, receipt, dialog, timer, faults, outcomes>>

(* showApproval from the review button.  The phone's dialog asks for a     *)
(* pairing code, and polls when it has it.                                 *)
Review ==
  /\ UserMayAct
  /\ current.state = "waiting"
  /\ dialog' = current.task
  /\ IF current.task \in PhoneTasks THEN Fetch("pair", current.task) ELSE UNCHANGED calls
  /\ UNCHANGED <<service, current, receipt, busy, timer, faults, outcomes>>

(* hideApproval, from its button, the overlay or the Escape key.  The timer*)
(* is left running.                                                        *)
Close ==
  /\ dialog # Nothing
  /\ dialog' = Nothing
  /\ UNCHANGED <<service, current, receipt, busy, timer, calls, faults, outcomes>>

(* The interval of pollTaskUntilResolved.                                  *)
TimerFires ==
  /\ timer # Nothing
  /\ FreeSlots # {}
  /\ Fetch("poll", timer)
  /\ UNCHANGED <<service, page, faults>>

-----------------------------------------------------------------------------
(* The service serves a request.                                           *)

Sent(c, ops) == /\ calls[c].op \in ops
                /\ calls[c].stage = "task" /\ calls[c].answer = "none"
                /\ ~Service!Busy

AnswerWith(c, answer) == calls' = [calls EXCEPT ![c].answer = answer]

(* create_task: asks for an approval, refuses, or executes right away.     *)
ServeExecute(c) ==
  LET t == calls[c].task
  IN  /\ Sent(c, {"execute"})
      /\ \/ Service!Ask(t) /\ AnswerWith(c, "waiting")
         \/ t \notin PhoneTasks /\ Service!Deny(t) /\ AnswerWith(c, "refused")
         \/ t \notin PhoneTasks /\ Service!Begin(t) /\ AnswerWith(c, "running")
      /\ UNCHANGED <<page, faults>>

(* approve_task over the DESKTOP channel; an expired approval is declined  *)
(* under any decision, with an error as the answer.                        *)
ServeDecision(c) ==
  LET t == calls[c].task
  IN  /\ Sent(c, {"approve", "reject"})
      /\ \/ /\ calls[c].op = "approve" /\ t \notin PhoneTasks
            /\ Service!Grant(t) /\ AnswerWith(c, "running")
         \/ /\ calls[c].op = "reject"
            /\ Service!Decline(t) /\ AnswerWith(c, "refused")
         \/ Service!Decline(t) /\ AnswerWith(c, "error")
         \/ phase[t] # "waiting" /\ AnswerWith(c, "error") /\ UNCHANGED service
      /\ UNCHANGED <<page, faults>>

ServeRollback(c) ==
  LET t == calls[c].task
  IN  /\ Sent(c, {"rollback"})
      /\ \/ Service!Undo(t) /\ AnswerWith(c, "running")
         \/ phase[t] # "done" /\ AnswerWith(c, "error") /\ UNCHANGED service
      /\ UNCHANGED <<page, faults>>

(* get_task and get_receipt.                                               *)
ServeRead(c) ==
  /\ calls[c].op # "free"
  /\ calls[c].op = "poll" \/ calls[c].stage = "receipt"
  /\ calls[c].answer = "none"
  /\ ~Service!Busy
  /\ AnswerWith(c, phase[calls[c].task])
  /\ UNCHANGED <<service, page, faults>>

(* create_mobile_pairing.                                                  *)
ServePairing(c) ==
  /\ calls[c].op = "pair" /\ calls[c].answer = "none"
  /\ AnswerWith(c, "ok")
  /\ UNCHANGED <<service, page, faults>>

(* The request or its answer is lost.  Without a pairing nothing is polled *)
(* for, and the timer is gone before the receipt is fetched.               *)
NotRepeated == {<<"pair", "task">>, <<"poll", "receipt">>}

RequestFails(c) ==
  /\ calls[c].op # "free" /\ calls[c].answer \notin {"running", "error"}
  /\ failures < MaxFailures
  /\ failures' = failures + 1
  /\ givenUp' = (givenUp \/ <<calls[c].op, calls[c].stage>> \in NotRepeated)
  /\ AnswerWith(c, "error")
  /\ UNCHANGED <<service, page>>

(* The phone approves or denies.                                           *)
PhoneDecides(t) ==
  /\ Service!Grant(t) \/ Service!Decline(t)
  /\ UNCHANGED <<page, calls, faults>>

(* What is executed or undone is over; the call that waits for it, if it   *)
(* was not the phone's, is answered: with an error, if an exception escaped*)
(* or if it is an undo that failed.                                        *)
EndsInError(from, to) == IF from = "undoing" THEN to # "undone" ELSE to \in {"absent", "waiting"}

ServiceEnds(t) ==
  /\ \/ Service!Succeed(t) \/ Service!Fail(t) \/ Service!Undone(t) \/ Service!UndoFails(t)
     \/ Service!Abort(t) \/ Service!UndoAborts(t)
  /\ calls' = [c \in Slots |->
                 IF calls[c] # Free /\ calls[c].answer = "running"
                   THEN [calls[c] EXCEPT !.answer =
                           IF EndsInError(phase[t], phase'[t]) THEN "error" ELSE phase'[t]]
                   ELSE calls[c]]
  /\ UNCHANGED <<page, faults>>

-----------------------------------------------------------------------------
(* A call goes on with its answer.                                         *)

Arrived(c, ops, stage) ==
  /\ calls[c].op \in ops /\ calls[c].stage = stage
  /\ calls[c].answer \notin {"none", "running", "error"}

Return(c) == calls' = [calls EXCEPT ![c] = Free]

FetchReceipt(c) ==
  calls' = [calls EXCEPT ![c].stage = "receipt", ![c].seen = calls[c].answer,
                         ![c].answer = "none"]

(* Mutant: a receipt that is there is not replaced.                        *)
RenderKeepingReceipt(c) ==
  /\ current' = [task |-> calls[c].task, state |-> calls[c].seen]
  /\ receipt' = IF receipt = Nothing THEN calls[c].answer ELSE receipt
  /\ outcomes' = outcomes \cup (IF Settled(calls[c].seen) THEN {calls[c].task} ELSE {})

(* renderTask(task, receipt).                                              *)
Render(c) ==
  /\ current' = [task |-> calls[c].task, state |-> calls[c].seen]
  /\ receipt' = calls[c].answer
  /\ outcomes' = outcomes \cup (IF Settled(calls[c].seen) THEN {calls[c].task} ELSE {})

TaskArrives(c) ==
  /\ Arrived(c, {"execute", "approve", "reject", "rollback"}, "task")
  /\ FetchReceipt(c)
  /\ UNCHANGED <<service, page, faults>>

(* Mutant: a dialog that is open is left alone.                            *)
ExecutedLeavingDialog(c) ==
  /\ Arrived(c, {"execute"}, "receipt")
  /\ Render(c)
  /\ busy' = FALSE
  /\ dialog' = IF calls[c].seen = "waiting" /\ dialog = Nothing THEN calls[c].task ELSE dialog
  /\ calls' = [calls EXCEPT ![c] = IF calls[c].seen = "waiting" /\ calls[c].task \in PhoneTasks
                                     THEN NewCall("pair", calls[c].task) ELSE Free]
  /\ UNCHANGED <<service, timer, faults>>

(* The approval of a task that waits for one is shown.                     *)
Executed(c) ==
  LET t     == calls[c].task
      waits == calls[c].seen = "waiting"
  IN  /\ Arrived(c, {"execute"}, "receipt")
      /\ Render(c)
      /\ busy' = FALSE
      /\ dialog' = IF waits THEN t ELSE dialog
      /\ calls' = [calls EXCEPT ![c] = IF waits /\ t \in PhoneTasks
                                         THEN NewCall("pair", t) ELSE Free]
      /\ UNCHANGED <<service, timer, faults>>

Decided(c) ==
  /\ Arrived(c, {"approve", "reject"}, "receipt")
  /\ dialog' = Nothing
  /\ Render(c)
  /\ busy' = FALSE
  /\ Return(c)
  /\ UNCHANGED <<service, timer, faults>>

RolledBack(c) ==
  /\ Arrived(c, {"rollback"}, "receipt")
  /\ Render(c)
  /\ busy' = FALSE
  /\ Return(c)
  /\ UNCHANGED <<service, dialog, timer, faults>>

(* createPhonePairing has a code; pollTaskUntilResolved takes the timer.   *)
PairingArrives(c) ==
  /\ Arrived(c, {"pair"}, "task")
  /\ timer' = calls[c].task
  /\ Return(c)
  /\ UNCHANGED <<service, current, receipt, dialog, busy, faults, outcomes>>

(* Mutant: the timer is given up before the answer is looked at.           *)
PollUnresolvedStops(c) ==
  /\ Arrived(c, {"poll"}, "task")
  /\ calls[c].answer = "waiting"
  /\ timer' = Nothing
  /\ Return(c)
  /\ UNCHANGED <<service, current, receipt, dialog, busy, faults, outcomes>>

PollUnresolved(c) ==
  /\ Arrived(c, {"poll"}, "task")
  /\ calls[c].answer = "waiting"
  /\ Return(c)
  /\ UNCHANGED <<service, page, faults>>

(* clearInterval(taskPollTimer): whosever timer it is by now.              *)
PollResolved(c) ==
  /\ Arrived(c, {"poll"}, "task")
  /\ calls[c].answer # "waiting"
  /\ timer' = Nothing
  /\ FetchReceipt(c)
  /\ UNCHANGED <<service, current, receipt, dialog, busy, faults, outcomes>>

Polled(c) ==
  /\ Arrived(c, {"poll"}, "receipt")
  /\ dialog' = Nothing
  /\ Render(c)
  /\ Return(c)
  /\ UNCHANGED <<service, busy, timer, faults>>

(* catch, finally.                                                         *)
CallFails(c) ==
  /\ calls[c].op # "free" /\ calls[c].answer = "error"
  /\ busy' = (busy /\ calls[c].op \in {"pair", "poll"})
  /\ Return(c)
  /\ UNCHANGED <<service, current, receipt, dialog, timer, faults, outcomes>>

-----------------------------------------------------------------------------
User == \/ \E t \in Actions : Submit(t)
        \/ \E decision \in {"approve", "reject"} : Decide(decision)
        \/ Rollback \/ Review \/ Close

Serve(c) == \/ ServeExecute(c) \/ ServeDecision(c) \/ ServeRollback(c)
            \/ ServeRead(c) \/ ServePairing(c)

Resume(c) == \/ TaskArrives(c) \/ Executed(c) \/ Decided(c) \/ RolledBack(c)
             \/ PairingArrives(c) \/ PollUnresolved(c) \/ PollResolved(c) \/ Polled(c)
             \/ CallFails(c)

Ends == \E t \in Actions : ServiceEnds(t)

Next == \/ User \/ TimerFires \/ Ends
        \/ \E t \in PhoneTasks : PhoneDecides(t)
        \/ \E c \in Slots : Serve(c) \/ RequestFails(c) \/ Resume(c)

Spec == Init /\ [][Next]_vars

(* The browser resumes every call that is answered and runs its timers (of *)
(* which MaxCalls, that the browser does not have, may disable one for a   *)
(* while); what the service executes ends; and a request that waits for the*)
(* service's lock gets it at some point, however often others had it.      *)
FairSpec == /\ Spec
            /\ SF_vars(TimerFires) /\ WF_vars(Ends)
            /\ \A c \in Slots : SF_vars(Serve(c)) /\ WF_vars(Resume(c))

-----------------------------------------------------------------------------
(* Properties.                                                             *)

(* Every variable has its type.                                            *)
TypeOK ==
  /\ current \in [task : Actions \cup {Nothing}, state : State \cup {Nothing}]
  /\ receipt \in State \cup {Nothing}
  /\ {dialog, timer} \subseteq Actions \cup {Nothing}
  /\ busy \in BOOLEAN
  /\ calls \in [Slots -> Call \cup {Free}]
  /\ failures \in 0..MaxFailures
  /\ givenUp \in BOOLEAN
  /\ outcomes \subseteq Actions

(* A decision is sent for the approval that the dialog shows (P3: approval *)
(* of the exact payload), although it is taken from currentTask, which     *)
(* polls and other calls replace while the dialog is open.                 *)
DecidesWhatItShows == CanDecide => current.task = dialog

(* The receipt, fetched after the task, is not older than what is shown of *)
(* it: a completed task is never shown with the receipt of its waiting, nor*)
(* an ended one with a receipt that offers the undo.  (What becomes of the *)
(* task later, also in an undo that fails, the page may not have seen.)    *)
After(state) == CASE state = "waiting" -> State
                  [] state = "done"    -> {"done", "undone", "failed"}
                  [] OTHER             -> {state}

ReceiptNotOlder == current.task # Nothing => receipt \in After(current.state)

(* What every step preserves, and what these two follow from.  Of the      *)
(* service: one action is busy, what waits is gated, and what is gated is  *)
(* not absent any more.                                                    *)
Phase == State \cup {"absent", "acting", "undoing"}

ContractConsistent ==
  /\ phase \in [Actions -> Phase] /\ gated \subseteq Actions
  /\ \A a, b \in Actions : {phase[a], phase[b]} \subseteq {"acting", "undoing"} => a = b
  /\ \A a \in Actions : phase[a] = "waiting" => a \in gated
  /\ \A a \in gated : phase[a] # "absent"

(* The phases an action may have come to (ph, with the gated actions g)    *)
(* since it was seen in a state.                                           *)
Later(state) == IF state = "waiting" THEN Phase \ {"absent"}
                ELSE IF state = "done" THEN After(state) \cup {"undoing"}
                ELSE {state}

Followed(state, t, ph, g) == ph[t] \in Later(state) /\ (state = "waiting" => t \in g)

(* A call that runs is what the service is busy with; what a call was      *)
(* answered has not become impossible; a rollback is answered with what is *)
(* undone or not at all; what is polled for has been asked for.            *)
CallConsistent(call, ph, g) ==
  /\ call.op \in {"pair", "poll"} => call.task \in g
  /\ call.answer = "running" =>
       /\ call.op \in {"execute", "approve", "rollback"} /\ call.stage = "task"
       /\ ph[call.task] = IF call.op = "rollback" THEN "undoing" ELSE "acting"
  /\ call.op = "pair" => call.stage = "task" /\ call.answer \in {"none", "ok", "error"}
  /\ call.answer = "ok" => call.op = "pair"
  /\ call.stage = "task" /\ call.answer \in State => Followed(call.answer, call.task, ph, g)
  /\ call.stage = "receipt" =>
       /\ call.seen \in State /\ Followed(call.seen, call.task, ph, g)
       /\ call.answer \in After(call.seen) \cup {"none", "error"}
  /\ call.op = "rollback" =>
       IF call.stage = "task"
         THEN call.answer \in {"none", "running", "error", "undone"}
         ELSE call.seen = "undone"

(* The page shows a task or none, and what waits, or is polled for, has    *)
(* been asked for.                                                         *)
PageConsistent ==
  /\ current.state = Nothing => current.task = Nothing
  /\ current.state # Nothing => current.task \in Actions /\ receipt \in After(current.state)
  /\ current.state = "waiting" => /\ current.task \in gated
                                  /\ dialog # Nothing => dialog = current.task
  /\ timer # Nothing => timer \in gated

ConsoleInv ==
  /\ TypeOK
  /\ ContractConsistent
  /\ PageConsistent
  /\ \A c \in Slots : calls[c] # Free => CallConsistent(calls[c], phase, gated)

(* The desktop polls and visibly updates when the phone approves or denies *)
(* the command (P4 requirement 15), also when a poll has failed.           *)
OutcomeShown ==
  \A t \in PhoneTasks :
    (current = [task |-> t, state |-> "waiting"] /\ Settled(phase[t]))
      ~> (t \in outcomes \/ givenUp)
=============================================================================
