----------------------------- MODULE CoreService -----------------------------
(***************************************************************************)
(* CoreSimulatorService (core/service.py): tasks, their approvals, their   *)
(* execution, their undo and the receipt ledger, all behind one RLock.     *)
(*                                                                         *)
(* A call that finishes without waiting for anything outside the process   *)
(* is one action.  A call that executes capabilities holds the lock while  *)
(* files, Git or the device node answer: it is an operation in flight, op, *)
(* from the action that starts it to the action that stores its result.    *)
(* Meanwhile time passes, the outside call may fail or raise, and the      *)
(* process may be restarted.                                               *)
(*                                                                         *)
(* task_id, approval_id and request_id determine each other (uuid5 of one  *)
(* another), so a task is named by its request.                            *)
(***************************************************************************)
EXTENDS Lifecycle, Capabilities, SequencesExt

CONSTANTS
  Requests,     \* request ids
  Sessions,     \* user session ids
  Intents,      \* what an utterance is classified to: [kind, content]
  Contents,     \* note contents (and one value for intents that carry none)
  Refused,      \* the content prepare_note raises InvalidNoteError for
  Lifetime,     \* _APPROVAL_LIFETIME
  MaxTime,      \* bound on the clock
  MaxFaults,    \* bound on exceptions nothing in service.py handles
  MaxRestarts   \* bound on restarts of the process

ASSUME IntentsAssumption  == Intents \subseteq [kind : IntentKind, content : Contents]
ASSUME LifetimeAssumption == Lifetime \in Nat \ {0}
ASSUME BoundsAssumption   == MaxTime \in Nat /\ MaxFaults \in Nat /\ MaxRestarts \in Nat

VARIABLES
  now,        \* datetime.now(UTC)
  tasks,      \* _tasks and _request_index: a function on the requests seen
  ledger,     \* _ledger: the receipt history of every request
  op,         \* the call that holds _lock across an outside call, or Idle
  lastToken,  \* approval tokens 1..lastToken have been drawn
  faults,     \* unhandled exceptions so far
  restarts    \* restarts so far

vars == <<now, tasks, ledger, op, lastToken, faults, restarts>>

-----------------------------------------------------------------------------
(* Data.                                                                   *)

ApprovalStatus == {"pending", "approved", "rejected", "expired", "consumed"}
DecisionKind   == {"approve", "reject"}

Result == [capability : Registered \cup SimulatorTable, status : StepStatus,
           evidence : BOOLEAN]

(* approval_token is None once the approval is settled: token 0.           *)
NoApproval == [status |-> "none"]
Approval   == [status : ApprovalStatus, channel : Channel, payload : Intents,
               token : Nat, expiresAt : Nat]

Task == [session : Sessions, intent : Intents, state : TaskState,
         results : Seq(Result), events : Seq(TaskState),
         approval : Approval \cup {NoApproval}]

Receipt == [version : Nat, state : TaskState, results : Seq(Result),
            events : Seq(TaskState), verified : BOOLEAN, reversible : BOOLEAN]

(* The locals of a call in flight: who made it over which channel, the     *)
(* payload hash it presented, and the task it is about to store.           *)
Idle  == [kind |-> "idle"]
Frame == [kind : {"create", "approve", "rollback"}, request : Requests,
          session : Sessions, channel : Channel, payload : Intents, draft : Task]

(* IdentitySession: what a caller claims to be.                            *)
Callers == [session : Sessions, authenticated : BOOLEAN]

SessionValid(caller, session) == caller.authenticated /\ caller.session = session

(* dict[r] = t on a dictionary.                                            *)
Put(dict, r, t) == [q \in DOMAIN dict \cup {r} |-> IF q = r THEN t ELSE dict[q]]

InvalidNote(i) == i.kind = "create_note" /\ i.content = Refused
PlanFor(i)     == IF InvalidNote(i) THEN InvalidNotePlan ELSE PlanOf(i.kind)
Decision(i)    == IF InvalidNote(i) THEN "deny" ELSE Verdict(PlanFor(i))

Log(task, state) == [task EXCEPT !.events = Append(@, state)]

(* _append_event followed by the state the handler stores.                 *)
Enter(task, state) == [Log(task, state) EXCEPT !.state = state]

(* Mutant: the token survives the change of status.                        *)
SettleKeepsToken(approval, status) == [approval EXCEPT !.status = status]

Settle(approval, status) == [approval EXCEPT !.status = status, !.token = 0]

(* A result rollback_task can undo.                                        *)
Undoable(result) ==
  /\ result.capability \in UndoableCapabilities
  /\ result.status = "verified"
  /\ result.evidence

SourceResult(task) ==
  task.results[CHOOSE i \in DOMAIN task.results :
                 /\ Undoable(task.results[i])
                 /\ \A j \in 1..(i - 1) : ~Undoable(task.results[j])]

(* _approval_for: the channel is chosen by the capability of the first step.*)
ApprovalFor(i, token) ==
  [status    |-> "pending",
   channel   |-> IF PlanFor(i)[1].capability = "device.launch_notepad"
                   THEN "phone" ELSE "desktop",
   payload   |-> i,
   token     |-> token,
   expiresAt |-> now + Lifetime]

(* _record_receipt.                                                        *)
ReceiptVerified(task) ==
  task.state \in {"completed", "rolled_back"} /\ task.results # << >>

(* Mutant: the state of the task is not looked at.                         *)
ReversibleWhateverState(task) ==
  \E i \in DOMAIN task.results : Undoable(task.results[i])

ReceiptReversible(task) ==
  /\ task.state = "completed"
  /\ \E i \in DOMAIN task.results :
       /\ task.results[i].capability \in UndoableCapabilities
       /\ task.results[i].status = "verified"

ReceiptOf(task, version) ==
  [version    |-> version,
   state      |-> task.state,
   results    |-> task.results,
   events     |-> task.events,
   verified   |-> ReceiptVerified(task),
   reversible |-> ReceiptReversible(task)]

(* Mutant: later receipts repeat the first version.                        *)
VersionNotAdvanced(history) == 1

NextVersion(history) ==
  IF history = << >> THEN 1 ELSE history[Len(history)].version + 1

(* self._tasks[task_id] = task; self._record_receipt(task).                *)
Store(r, task) ==
  /\ tasks'  = Put(tasks, r, task)
  /\ ledger' = [ledger EXCEPT ![r] = Append(@, ReceiptOf(task, NextVersion(@)))]

-----------------------------------------------------------------------------
Init ==
  /\ now = 0
  /\ tasks = << >>
  /\ ledger = [r \in Requests |-> << >>]
  /\ op = Idle
  /\ lastToken = 0
  /\ faults = 0
  /\ restarts = 0

(* Time passes, whoever holds the lock.                                    *)
Tick ==
  /\ now < MaxTime
  /\ now' = now + 1
  /\ UNCHANGED <<tasks, ledger, op, lastToken, faults, restarts>>

-----------------------------------------------------------------------------
(* create_task.                                                            *)

Planned(caller, i) ==
  [session |-> caller.session, intent |-> i, state |-> "planned",
   results |-> << >>, events |-> <<"received", "planned">>,
   approval |-> NoApproval]

(* Mutant: the request index is not consulted.                             *)
NewRequestUnindexed(r, caller) == op = Idle /\ r \in Requests /\ caller.authenticated

NewRequest(r, caller) ==
  /\ op = Idle
  /\ r \in Requests \ DOMAIN tasks
  /\ caller.authenticated

(* The request index already knows the request: the stored task is         *)
(* returned, whatever the new request says.                                *)
DuplicateRequest(r) ==
  /\ op = Idle
  /\ r \in DOMAIN tasks
  /\ UNCHANGED vars

CreateDenied(r, caller, i) ==
  /\ NewRequest(r, caller)
  /\ Decision(i) = "deny"
  /\ Store(r, Enter(Planned(caller, i), "denied"))
  /\ UNCHANGED <<now, op, lastToken, faults, restarts>>

CreateAwaiting(r, caller, i) ==
  /\ NewRequest(r, caller)
  /\ Decision(i) = "require_approval"
  /\ lastToken' = lastToken + 1
  /\ Store(r, [Enter(Planned(caller, i), "awaiting_approval")
                 EXCEPT !.approval = ApprovalFor(i, lastToken')])
  /\ UNCHANGED <<now, op, faults, restarts>>

(* Every step is allowed: the plan is executed before the task is stored.  *)
CreateExecuting(r, caller, i) ==
  /\ NewRequest(r, caller)
  /\ Decision(i) = "allow"
  /\ op' = [kind |-> "create", request |-> r, session |-> caller.session,
            channel |-> "desktop", payload |-> i,
            draft |-> Log(Planned(caller, i), "executing")]
  /\ UNCHANGED <<now, tasks, ledger, lastToken, faults, restarts>>

-----------------------------------------------------------------------------
(* approve_task.                                                           *)

(* Mutant: the state of the task is not checked.                           *)
DecidableInAnyState(r, caller) ==
  /\ op = Idle
  /\ r \in DOMAIN tasks
  /\ SessionValid(caller, tasks[r].session)
  /\ tasks[r].approval # NoApproval

Decidable(r, caller) ==
  /\ op = Idle
  /\ r \in DOMAIN tasks
  /\ SessionValid(caller, tasks[r].session)
  /\ tasks[r].state = "awaiting_approval"
  /\ tasks[r].approval # NoApproval

(* Mutant: no decision is bound to a channel.                              *)
AnyChannelAccepted(r, decision, channel) == TRUE

(* Only an approval is bound to the channel; a rejection is not.           *)
ChannelAccepted(r, decision, channel) ==
  decision = "approve" => tasks[r].approval.channel = channel

Expired(r) == now >= tasks[r].approval.expiresAt

(* approval_id, which is derived from the task and the payload hash, the   *)
(* token and the payload hash must all be those of the pending approval.   *)
DecisionMatches(r, approvalId, token, payload) ==
  /\ approvalId = <<r, tasks[r].approval.payload>>
  /\ token = tasks[r].approval.token
  /\ payload = tasks[r].approval.payload
  /\ tasks[r].approval.status = "pending"

ExpireApproval(r, caller, decision, channel) ==
  /\ Decidable(r, caller)
  /\ ChannelAccepted(r, decision, channel)
  /\ Expired(r)
  /\ Store(r, [Enter(tasks[r], "denied") EXCEPT !.approval = Settle(@, "expired")])
  /\ UNCHANGED <<now, op, lastToken, faults, restarts>>

RejectApproval(r, caller, approvalId, token, payload) ==
  /\ Decidable(r, caller)
  /\ ~Expired(r)
  /\ DecisionMatches(r, approvalId, token, payload)
  /\ Store(r, [Enter(tasks[r], "denied") EXCEPT !.approval = Settle(@, "rejected")])
  /\ UNCHANGED <<now, op, lastToken, faults, restarts>>

(* The events are appended to the stored task itself; state, results and   *)
(* approval follow when the execution has returned.                        *)
GrantApproval(r, caller, channel, approvalId, token, payload) ==
  /\ Decidable(r, caller)
  /\ ChannelAccepted(r, "approve", channel)
  /\ ~Expired(r)
  /\ DecisionMatches(r, approvalId, token, payload)
  /\ LET started == Log(Log(tasks[r], "approved"), "executing")
     IN  /\ tasks' = Put(tasks, r, started)
         /\ op' = [kind |-> "approve", request |-> r, session |-> caller.session,
                   channel |-> channel, payload |-> payload, draft |-> started]
  /\ UNCHANGED <<now, ledger, lastToken, faults, restarts>>

-----------------------------------------------------------------------------
(* _execute_authorized_steps and the end of the call it is part of.        *)

Executing == op.kind \in {"create", "approve"}
Plan      == PlanFor(op.draft.intent)
StepsLeft == Len(op.draft.results) < Len(Plan)
NextStep  == Plan[Len(op.draft.results) + 1].capability

Conclude(task) ==
  /\ Store(op.request,
           IF op.kind = "approve"
             THEN [task EXCEPT !.approval = Settle(@, "consumed")] ELSE task)
  /\ op' = Idle
  /\ UNCHANGED <<now, lastToken, faults, restarts>>

(* Mutant: the result is dropped.                                          *)
StepReturnsNothing ==
  /\ Executing
  /\ StepsLeft
  /\ UNCHANGED vars

(* execute_step returns a result for the next step of the plan.            *)
StepReturns ==
  /\ Executing
  /\ StepsLeft
  /\ \E result \in ResultsOf(NextStep) :
       op' = [op EXCEPT !.draft.results = Append(@, result)]
  /\ UNCHANGED <<now, tasks, ledger, lastToken, faults, restarts>>

(* Every step returned: the results are checked against the contract.      *)
EvidenceComplete(results) ==
  /\ results # << >>
  /\ \A i \in DOMAIN results : results[i].status = "verified" /\ results[i].evidence

(* Mutant: the verification is not entered in the trail.                   *)
FinishUnverified ==
  /\ Executing
  /\ ~StepsLeft
  /\ Conclude(Enter(op.draft,
                    IF EvidenceComplete(op.draft.results) THEN "completed" ELSE "failed"))

FinishExecution ==
  /\ Executing
  /\ ~StepsLeft
  /\ Conclude(Enter(Log(op.draft, "verifying"),
                    IF EvidenceComplete(op.draft.results) THEN "completed" ELSE "failed"))

(* The managed note store raises a ManagedNoteError, which is handled.     *)
ExecutionFails ==
  /\ Executing
  /\ StepsLeft
  /\ NextStep = "workspace.create_note"
  /\ Conclude(Enter(op.draft, "failed"))

(* Any other exception (an OSError while writing or reading back a note or *)
(* while reading the disk usage, an answer of the device node that does    *)
(* not parse) leaves the call: nothing is stored, the lock is released.    *)
ExecutionRaises ==
  /\ Executing
  /\ StepsLeft
  /\ NextStep \in {"workspace.create_note", "workspace.read_status",
                   "device.launch_notepad"}
  /\ faults < MaxFaults
  /\ faults' = faults + 1
  /\ op' = Idle
  /\ UNCHANGED <<now, tasks, ledger, lastToken, restarts>>

-----------------------------------------------------------------------------
(* rollback_task.                                                          *)

RollbackEligible(task) ==
  /\ task.state = "completed"
  /\ \E i \in DOMAIN task.results : Undoable(task.results[i])

RollbackBegin(r, caller) ==
  /\ op = Idle
  /\ r \in DOMAIN tasks
  /\ SessionValid(caller, tasks[r].session)
  /\ RollbackEligible(tasks[r])
  /\ LET started == Log(tasks[r], "rolling_back")
     IN  /\ tasks' = Put(tasks, r, started)
         /\ op' = [kind |-> "rollback", request |-> r, session |-> caller.session,
                   channel |-> "desktop", payload |-> tasks[r].intent,
                   draft |-> started]
  /\ UNCHANGED <<now, ledger, lastToken, faults, restarts>>

RollbackSucceeds ==
  /\ op.kind = "rollback"
  /\ LET undone == StepResult(UndoOf(SourceResult(op.draft).capability),
                              "rolled_back", TRUE)
     IN  Conclude([Enter(op.draft, "rolled_back")
                     EXCEPT !.results = Append(@, undone)])

(* ManagedNoteError, DeviceCommandError or ValueError.                     *)
RollbackFails ==
  /\ op.kind = "rollback"
  /\ Conclude(Enter(op.draft, "failed"))

(* An OSError while the note is read or removed is not one of them.        *)
RollbackRaises ==
  /\ op.kind = "rollback"
  /\ SourceResult(op.draft).capability = "workspace.create_note"
  /\ faults < MaxFaults
  /\ faults' = faults + 1
  /\ op' = Idle
  /\ UNCHANGED <<now, tasks, ledger, lastToken, restarts>>

-----------------------------------------------------------------------------
(* The process is restarted: everything it knew is gone.                   *)
Restart ==
  /\ restarts < MaxRestarts
  /\ restarts' = restarts + 1
  /\ tasks' = << >>
  /\ ledger' = [r \in Requests |-> << >>]
  /\ op' = Idle
  /\ UNCHANGED <<now, lastToken, faults>>

Create ==
  \E r \in Requests :
    \/ DuplicateRequest(r)
    \/ \E caller \in Callers, i \in Intents :
         \/ CreateDenied(r, caller, i)
         \/ CreateAwaiting(r, caller, i)
         \/ CreateExecuting(r, caller, i)

Decide ==
  \E r \in DOMAIN tasks, caller \in Callers, channel \in Channel :
    /\ Decidable(r, caller)
    /\ \/ \E decision \in DecisionKind : ExpireApproval(r, caller, decision, channel)
       \/ \E approvalId \in Requests \X Intents, token \in 1..lastToken, payload \in Intents :
            \/ RejectApproval(r, caller, approvalId, token, payload)
            \/ GrantApproval(r, caller, channel, approvalId, token, payload)

Rollback == \E r \in DOMAIN tasks, caller \in Callers : RollbackBegin(r, caller)

(* What ends an operation in flight.                                       *)
Return == \/ StepReturns \/ FinishExecution \/ ExecutionFails
          \/ RollbackSucceeds \/ RollbackFails
Raise  == ExecutionRaises \/ RollbackRaises

Next == Tick \/ Create \/ Decide \/ Rollback \/ Return \/ Raise \/ Restart

Spec == Init /\ [][Next]_vars

(* Every outside call the service makes returns: the device client and Git *)
(* run under timeouts, the note store uses local files.                    *)
FairSpec == Spec /\ WF_vars(Return)

-----------------------------------------------------------------------------
(* Properties.                                                             *)

(* Every variable has its type; in particular the tasks dictionary is a    *)
(* function on requests and a call in flight carries a well-formed task.   *)
TypeOK ==
  /\ now \in 0..MaxTime
  /\ DOMAIN tasks \subseteq Requests
  /\ tasks \in [DOMAIN tasks -> Task]
  /\ ledger \in [Requests -> Seq(Receipt)]
  /\ op \in Frame \cup {Idle}
  /\ lastToken \in Nat
  /\ faults \in 0..MaxFaults
  /\ restarts \in 0..MaxRestarts

(* An approval can still be used exactly while its task awaits it: it is   *)
(* pending if and only if the task is in AWAITING_APPROVAL, and a token    *)
(* exists if and only if it is pending (service.py clears it together with *)
(* every change of status).  No two live approvals share a token.          *)
Pending(task) == task.approval # NoApproval /\ task.approval.status = "pending"

PendingExactlyWhileAwaiting ==
  \A r \in DOMAIN tasks :
    /\ Pending(tasks[r]) <=> tasks[r].state = "awaiting_approval"
    /\ tasks[r].approval # NoApproval =>
         (Pending(tasks[r]) <=> tasks[r].approval.token # 0)
    /\ \A q \in DOMAIN tasks \ {r} :
         Pending(tasks[r]) /\ Pending(tasks[q])
           => tasks[r].approval.token # tasks[q].approval.token

(* A plan with an explicit-approval capability only runs inside a decision *)
(* made by the owner of the task, over the channel the registry demands    *)
(* for that capability, for the payload of the plan that runs.             *)
RunsUnderConsent ==
  Executing =>
    \A i \in DOMAIN Plan :
      NeedsApproval(Plan[i].capability) =>
        /\ op.kind = "approve"
        /\ op.session = op.draft.session
        /\ op.channel = Registry[Plan[i].capability].channel
        /\ op.payload = op.draft.intent

(* The history of receipts is the history of the task: every receipt's     *)
(* trail extends the trail of the receipt before it and is part of the     *)
(* task's own trail, ends in the state the receipt names, and versions are *)
(* consecutive (P3 requirement 10).                                        *)
ReceiptsTellTheTrail ==
  \A r \in DOMAIN tasks :
    \A v \in DOMAIN ledger[r] :
      /\ ledger[r][v].version = v
      /\ Last(ledger[r][v].events) = ledger[r][v].state
      /\ IsPrefix(ledger[r][v].events, tasks[r].events)
      /\ v > 1 => IsStrictPrefix(ledger[r][v - 1].events, ledger[r][v].events)

(* The latest receipt speaks of the task as it is: same state and results, *)
(* and it calls the task reversible if and only if rollback_task would     *)
(* accept it.  A request that has no task has no receipt.                  *)
LatestReceiptCurrent ==
  /\ \A r \in DOMAIN tasks :
       /\ ledger[r] # << >>
       /\ LET latest == ledger[r][Len(ledger[r])]
          IN  /\ latest.state = tasks[r].state
              /\ latest.results = tasks[r].results
              /\ latest.reversible <=> RollbackEligible(tasks[r])
  /\ \A r \in Requests \ DOMAIN tasks : ledger[r] = << >>

(* What every step preserves, and what the two properties above and        *)
(* RunsUnderConsent follow from.  A stored task is in a state handlers     *)
(* store; its approval, if it has one, is for its own intent, over the     *)
(* channel of the planned capability, with a token that has been drawn.    *)
ResultsBacked(task) ==
  \A i \in DOMAIN task.results :
    task.results[i].status = "verified" => task.results[i].evidence

ApprovalConsistent(task) ==
  /\ Decision(task.intent) = "require_approval"
  /\ task.approval.payload = task.intent
  /\ task.approval.channel = Registry[PlanFor(task.intent)[1].capability].channel
  /\ task.approval.token \in 0..lastToken
  /\ task.approval.status = "pending" <=> task.approval.token # 0

TaskConsistent(task) ==
  /\ task.state \in {"awaiting_approval", "denied", "completed", "failed", "rolled_back"}
  /\ Pending(task) <=> task.state = "awaiting_approval"
  /\ task.approval # NoApproval => ApprovalConsistent(task)
  /\ ResultsBacked(task)

StoredConsistent ==
  /\ \A r \in DOMAIN tasks : TaskConsistent(tasks[r])
  /\ \A r \in DOMAIN tasks : \A q \in DOMAIN tasks \ {r} :
       Pending(tasks[r]) /\ Pending(tasks[q])
         => tasks[r].approval.token # tasks[q].approval.token

(* The call in flight works on the task it will overwrite.                 *)
FlightConsistent ==
  /\ op # Idle => ResultsBacked(op.draft)
  /\ op.kind = "create" =>
       /\ op.request \notin DOMAIN tasks
       /\ op.draft.approval = NoApproval
       /\ Decision(op.draft.intent) = "allow"
  /\ op.kind = "approve" =>
       /\ op.request \in DOMAIN tasks
       /\ Pending(tasks[op.request])
       /\ op.draft.approval = tasks[op.request].approval
       /\ op.draft.intent = tasks[op.request].intent
       /\ op.session = op.draft.session
       /\ op.channel = op.draft.approval.channel
       /\ op.payload = op.draft.intent
  /\ op.kind = "rollback" =>
       /\ op.request \in DOMAIN tasks
       /\ op.draft = tasks[op.request]
       /\ RollbackEligible(op.draft)

CoreInv == TypeOK /\ StoredConsistent /\ FlightConsistent

(* As long as no exception has escaped an execution, the event trail of a  *)
(* task takes only transitions of the state contract, although each handler*)
(* validates against the stored state or a constant, and with no call in   *)
(* flight the latest receipt holds all of it.  So a denied task was never  *)
(* executed: the console tells the user that no write occurred.            *)
UndisturbedTrails ==
  faults = 0 =>
    \A r \in DOMAIN tasks :
      /\ LegalTrail(tasks[r].events)
      /\ op = Idle => Last(ledger[r]).events = tasks[r].events

(* What these trails, and the contract, need beside CoreInv: a result that *)
(* rollback_task can undo is that of a task an approval was asked for; the *)
(* call in flight has entered on the trail what it is doing, on the stored *)
(* task as well if there is one; and without an exception so far, a stored *)
(* trail ends in the state of its task unless a call is at work on it.     *)
UndoBacked(task) ==
  task.approval = NoApproval =>
    \A i \in DOMAIN task.results : task.results[i].capability \notin UndoableCapabilities

FlightTrail ==
  /\ op # Idle => UndoBacked(op.draft)
  /\ op.kind = "create" => op.draft.events = <<"received", "planned", "executing">>
  /\ op.kind = "approve" =>
       /\ op.draft.events = tasks[op.request].events
       /\ op.draft.session = tasks[op.request].session
       /\ Last(op.draft.events) = "executing"
  /\ op.kind = "rollback" => Last(op.draft.events) = "rolling_back"

AtRest(r) == op = Idle \/ op.request # r

TrailEndsInState ==
  faults = 0 =>
    \A r \in DOMAIN tasks :
      /\ LegalTrail(tasks[r].events)
      /\ AtRest(r) => /\ Last(tasks[r].events) = tasks[r].state
                      /\ Last(ledger[r]).events = tasks[r].events

(* The approval of a task starts an execution each time it is granted.  It *)
(* can be granted again only if an exception has let an execution go       *)
(* before the approval was settled: there are at most as many grants as    *)
(* exceptions, and one more; the last one only once the approval is used   *)
(* up or being used.                                                       *)
Grants(task) == Cardinality(Occurrences(task.events, "approved"))

GrantsCounted ==
  \A r \in DOMAIN tasks :
    /\ Grants(tasks[r]) <= 1 + faults
    /\ Pending(tasks[r]) /\ AtRest(r) => Grants(tasks[r]) <= faults

ServiceInv ==
  /\ CoreInv
  /\ \A r \in DOMAIN tasks : UndoBacked(tasks[r])
  /\ FlightTrail
  /\ LatestReceiptCurrent
  /\ ReceiptsTellTheTrail
  /\ TrailEndsInState
  /\ GrantsCounted

(* An approval authorises at most one execution.                           *)
TokenGrantedOnce ==
  \A r \in DOMAIN tasks : Grants(tasks[r]) <= 1

(* A refused, failed or undone task never changes again, a completed one   *)
(* only through its undo, and no receipt is ever altered or dropped, as    *)
(* long as the process lives.                                              *)
HistoryIsFinal ==
  [][restarts' = restarts =>
       \A r \in DOMAIN tasks :
         /\ r \in DOMAIN tasks'
         /\ IsPrefix(ledger[r], ledger'[r])
         /\ IsPrefix(tasks[r].events, tasks'[r].events)
         /\ tasks[r].state \in {"denied", "failed", "rolled_back"}
              => tasks'[r] = tasks[r]
         /\ tasks[r].state = "completed"
              => tasks'[r].state \in {"completed", "rolled_back", "failed"}
         /\ tasks'[r].session = tasks[r].session /\ tasks'[r].intent = tasks[r].intent
    ]_vars

(* Where an action of the abstract contract stands.                        *)
PhaseOf(r) ==
  IF op # Idle /\ op.request = r
    THEN IF op.kind = "rollback" THEN "undoing" ELSE "acting"
  ELSE IF r \notin DOMAIN tasks THEN "absent"
  ELSE CASE tasks[r].state = "awaiting_approval" -> "waiting"
         [] tasks[r].state = "denied"            -> "refused"
         [] tasks[r].state = "completed"         -> "done"
         [] tasks[r].state = "rolled_back"       -> "undone"
         [] OTHER                                -> "failed"

Gated == {r \in DOMAIN tasks : tasks[r].approval # NoApproval}

Contract == INSTANCE ApprovedAction
              WITH Actions <- Requests,
                   phase   <- [r \in Requests |-> PhaseOf(r)],
                   gated   <- Gated

(* The service implements the contract.                                    *)
ImplementsContract == Contract!Spec

(* A granted execution is over at some point: its task is settled and its  *)
(* receipt written, unless a restart forgets it or an exception escapes.   *)
Granted(r) == op.kind = "approve" /\ op.request = r

Settled(r) == tasks[r].state \in {"completed", "failed", "rolled_back"}

GrantSettles ==
  \A r \in Requests : \A n \in 0..MaxFaults :
    (op # Idle /\ Granted(r) /\ faults = n)
      ~> (r \notin DOMAIN tasks \/ Settled(r) \/ faults > n)
=============================================================================
