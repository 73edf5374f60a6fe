-------------------------- MODULE CoreServiceProofs --------------------------
(***************************************************************************)
(* Theorems about CoreService, for every set of requests, sessions,        *)
(* intents and contents and every value of the bounds.                     *)
(***************************************************************************)
EXTENDS CoreService, TLAPS

-----------------------------------------------------------------------------
(* What the helpers on tasks, approvals and receipts return.               *)

(* A sequence stays one over its set when an element of it is added.        *)
LEMMA AppendType ==
  ASSUME NEW S, NEW q \in Seq(S), NEW x \in S
  PROVE  Append(q, x) \in Seq(S)
  OBVIOUS

(* Logging an event changes the trail of a task and nothing else.          *)
LEMMA LogFields ==
  ASSUME NEW t \in Task, NEW s \in TaskState
  PROVE  /\ Log(t, s) \in Task
         /\ Log(t, s) = [t EXCEPT !.events = Append(t.events, s)]
         /\ Log(t, s).state = t.state
         /\ Log(t, s).approval = t.approval
         /\ Log(t, s).intent = t.intent
         /\ Log(t, s).session = t.session
         /\ Log(t, s).results = t.results
         /\ Log(t, s).events = Append(t.events, s)
<1>0. t.events \in Seq(TaskState)  BY DEF Task
<1>1. PICK e \in Seq(TaskState) : e = Append(t.events, s)
  <2>1. Append(t.events, s) \in Seq(TaskState)  BY ONLY <1>0, s \in TaskState, AppendType
  <2> QED BY ONLY <2>1, Zenon
<1>2. Log(t, s) = [t EXCEPT !.events = e]  BY <1>1 DEF Log
<1>3. /\ [t EXCEPT !.events = e] \in Task
      /\ [t EXCEPT !.events = e].state = t.state /\ [t EXCEPT !.events = e].approval = t.approval
      /\ [t EXCEPT !.events = e].intent = t.intent /\ [t EXCEPT !.events = e].session = t.session
      /\ [t EXCEPT !.events = e].results = t.results /\ [t EXCEPT !.events = e].events = e
  BY ONLY t \in Task, e \in Seq(TaskState) DEF Task
<1> QED BY ONLY <1>1, <1>2, <1>3

(* Entering a state logs it and stores it.                                 *)
LEMMA EnterFields ==
  ASSUME NEW t \in Task, NEW s \in TaskState
  PROVE  /\ Enter(t, s) \in Task
         /\ Enter(t, s).state = s
         /\ Enter(t, s).approval = t.approval
         /\ Enter(t, s).intent = t.intent
         /\ Enter(t, s).session = t.session
         /\ Enter(t, s).results = t.results
         /\ Enter(t, s).events = Append(t.events, s)
<1>1. PICK u \in Task : /\ u = Log(t, s)
                       /\ u.approval = t.approval /\ u.intent = t.intent
                       /\ u.session = t.session /\ u.results = t.results
                       /\ u.events = Append(t.events, s)
  BY LogFields
<1>2. Enter(t, s) = [u EXCEPT !.state = s]  BY <1>1 DEF Enter
<1>3. /\ [u EXCEPT !.state = s] \in Task
      /\ [u EXCEPT !.state = s].state = s /\ [u EXCEPT !.state = s].approval = u.approval
      /\ [u EXCEPT !.state = s].intent = u.intent /\ [u EXCEPT !.state = s].session = u.session
      /\ [u EXCEPT !.state = s].results = u.results /\ [u EXCEPT !.state = s].events = u.events
  BY ONLY u \in Task, s \in TaskState DEF Task
<1> QED BY ONLY <1>1, <1>2, <1>3

(* Settling an approval takes its token away.                              *)
LEMMA SettleFields ==
  ASSUME NEW a \in Approval, NEW s \in ApprovalStatus
  PROVE  /\ Settle(a, s) \in Approval
         /\ Settle(a, s).status = s
         /\ Settle(a, s).token = 0
         /\ Settle(a, s).payload = a.payload
         /\ Settle(a, s).channel = a.channel
         /\ Settle(a, s) # NoApproval
  BY DEF Settle, Approval, NoApproval

(* Replacing the approval of a task changes nothing else.                  *)
LEMMA ApprovalField ==
  ASSUME NEW t \in Task, NEW a \in Approval
  PROVE  /\ [t EXCEPT !.approval = a] \in Task
         /\ [t EXCEPT !.approval = a].approval = a
         /\ [t EXCEPT !.approval = a].state = t.state
         /\ [t EXCEPT !.approval = a].intent = t.intent
         /\ [t EXCEPT !.approval = a].session = t.session
         /\ [t EXCEPT !.approval = a].results = t.results
         /\ [t EXCEPT !.approval = a].events = t.events
  BY DEF Task

(* The receipt of a task is a receipt.                                     *)
LEMMA ReceiptType ==
  ASSUME NEW t \in Task, NEW v \in Nat
  PROVE  ReceiptOf(t, v) \in Receipt
<1>1. ReceiptVerified(t) \in BOOLEAN  BY DEF ReceiptVerified
<1>2. ReceiptReversible(t) \in BOOLEAN  BY DEF ReceiptReversible
<1> QED BY <1>1, <1>2 DEF ReceiptOf, Receipt, Task

(* A receipt's version is a natural number.                                *)
LEMMA VersionType ==
  ASSUME NEW h \in Seq(Receipt)
  PROVE  NextVersion(h) \in Nat
<1>1. CASE h = << >>  BY <1>1 DEF NextVersion
<1>2. CASE h # << >>
  <2>1. h[Len(h)] \in Receipt  BY <1>2
  <2> QED BY <1>2, <2>1 DEF NextVersion, Receipt
<1> QED BY <1>1, <1>2

(* Storing a task keeps the dictionary and the ledger well typed.          *)
LEMMA StoreType ==
  ASSUME NEW r \in Requests, NEW t \in Task, TypeOK, Store(r, t)
  PROVE  /\ DOMAIN tasks' = DOMAIN tasks \cup {r}
         /\ DOMAIN tasks' \subseteq Requests
         /\ tasks' \in [DOMAIN tasks' -> Task]
         /\ tasks'[r] = t
         /\ \A q \in DOMAIN tasks \ {r} : tasks'[q] = tasks[q]
         /\ ledger' \in [Requests -> Seq(Receipt)]
<1>1. tasks' = Put(tasks, r, t)  BY DEF Store
<1>2. tasks \in [DOMAIN tasks -> Task] /\ DOMAIN tasks \subseteq Requests  BY DEF TypeOK
<1>3. ledger[r] \in Seq(Receipt)  BY DEF TypeOK
<1>4. ReceiptOf(t, NextVersion(ledger[r])) \in Receipt  BY <1>3, VersionType, ReceiptType
<1>5. Append(ledger[r], ReceiptOf(t, NextVersion(ledger[r]))) \in Seq(Receipt)  BY <1>3, <1>4
<1>6. ledger' \in [Requests -> Seq(Receipt)]  BY <1>5 DEF Store, TypeOK
<1>7. /\ DOMAIN Put(tasks, r, t) = DOMAIN tasks \cup {r}
      /\ Put(tasks, r, t) \in [DOMAIN Put(tasks, r, t) -> Task]
      /\ Put(tasks, r, t)[r] = t
      /\ \A q \in DOMAIN tasks \ {r} : Put(tasks, r, t)[q] = tasks[q]
  BY <1>2 DEF Put
<1> QED BY <1>1, <1>2, <1>6, <1>7

-----------------------------------------------------------------------------
(* What the planner and the policy make of an intent.                      *)

(* A step the policy does not deny is registered, and the policy is the one *)
(* of its manifest.                                                        *)
LEMMA StepOutcome ==
  ASSUME NEW step
  PROVE  /\ EvaluateStep(step) # "deny" => step.capability \in Registered
         /\ EvaluateStep(step) = "allow" => ~NeedsApproval(step.capability)
         /\ EvaluateStep(step) = "require_approval" => NeedsApproval(step.capability)
  BY DEF EvaluateStep, NeedsApproval

(* A plan that is not denied has only registered steps, and a plan that is   *)
(* allowed has none that needs an approval.                                *)
LEMMA VerdictOfSteps ==
  ASSUME NEW plan
  PROVE  /\ Verdict(plan) # "deny" =>
              \A k \in DOMAIN plan : plan[k].capability \in Registered
         /\ Verdict(plan) = "allow" =>
              \A k \in DOMAIN plan : ~NeedsApproval(plan[k].capability)
<1>1. ASSUME NEW k \in DOMAIN plan
      PROVE  EvaluateStep(plan[k]) \in Outcomes(plan)
  BY DEF Outcomes
<1>2. ASSUME NEW k \in DOMAIN plan
      PROVE  EvaluateStep(plan[k]) \in {"deny", "require_approval", "allow"}
  BY DEF EvaluateStep
<1> QED BY <1>1, <1>2, StepOutcome DEF Verdict

(* Every plan is a sequence of one step, or of the briefing's four.         *)
LEMMA PlanShape ==
  ASSUME NEW kind \in IntentKind
  PROVE  /\ Len(PlanOf(kind)) \in {1, 4}
         /\ DOMAIN PlanOf(kind) = 1..Len(PlanOf(kind))
<1> DEFINE Shape(plan) == Len(plan) \in {1, 4} /\ DOMAIN plan = 1..Len(plan)
<1>1. \A a : Shape(<<a>>)  OBVIOUS
<1>2. \A a, b, c, d : Shape(<<a, b, c, d>>)  OBVIOUS
<1> HIDE DEF Shape
<1>3. Shape(PlanOf(kind))
  BY <1>1, <1>2 DEF PlanOf, IntentKind
<1> QED BY <1>3 DEF Shape

(* Only the note and the Notepad plan wait for an approval.                 *)
LEMMA ApprovalPlans ==
  ASSUME NEW i, i.kind \in IntentKind, Decision(i) = "require_approval"
  PROVE  \/ PlanFor(i) = << PlanStep("workspace.create_note", "medium", TRUE) >>
         \/ PlanFor(i) = << PlanStep("device.launch_notepad", "high", TRUE) >>
<1>1. ~InvalidNote(i) /\ Verdict(PlanOf(i.kind)) = "require_approval" /\ PlanFor(i) = PlanOf(i.kind)
  BY DEF Decision, PlanFor
<1>2. PICK k \in DOMAIN PlanOf(i.kind) : EvaluateStep(PlanOf(i.kind)[k]) = "require_approval"
  BY <1>1 DEF Verdict, Outcomes
<1>3. NeedsApproval(PlanOf(i.kind)[k].capability)
  BY <1>2, StepOutcome
<1>4. PlanOf(i.kind)[k].capability \in NoteCapabilities \cup DeviceCapabilities
  BY <1>3 DEF NeedsApproval, Registry
<1>5. CASE i.kind \in {"create_note", "launch_notepad"}
  BY <1>1, <1>5 DEF PlanOf
<1>6. CASE i.kind = "daily_briefing"
  BY <1>1, <1>2, <1>4, <1>6 DEF PlanOf, PlanStep, NoteCapabilities, DeviceCapabilities
<1>7. CASE i.kind \notin {"create_note", "launch_notepad", "daily_briefing"}
  <2> DEFINE X == NoteCapabilities \cup DeviceCapabilities
             Single(plan) == DOMAIN plan = {1} /\ plan[1].capability \notin X
  <2>0. \A c, risk, reversible : c \notin X => Single(<< PlanStep(c, risk, reversible) >>)
    BY DEF PlanStep
  <2>3. \A c \in {"assistant.respond", "nexuss.read_health", "workspace.read_status",
                  "device.workspace.prepare", "media.prepare_playback", "ats.read_intelligence",
                  "ats.write_order", "finance.transfer", "social.publish", "nexuss.unsupported"} :
          c \notin X
    BY DEF NoteCapabilities, DeviceCapabilities
  <2> HIDE DEF X, Single
  <2>4. \A risk, reversible :
          \A c \in {"assistant.respond", "nexuss.read_health", "workspace.read_status",
                    "device.workspace.prepare", "media.prepare_playback", "ats.read_intelligence",
                    "ats.write_order", "finance.transfer", "social.publish", "nexuss.unsupported"} :
            Single(<< PlanStep(c, risk, reversible) >>)
    BY ONLY <2>0, <2>3
  <2>5. i.kind \in IntentKind \ {"create_note", "launch_notepad", "daily_briefing"}
    BY <1>7
  <2>6. Single(PlanOf(i.kind))  BY ONLY <2>4, <2>5 DEF PlanOf, IntentKind
  <2>1. DOMAIN PlanOf(i.kind) = {1} /\ PlanOf(i.kind)[1].capability \notin X
    BY <2>6 DEF Single
  <2>2. k = 1  BY <2>1
  <2> QED BY ONLY <1>4, <2>1, <2>2 DEF X
<1> QED BY <1>5, <1>6, <1>7

(* The channel asked for is the channel of the manifest.                   *)
LEMMA ApprovalForConsistent ==
  ASSUME TypeOK, NEW i \in Intents, NEW n \in Nat \ {0}, Decision(i) = "require_approval"
  PROVE  /\ ApprovalFor(i, n) \in Approval
         /\ ApprovalFor(i, n) # NoApproval
         /\ ApprovalFor(i, n).status = "pending"
         /\ ApprovalFor(i, n).payload = i
         /\ ApprovalFor(i, n).token = n
         /\ ApprovalFor(i, n).channel = Registry[PlanFor(i)[1].capability].channel
<1>1. i.kind \in IntentKind  BY IntentsAssumption
<1>2. PlanFor(i)[1].capability \in {"workspace.create_note", "device.launch_notepad"}
  BY <1>1, ApprovalPlans DEF PlanStep
<1>3. ApprovalFor(i, n).channel = Registry[PlanFor(i)[1].capability].channel
  BY <1>2 DEF ApprovalFor, Registry, Registered, ManifestChannel, NoteCapabilities,
              DeviceCapabilities
<1>4. now + Lifetime \in Nat  BY LifetimeAssumption, BoundsAssumption DEF TypeOK
<1> QED BY <1>3, <1>4 DEF ApprovalFor, Approval, ApprovalStatus, Channel, NoApproval

-----------------------------------------------------------------------------
(* The inductive invariant.                                                *)

(* Storing a consistent task keeps all stored tasks consistent, if its     *)
(* token, should it still be live, is a fresh one.                         *)
LEMMA StoreConsistent ==
  ASSUME TypeOK, StoredConsistent,
         NEW r \in Requests, NEW t \in Task, Store(r, t),
         lastToken' \in Nat, lastToken <= lastToken',
         TaskConsistent(t)',
         Pending(t) => t.approval.token > lastToken
  PROVE  StoredConsistent'
<1>1. /\ DOMAIN tasks' = DOMAIN tasks \cup {r}
      /\ tasks'[r] = t
      /\ \A q \in DOMAIN tasks \ {r} : tasks'[q] = tasks[q]
  BY StoreType
<1>2. ASSUME NEW q \in DOMAIN tasks
      PROVE  /\ TaskConsistent(tasks[q])
             /\ Pending(tasks[q]) => tasks[q].approval.token \in 0..lastToken
  BY DEF StoredConsistent, TaskConsistent, ApprovalConsistent, Pending
<1>3. ASSUME NEW q \in DOMAIN tasks'
      PROVE  TaskConsistent(tasks[q])'
  <2>1. CASE q = r  BY <2>1, <1>1 DEF TaskConsistent, ApprovalConsistent, Pending, ResultsBacked
  <2>2. CASE q # r
    <3>1. tasks'[q] = tasks[q] /\ TaskConsistent(tasks[q])  BY <2>2, <1>1, <1>2
    <3>2. \A k : k \in 0..lastToken => k \in 0..lastToken'  BY DEF TypeOK
    <3> QED BY <3>1, <3>2 DEF TaskConsistent, ApprovalConsistent, Pending, ResultsBacked
  <2> QED BY <2>1, <2>2
<1>4. ASSUME NEW q \in DOMAIN tasks', NEW p \in DOMAIN tasks' \ {q},
             Pending(tasks'[q]), Pending(tasks'[p])
      PROVE  tasks'[q].approval.token # tasks'[p].approval.token
  <2>1. CASE q = r
    <3>1. tasks'[p] = tasks[p] /\ p \in DOMAIN tasks  BY <2>1, <1>1
    <3>2. tasks[p].approval.token \in 0..lastToken  BY <3>1, <1>2, <1>4
    <3>3. t.approval.token > lastToken  BY <2>1, <1>1, <1>4
    <3> QED BY <3>1, <3>2, <3>3, <2>1, <1>1 DEF TypeOK
  <2>2. CASE p = r
    <3>1. tasks'[q] = tasks[q] /\ q \in DOMAIN tasks  BY <2>2, <1>1
    <3>2. tasks[q].approval.token \in 0..lastToken  BY <3>1, <1>2, <1>4
    <3>3. t.approval.token > lastToken  BY <2>2, <1>1, <1>4
    <3> QED BY <3>1, <3>2, <3>3, <2>2, <1>1 DEF TypeOK
  <2>3. CASE q # r /\ p # r
    BY <2>3, <1>1, <1>4 DEF StoredConsistent
  <2> QED BY <2>1, <2>2, <2>3
<1> QED BY <1>3, <1>4 DEF StoredConsistent, TaskConsistent, ApprovalConsistent, Pending, ResultsBacked

(* A call that ends by storing a consistent task restores the invariant.   *)
LEMMA StoreStep ==
  ASSUME TypeOK, StoredConsistent,
         NEW r \in Requests, NEW t \in Task, Store(r, t),
         op' = Idle, UNCHANGED <<now, faults, restarts>>,
         lastToken' \in Nat, lastToken <= lastToken',
         TaskConsistent(t)',
         Pending(t) => t.approval.token > lastToken
  PROVE  CoreInv'
<1>1. TypeOK'  BY StoreType DEF TypeOK
<1>2. StoredConsistent'  BY StoreConsistent
<1>3. FlightConsistent'  BY DEF FlightConsistent, Idle
<1> QED BY <1>1, <1>2, <1>3 DEF CoreInv

(* A planned task is a task without an approval or results.                *)
LEMMA PlannedFields ==
  ASSUME NEW caller \in Callers, NEW i \in Intents
  PROVE  /\ Planned(caller, i) \in Task
         /\ Planned(caller, i).approval = NoApproval
         /\ Planned(caller, i).intent = i
         /\ Planned(caller, i).session = caller.session
         /\ Planned(caller, i).results = << >>
  BY DEF Planned, Task, Callers, TaskState

(* A stored task that needs an approval keeps the approval's facts when    *)
(* the approval is settled and the task enters a final state.              *)
LEMMA SettledConsistent ==
  ASSUME TypeOK, NEW t \in Task, t.approval # NoApproval, ApprovalConsistent(t),
         ResultsBacked(t),
         t.state \in {"denied", "completed", "failed", "rolled_back"},
         NEW s \in {"rejected", "expired", "consumed"}
  PROVE  LET u == [t EXCEPT !.approval = Settle(@, s)]
         IN  u \in Task /\ TaskConsistent(u) /\ ~Pending(u)
<1> DEFINE u == [t EXCEPT !.approval = Settle(t.approval, s)]
<1>1. t.approval \in Approval  BY DEF Task
<1>2. s \in ApprovalStatus  BY DEF ApprovalStatus
<1>3. /\ Settle(t.approval, s) \in Approval
      /\ Settle(t.approval, s).status = s
      /\ Settle(t.approval, s).token = 0
      /\ Settle(t.approval, s).payload = t.approval.payload
      /\ Settle(t.approval, s).channel = t.approval.channel
      /\ Settle(t.approval, s) # NoApproval
  BY <1>1, <1>2, SettleFields
<1>4. /\ u \in Task
      /\ u.approval = Settle(t.approval, s)
      /\ u.state = t.state
      /\ u.intent = t.intent
      /\ u.results = t.results
  BY <1>3, ApprovalField
<1> HIDE DEF u
<1>5. ~Pending(u)  BY <1>3, <1>4 DEF Pending
<1>6. 0 \in 0..lastToken  BY DEF TypeOK
<1>7. ApprovalConsistent(u)
  BY <1>3, <1>4, <1>6 DEF ApprovalConsistent
<1>8. ResultsBacked(u)  BY <1>4 DEF ResultsBacked
<1>9. TaskConsistent(u)  BY <1>4, <1>5, <1>7, <1>8 DEF TaskConsistent
<1> QED BY <1>4, <1>5, <1>9 DEF u

(* Consistency of a task looks at nothing of the state but lastToken.      *)
LEMMA ConsistentCarries ==
  ASSUME NEW t, TaskConsistent(t), UNCHANGED lastToken
  PROVE  TaskConsistent(t)'
  BY DEF TaskConsistent, ApprovalConsistent, Pending, ResultsBacked

-----------------------------------------------------------------------------
(* create_task.                                                            *)

(* create_task with a denied plan.                                         *)
LEMMA CreateDeniedStep ==
  ASSUME CoreInv, NEW r \in Requests, NEW caller \in Callers, NEW i \in Intents,
         CreateDenied(r, caller, i)
  PROVE  CoreInv'
<1> DEFINE t == Enter(Planned(caller, i), "denied")
<1>1. Planned(caller, i) \in Task /\ "denied" \in TaskState  BY PlannedFields DEF TaskState
<1>2. /\ t \in Task /\ t.state = "denied" /\ t.approval = NoApproval /\ t.results = << >>
  BY <1>1, PlannedFields, EnterFields
<1>3. Store(r, t) /\ op' = Idle /\ UNCHANGED <<now, lastToken, faults, restarts>>
  BY DEF CreateDenied, NewRequest
<1> HIDE DEF t
<1>4. TaskConsistent(t) /\ ~Pending(t)
  BY <1>2 DEF TaskConsistent, Pending, ResultsBacked
<1>5. TaskConsistent(t)'  BY <1>3, <1>4, ConsistentCarries
<1> QED BY <1>2, <1>3, <1>4, <1>5, StoreStep DEF CoreInv, TypeOK

(* create_task with a plan that needs consent: the fresh token is pending at *)
(* no other task.                                                          *)
LEMMA CreateAwaitingStep ==
  ASSUME CoreInv, NEW r \in Requests, NEW caller \in Callers, NEW i \in Intents,
         CreateAwaiting(r, caller, i)
  PROVE  CoreInv'
<1> DEFINE n == lastToken + 1
           a == ApprovalFor(i, n)
           p == Enter(Planned(caller, i), "awaiting_approval")
           t == [p EXCEPT !.approval = a]
<1>1. n \in Nat \ {0} /\ lastToken' = n /\ n > lastToken /\ lastToken \in Nat
  BY DEF CoreInv, TypeOK, CreateAwaiting
<1>2. Decision(i) = "require_approval" /\ op' = Idle /\ UNCHANGED <<now, faults, restarts>>
  BY DEF CreateAwaiting, NewRequest
<1>3. Store(r, t)  BY DEF CreateAwaiting
<1>4. /\ a \in Approval /\ a # NoApproval /\ a.status = "pending" /\ a.payload = i
      /\ a.token = n /\ a.channel = Registry[PlanFor(i)[1].capability].channel
  BY <1>1, <1>2, ApprovalForConsistent DEF CoreInv
<1>5. /\ p \in Task /\ p.state = "awaiting_approval" /\ p.intent = i /\ p.results = << >>
  <2>1. PICK q \in Task : q = Planned(caller, i) /\ q.intent = i /\ q.results = << >>
    BY PlannedFields
  <2>2. "awaiting_approval" \in TaskState  BY DEF TaskState
  <2>3. /\ Enter(q, "awaiting_approval") \in Task
        /\ Enter(q, "awaiting_approval").state = "awaiting_approval"
        /\ Enter(q, "awaiting_approval").intent = q.intent
        /\ Enter(q, "awaiting_approval").results = q.results
    BY ONLY q \in Task, <2>2, EnterFields
  <2> QED BY ONLY <2>1, <2>3
<1> HIDE DEF p, a
<1>6. /\ t \in Task /\ t.state = "awaiting_approval" /\ t.intent = i /\ t.results = << >>
      /\ t.approval = a
  BY <1>4, <1>5, ApprovalField
<1> HIDE DEF t
<1>7. PICK u \in Task : u = t  BY <1>6
<1>8. ApprovalConsistent(u)'
  BY <1>1, <1>2, <1>4, <1>6, <1>7 DEF ApprovalConsistent
<1>9. Pending(u) /\ Pending(u)'  BY <1>4, <1>6, <1>7 DEF Pending
<1>10. TaskConsistent(u)'
  BY <1>6, <1>7, <1>8, <1>9 DEF TaskConsistent, ResultsBacked
<1>11. u.approval.token > lastToken /\ Store(r, u)  BY <1>1, <1>3, <1>4, <1>6, <1>7
<1> QED BY <1>1, <1>2, <1>10, <1>11, StoreStep DEF CoreInv

(* create_task with an allowed plan: the call executes without an approval. *)
LEMMA CreateExecutingStep ==
  ASSUME CoreInv, NEW r \in Requests, NEW caller \in Callers, NEW i \in Intents,
         CreateExecuting(r, caller, i)
  PROVE  CoreInv'
<1> DEFINE d == Log(Planned(caller, i), "executing")
<1>1. /\ d \in Task /\ d.approval = NoApproval /\ d.intent = i /\ d.results = << >>
  BY PlannedFields, LogFields DEF TaskState
<1>2. /\ op' = [kind |-> "create", request |-> r, session |-> caller.session,
                channel |-> "desktop", payload |-> i, draft |-> d]
      /\ r \notin DOMAIN tasks
      /\ Decision(i) = "allow"
      /\ UNCHANGED <<now, tasks, ledger, lastToken, faults, restarts>>
  BY DEF CreateExecuting, NewRequest
<1> HIDE DEF d
<1>3. op' \in Frame  BY <1>1, <1>2 DEF Frame, Callers, Channel
<1>4. TypeOK'  BY <1>2, <1>3 DEF CoreInv, TypeOK
<1>5. StoredConsistent'
  <2>1. UNCHANGED <<tasks, ledger, lastToken>>  BY <1>2
  <2> QED BY <2>1 DEF CoreInv, StoredConsistent, TaskConsistent, ApprovalConsistent, Pending,
                      ResultsBacked
<1>6. FlightConsistent'
  BY <1>1, <1>2 DEF FlightConsistent, ResultsBacked
<1> QED BY <1>4, <1>5, <1>6 DEF CoreInv

-----------------------------------------------------------------------------
(* approve_task.                                                           *)

(* Denying a task that awaits a decision and settling its approval.        *)
LEMMA DenialStep ==
  ASSUME CoreInv, NEW r, NEW caller, Decidable(r, caller),
         NEW s \in {"rejected", "expired"},
         Store(r, [Enter(tasks[r], "denied") EXCEPT !.approval = Settle(@, s)]),
         UNCHANGED <<now, op, lastToken, faults, restarts>>
  PROVE  CoreInv'
<1>1. PICK w \in Task : w = tasks[r]
  BY DEF CoreInv, TypeOK, Decidable
<1>2. r \in Requests /\ op' = Idle /\ w.approval # NoApproval
  BY <1>1 DEF CoreInv, TypeOK, Decidable
<1>3. TaskConsistent(w)  BY <1>1 DEF CoreInv, StoredConsistent, Decidable
<1>4. PICK e \in Task : e = Enter(w, "denied")  BY EnterFields DEF TaskState
<1>5. /\ e.state = "denied" /\ e.approval = w.approval /\ e.intent = w.intent
      /\ e.results = w.results
  BY <1>4, EnterFields DEF TaskState
<1>6. e.approval # NoApproval /\ ApprovalConsistent(e) /\ ResultsBacked(e)
  BY <1>2, <1>3, <1>5 DEF TaskConsistent, ApprovalConsistent, ResultsBacked
<1>7. PICK u : u = [e EXCEPT !.approval = Settle(@, s)]  OBVIOUS
<1>8. u \in Task /\ TaskConsistent(u) /\ ~Pending(u)
  BY <1>5, <1>6, <1>7, SettledConsistent DEF CoreInv
<1>9. Store(r, u)  BY <1>1, <1>4, <1>7
<1>10. TaskConsistent(u)'  BY <1>8, ConsistentCarries
<1> QED BY <1>2, <1>8, <1>9, <1>10, StoreStep DEF CoreInv, TypeOK

(* approve_task with a matching approval: the call executes under it.      *)
LEMMA GrantApprovalStep ==
  ASSUME CoreInv, NEW r, NEW caller \in Callers, NEW channel \in Channel,
         NEW approvalId, NEW token, NEW payload \in Intents,
         GrantApproval(r, caller, channel, approvalId, token, payload)
  PROVE  CoreInv'
<1>1. PICK w \in Task : w = tasks[r]
  BY DEF GrantApproval, CoreInv, TypeOK, Decidable
<1>2. /\ r \in DOMAIN tasks /\ r \in Requests
      /\ Pending(w) /\ w.state = "awaiting_approval"
      /\ caller.session = w.session
      /\ channel = w.approval.channel
      /\ payload = w.approval.payload
  BY <1>1 DEF GrantApproval, Decidable, DecisionMatches, ChannelAccepted, CoreInv, TypeOK,
              Pending, SessionValid
<1>3. TaskConsistent(w)  BY <1>1, <1>2 DEF CoreInv, StoredConsistent
<1>4. PICK d \in Task : d = Log(Log(w, "approved"), "executing")
  BY LogFields DEF TaskState
<1>5. /\ d.state = w.state /\ d.approval = w.approval /\ d.intent = w.intent
      /\ d.results = w.results /\ d.session = w.session
  <2>1. "approved" \in TaskState /\ "executing" \in TaskState  BY DEF TaskState
  <2>2. PICK e \in Task : e = Log(w, "approved")  BY <2>1, LogFields
  <2>3. d = Log(e, "executing")  BY <1>4, <2>2
  <2> QED BY <2>1, <2>2, <2>3, LogFields
<1>6. /\ tasks' = Put(tasks, r, d)
      /\ op' = [kind |-> "approve", request |-> r, session |-> caller.session,
                channel |-> channel, payload |-> payload, draft |-> d]
      /\ UNCHANGED <<now, ledger, lastToken, faults, restarts>>
  BY <1>1, <1>4 DEF GrantApproval
<1>7. /\ DOMAIN tasks' = DOMAIN tasks
      /\ tasks' \in [DOMAIN tasks' -> Task]
      /\ tasks'[r] = d
      /\ \A q \in DOMAIN tasks \ {r} : tasks'[q] = tasks[q]
  BY <1>2, <1>6 DEF Put, CoreInv, TypeOK
<1>8. op' \in Frame  BY <1>2, <1>6 DEF Frame, Callers
<1>9. TypeOK'  BY <1>6, <1>7, <1>8 DEF CoreInv, TypeOK
<1>10. StoredConsistent'
  <2>1. TaskConsistent(d)
    BY <1>3, <1>5 DEF TaskConsistent, ApprovalConsistent, Pending, ResultsBacked
  <2>2. ASSUME NEW q \in DOMAIN tasks'
        PROVE  TaskConsistent(tasks[q])'
    <3>1. PICK x : x = tasks'[q]  OBVIOUS
    <3>2. TaskConsistent(x)  BY <2>1, <3>1, <1>7 DEF CoreInv, StoredConsistent
    <3> QED BY <3>1, <3>2, <1>6, ConsistentCarries DEF TaskConsistent, ApprovalConsistent,
                                                       Pending, ResultsBacked
  <2>3. ASSUME NEW q \in DOMAIN tasks'
        PROVE  tasks'[q].approval = tasks[q].approval
    BY <1>1, <1>5, <1>7
  <2> QED BY <2>2, <2>3, <1>7 DEF CoreInv, StoredConsistent, Pending
<1>11. FlightConsistent'
  <2>1. ResultsBacked(d)  BY <1>3, <1>5 DEF TaskConsistent, ResultsBacked
  <2>2. w.approval.payload = w.intent
    BY <1>2, <1>3 DEF TaskConsistent, ApprovalConsistent, Pending
  <2> QED BY <1>2, <1>5, <1>6, <1>7, <2>1, <2>2 DEF FlightConsistent, Pending, ResultsBacked
<1> QED BY <1>9, <1>10, <1>11 DEF CoreInv

-----------------------------------------------------------------------------
(* The call in flight.                                                     *)

(* A call in flight is a frame with a task under way.                      *)
LEMMA FlightType ==
  ASSUME CoreInv, op.kind # "idle"
  PROVE  op \in Frame /\ op.request \in Requests /\ op.draft \in Task
  BY DEF CoreInv, TypeOK, Frame, Idle

(* A call in flight ends by storing a task in a final state, with the      *)
(* draft's intent and approval.                                            *)
LEMMA ConcludeStep ==
  ASSUME CoreInv, op.kind # "idle", NEW t \in Task, Conclude(t),
         t.state \in {"completed", "failed", "rolled_back"},
         t.approval = op.draft.approval, t.intent = op.draft.intent,
         ResultsBacked(t)
  PROVE  CoreInv'
<1>1. op \in Frame /\ op.draft \in Task  BY FlightType
<1>2. PICK r \in Requests : r = op.request  BY FlightType
<1>3. op' = Idle /\ UNCHANGED <<now, lastToken, faults, restarts>> /\ lastToken \in Nat
  BY DEF Conclude, CoreInv, TypeOK
<1>4. CASE op.kind = "approve"
  <2>1. /\ r \in DOMAIN tasks /\ TaskConsistent(tasks[r]) /\ Pending(tasks[r])
        /\ t.approval = tasks[r].approval /\ t.intent = tasks[r].intent
    BY <1>2, <1>4 DEF CoreInv, FlightConsistent, StoredConsistent
  <2>2. t.approval # NoApproval /\ ApprovalConsistent(t)
    BY <2>1 DEF TaskConsistent, ApprovalConsistent, Pending
  <2>3. PICK u : u = [t EXCEPT !.approval = Settle(@, "consumed")]  OBVIOUS
  <2>4. u \in Task /\ TaskConsistent(u) /\ ~Pending(u)
    BY <2>2, <2>3, SettledConsistent DEF CoreInv
  <2>5. Store(r, u)  BY <1>2, <1>4, <2>3 DEF Conclude
  <2>6. TaskConsistent(u)'  BY <1>3, <2>4, ConsistentCarries
  <2> QED BY <1>3, <2>4, <2>5, <2>6, StoreStep DEF CoreInv
<1>5. CASE op.kind # "approve"
  <2>1. Store(r, t)  BY <1>2, <1>5 DEF Conclude
  <2>2. ~Pending(t) /\ (t.approval # NoApproval => ApprovalConsistent(t))
    <3>1. CASE op.kind = "create"
      BY <3>1 DEF CoreInv, FlightConsistent, Pending
    <3>2. CASE op.kind = "rollback"
      <4>1. /\ r \in DOMAIN tasks /\ TaskConsistent(tasks[r]) /\ tasks[r].state = "completed"
            /\ t.approval = tasks[r].approval /\ t.intent = tasks[r].intent
        BY <1>2, <3>2 DEF CoreInv, FlightConsistent, StoredConsistent, RollbackEligible
      <4> QED BY <4>1 DEF TaskConsistent, ApprovalConsistent, Pending
    <3> QED BY <1>1, <1>5, <3>1, <3>2 DEF Frame
  <2>3. TaskConsistent(t)  BY <2>2 DEF TaskConsistent
  <2>4. TaskConsistent(t)'  BY <1>3, <2>3, ConsistentCarries
  <2> QED BY <1>3, <2>1, <2>2, <2>4, StoreStep DEF CoreInv
<1> QED BY <1>4, <1>5

(* Whatever a registered capability returns is a result, and a verified    *)
(* one comes with evidence.                                                *)
LEMMA ResultsOfType ==
  ASSUME NEW c \in Registered, NEW x \in ResultsOf(c)
  PROVE  x \in Result /\ (x.status = "verified" => x.evidence)
<1>1. x \in {Verified(c), FailedNoEvidence(c), FailedEvidence(c)}
  BY DEF ResultsOf
<1>2. CASE x = Verified(c)
  BY <1>2 DEF Verified, StepResult, Result, StepStatus
<1>3. CASE x = FailedNoEvidence(c)
  BY <1>3 DEF FailedNoEvidence, StepResult, Result, StepStatus
<1>4. CASE x = FailedEvidence(c)
  BY <1>4 DEF FailedEvidence, StepResult, Result, StepStatus
<1> QED BY <1>1, <1>2, <1>3, <1>4

(* The step about to run is registered: a denied plan never runs.          *)
LEMMA NextStepRegistered ==
  ASSUME CoreInv, Executing, StepsLeft
  PROVE  NextStep \in Registered
<1>1. op.kind # "idle" /\ op.draft \in Task /\ op.draft.intent \in Intents
  <2>1. op.kind # "idle"  BY DEF Executing
  <2> QED BY <2>1, FlightType DEF Task
<1>2. Decision(op.draft.intent) # "deny"
  <2>1. CASE op.kind = "create"  BY <2>1 DEF CoreInv, FlightConsistent
  <2>2. CASE op.kind = "approve"
    <3>1. /\ op.request \in DOMAIN tasks /\ Pending(tasks[op.request])
          /\ op.draft.intent = tasks[op.request].intent
      BY <2>2 DEF CoreInv, FlightConsistent
    <3> QED BY <3>1 DEF CoreInv, StoredConsistent, TaskConsistent, ApprovalConsistent, Pending
  <2> QED BY <2>1, <2>2 DEF Executing
<1>3. Plan = PlanOf(op.draft.intent.kind) /\ Verdict(Plan) # "deny"
  BY <1>2 DEF Plan, PlanFor, Decision
<1>4. op.draft.intent.kind \in IntentKind  BY <1>1, IntentsAssumption
<1>5. Len(Plan) \in Nat /\ DOMAIN Plan = 1..Len(Plan)  BY <1>3, <1>4, PlanShape
<1>6. Len(op.draft.results) \in Nat  BY <1>1 DEF Task
<1>7. Len(op.draft.results) + 1 \in DOMAIN Plan  BY <1>5, <1>6 DEF StepsLeft
<1> QED BY <1>3, <1>7, VerdictOfSteps DEF NextStep

(* One step of the plan returned a result.                                 *)
LEMMA StepReturnsStep ==
  ASSUME CoreInv, StepReturns
  PROVE  CoreInv'
<1>1. Executing /\ StepsLeft  BY DEF StepReturns
<1>2. op.kind # "idle"  BY <1>1 DEF Executing
<1>3. op \in Frame /\ op.draft \in Task  BY <1>2, FlightType
<1>4. PICK x \in ResultsOf(NextStep) : op' = [op EXCEPT !.draft.results = Append(@, x)]
  BY DEF StepReturns
<1>5. x \in Result /\ (x.status = "verified" => x.evidence)
  BY <1>1, <1>4, NextStepRegistered, ResultsOfType
<1>6. UNCHANGED <<now, tasks, ledger, lastToken, faults, restarts>>  BY DEF StepReturns
<1>7. PICK d : d = [op.draft EXCEPT !.results = Append(op.draft.results, x)]  OBVIOUS
<1>8. /\ d \in Task /\ d.approval = op.draft.approval /\ d.intent = op.draft.intent
      /\ d.session = op.draft.session /\ d.results = Append(op.draft.results, x)
  <2>1. op.draft.results \in Seq(Result)  BY <1>3 DEF Task
  <2>2. Append(op.draft.results, x) \in Seq(Result)  BY <1>5, <2>1
  <2> QED BY <1>3, <1>7, <2>2 DEF Task
<1>9. op' = [op EXCEPT !.draft = d]  BY <1>3, <1>4, <1>7 DEF Frame, Task
<1>10. /\ op' \in Frame /\ op'.kind = op.kind /\ op'.request = op.request
       /\ op'.session = op.session /\ op'.channel = op.channel
       /\ op'.payload = op.payload /\ op'.draft = d
  BY <1>3, <1>8, <1>9 DEF Frame
<1>11. TypeOK'  BY <1>6, <1>10 DEF CoreInv, TypeOK
<1>12. StoredConsistent'
  BY <1>6 DEF CoreInv, StoredConsistent, TaskConsistent, ApprovalConsistent, Pending, ResultsBacked
<1>13. ResultsBacked(d)
  <2>1. ResultsBacked(op.draft) /\ op.draft.results \in Seq(Result)
    BY <1>2, <1>3 DEF CoreInv, FlightConsistent, Idle, Task
  <2> QED BY <2>1, <1>5, <1>8 DEF ResultsBacked
<1>14. FlightConsistent'
  BY <1>1, <1>6, <1>8, <1>10, <1>13 DEF CoreInv, FlightConsistent, Executing, Pending, ResultsBacked
<1> QED BY <1>11, <1>12, <1>14 DEF CoreInv

(* The execution ends and its task is stored, settled.                     *)
LEMMA FinishExecutionStep ==
  ASSUME CoreInv, FinishExecution
  PROVE  CoreInv'
<1>1. op.kind # "idle"  BY DEF FinishExecution, Executing
<1>2. op.draft \in Task /\ ResultsBacked(op.draft)
  BY <1>1, FlightType DEF CoreInv, FlightConsistent, Idle
<1>3. PICK s \in {"completed", "failed"} : Conclude(Enter(Log(op.draft, "verifying"), s))
  BY DEF FinishExecution
<1>4. PICK l \in Task : /\ l = Log(op.draft, "verifying")
                        /\ l.approval = op.draft.approval /\ l.intent = op.draft.intent
                        /\ l.results = op.draft.results
  BY <1>2, LogFields DEF TaskState
<1>5. PICK t \in Task : /\ t = Enter(l, s)
                        /\ t.approval = op.draft.approval /\ t.intent = op.draft.intent
                        /\ t.results = op.draft.results /\ t.state = s
  <2>1. s \in TaskState  BY DEF TaskState
  <2>2. PICK t \in Task : /\ t = Enter(l, s) /\ t.approval = l.approval /\ t.intent = l.intent
                          /\ t.results = l.results /\ t.state = s
    BY ONLY l \in Task, <2>1, EnterFields
  <2> QED BY ONLY <1>4, <2>2
<1>6. ResultsBacked(t)  BY <1>2, <1>5 DEF ResultsBacked
<1> QED BY <1>1, <1>3, <1>4, <1>5, <1>6, ConcludeStep

(* The call in flight fails: in the execution or in the undo.              *)
LEMMA FailureStep ==
  ASSUME CoreInv, op.kind # "idle", Conclude(Enter(op.draft, "failed"))
  PROVE  CoreInv'
<1>1. op.draft \in Task /\ ResultsBacked(op.draft)
  BY FlightType DEF CoreInv, FlightConsistent, Idle
<1>2. PICK t \in Task : /\ t = Enter(op.draft, "failed")
                        /\ t.approval = op.draft.approval /\ t.intent = op.draft.intent
                        /\ t.results = op.draft.results /\ t.state = "failed"
  BY <1>1, EnterFields DEF TaskState
<1>3. ResultsBacked(t)  BY <1>1, <1>2 DEF ResultsBacked
<1> QED BY <1>2, <1>3, ConcludeStep

(* An exception leaves the call: the stored tasks stay as they are.        *)
LEMMA RaiseStep ==
  ASSUME CoreInv, Raise
  PROVE  CoreInv'
<1>1. /\ op' = Idle /\ faults' = faults + 1 /\ faults < MaxFaults
      /\ UNCHANGED <<now, tasks, ledger, lastToken, restarts>>
  BY DEF Raise, ExecutionRaises, RollbackRaises
<1>2. TypeOK'  BY <1>1, BoundsAssumption DEF CoreInv, TypeOK
<1>3. StoredConsistent'
  BY <1>1 DEF CoreInv, StoredConsistent, TaskConsistent, ApprovalConsistent, Pending, ResultsBacked
<1>4. FlightConsistent'  BY <1>1 DEF FlightConsistent, Idle
<1> QED BY <1>2, <1>3, <1>4 DEF CoreInv

-----------------------------------------------------------------------------
(* rollback_task.                                                          *)

(* rollback_task reaches the outside call.                                 *)
LEMMA RollbackBeginStep ==
  ASSUME CoreInv, NEW r, NEW caller \in Callers, RollbackBegin(r, caller)
  PROVE  CoreInv'
<1>1. PICK w \in Task : w = tasks[r]
  BY DEF RollbackBegin, CoreInv, TypeOK
<1>2. r \in DOMAIN tasks /\ r \in Requests /\ RollbackEligible(w)
  BY <1>1 DEF RollbackBegin, CoreInv, TypeOK
<1>3. TaskConsistent(w)  BY <1>1, <1>2 DEF CoreInv, StoredConsistent
<1>4. PICK d \in Task :
        /\ d = Log(w, "rolling_back")
        /\ d.state = w.state /\ d.approval = w.approval /\ d.intent = w.intent
        /\ d.results = w.results
  BY LogFields DEF TaskState
<1>5. /\ tasks' = Put(tasks, r, d)
      /\ op' = [kind |-> "rollback", request |-> r, session |-> caller.session,
                channel |-> "desktop", payload |-> w.intent, draft |-> d]
      /\ UNCHANGED <<now, ledger, lastToken, faults, restarts>>
  BY <1>1, <1>4 DEF RollbackBegin
<1>6. /\ DOMAIN tasks' = DOMAIN tasks
      /\ tasks' \in [DOMAIN tasks' -> Task]
      /\ tasks'[r] = d
      /\ \A q \in DOMAIN tasks \ {r} : tasks'[q] = tasks[q]
  BY <1>2, <1>5 DEF Put, CoreInv, TypeOK
<1>7. op' \in Frame  BY <1>2, <1>5 DEF Frame, Callers, Channel, Task
<1>8. TypeOK'  BY <1>5, <1>6, <1>7 DEF CoreInv, TypeOK
<1>9. TaskConsistent(d)
  BY <1>3, <1>4 DEF TaskConsistent, ApprovalConsistent, Pending, ResultsBacked
<1>10. StoredConsistent'
  <2>1. ASSUME NEW q \in DOMAIN tasks'
        PROVE  TaskConsistent(tasks[q])'
    <3>1. PICK x : x = tasks'[q]  OBVIOUS
    <3>2. TaskConsistent(x)  BY <1>9, <3>1, <1>6 DEF CoreInv, StoredConsistent
    <3> QED BY <3>1, <3>2, <1>5 DEF TaskConsistent, ApprovalConsistent, Pending, ResultsBacked
  <2>2. ASSUME NEW q \in DOMAIN tasks'
        PROVE  tasks'[q].approval = tasks[q].approval
    BY <1>1, <1>4, <1>6
  <2> QED BY <2>1, <2>2, <1>6 DEF CoreInv, StoredConsistent, Pending
<1>11. FlightConsistent'
  <2>1. RollbackEligible(d) /\ ResultsBacked(d)
    BY <1>2, <1>4, <1>9 DEF RollbackEligible, TaskConsistent
  <2> QED BY <1>2, <1>5, <1>6, <2>1 DEF FlightConsistent, ResultsBacked, RollbackEligible
<1> QED BY <1>8, <1>10, <1>11 DEF CoreInv

(* The undo was verified and its task is stored.                           *)
LEMMA RollbackSucceedsStep ==
  ASSUME CoreInv, RollbackSucceeds
  PROVE  CoreInv'
<1>1. op.kind # "idle"  BY DEF RollbackSucceeds
<1>2. op.draft \in Task /\ ResultsBacked(op.draft)
  BY <1>1, FlightType DEF CoreInv, FlightConsistent, Idle
<1>3. PICK x : x = StepResult(UndoOf(SourceResult(op.draft).capability), "rolled_back", TRUE)
  OBVIOUS
<1>4. x \in Result /\ x.status = "rolled_back"
  BY <1>3 DEF StepResult, UndoOf, Result, StepStatus, Registered, NoteCapabilities,
              DeviceCapabilities
<1>5. PICK e \in Task : /\ e = Enter(op.draft, "rolled_back")
                        /\ e.approval = op.draft.approval /\ e.intent = op.draft.intent
                        /\ e.results = op.draft.results /\ e.state = "rolled_back"
  BY <1>2, EnterFields DEF TaskState
<1>6. PICK t : t = [e EXCEPT !.results = Append(e.results, x)]  OBVIOUS
<1>7. /\ t \in Task /\ t.approval = e.approval /\ t.intent = e.intent
      /\ t.state = e.state /\ t.results = Append(e.results, x) /\ e.results \in Seq(Result)
  <2>3. e.results \in Seq(Result)  BY DEF Task
  <2>1. PICK s \in Seq(Result) : s = Append(e.results, x)
    <3>1. Append(e.results, x) \in Seq(Result)  BY ONLY <1>4, <2>3, AppendType
    <3> QED BY ONLY <3>1, Zenon
  <2>2. t = [e EXCEPT !.results = s]  BY <1>6, <2>1
  <2>4. /\ [e EXCEPT !.results = s] \in Task
        /\ [e EXCEPT !.results = s].approval = e.approval
        /\ [e EXCEPT !.results = s].intent = e.intent
        /\ [e EXCEPT !.results = s].state = e.state
        /\ [e EXCEPT !.results = s].results = s
    BY ONLY e \in Task, s \in Seq(Result) DEF Task
  <2> QED BY ONLY <2>1, <2>2, <2>3, <2>4
<1>8. ResultsBacked(t)  BY <1>2, <1>4, <1>5, <1>7 DEF ResultsBacked
<1>9. Conclude(t)  BY <1>3, <1>5, <1>6 DEF RollbackSucceeds
<1> QED BY <1>1, <1>5, <1>7, <1>8, <1>9, ConcludeStep

-----------------------------------------------------------------------------
(* Init, Next and the theorems.                                            *)

(* The service starts with nothing stored and nothing in flight.           *)
LEMMA InitInv == Init => CoreInv
<1> SUFFICES ASSUME Init PROVE CoreInv  OBVIOUS
<1>1. DOMAIN tasks = {} /\ tasks \in [{} -> Task]  BY DEF Init
<1>2. TypeOK  BY <1>1, BoundsAssumption DEF Init, TypeOK
<1>3. StoredConsistent  BY <1>1 DEF StoredConsistent
<1>4. FlightConsistent  BY DEF Init, FlightConsistent, Idle
<1> QED BY <1>2, <1>3, <1>4 DEF CoreInv

(* A restart forgets tasks, receipts and the call in flight.               *)
LEMMA RestartStep ==
  ASSUME CoreInv, Restart
  PROVE  CoreInv'
<1>1. DOMAIN tasks' = {} /\ tasks' \in [{} -> Task]  BY DEF Restart
<1>2. TypeOK'  BY <1>1, BoundsAssumption DEF Restart, CoreInv, TypeOK
<1>3. StoredConsistent'  BY <1>1 DEF StoredConsistent
<1>4. FlightConsistent'  BY DEF Restart, FlightConsistent, Idle
<1> QED BY <1>2, <1>3, <1>4 DEF CoreInv

(* Steps that leave tasks, calls and tokens alone.                         *)
LEMMA QuietStep ==
  ASSUME CoreInv, UNCHANGED <<tasks, ledger, op, lastToken, faults, restarts>>,
         now' \in 0..MaxTime
  PROVE  CoreInv'
<1>1. TypeOK'  BY DEF CoreInv, TypeOK
<1>2. StoredConsistent'
  BY DEF CoreInv, StoredConsistent, TaskConsistent, ApprovalConsistent, Pending, ResultsBacked
<1>3. FlightConsistent'
  BY DEF CoreInv, FlightConsistent, TaskConsistent, ApprovalConsistent, Pending, ResultsBacked,
         RollbackEligible, Undoable
<1> QED BY <1>1, <1>2, <1>3 DEF CoreInv

(* The invariant is inductive: one case per action.                        *)
LEMMA NextInv == CoreInv /\ [Next]_vars => CoreInv'
<1> SUFFICES ASSUME CoreInv, [Next]_vars PROVE CoreInv'  OBVIOUS
<1>1. CASE Tick
  <2>1. now' \in 0..MaxTime  BY <1>1, BoundsAssumption DEF Tick, CoreInv, TypeOK
  <2> QED BY <1>1, <2>1, QuietStep DEF Tick
<1>2. CASE Create
  <2>1. PICK r \in Requests :
          \/ DuplicateRequest(r)
          \/ \E caller \in Callers, i \in Intents :
               \/ CreateDenied(r, caller, i)
               \/ CreateAwaiting(r, caller, i)
               \/ CreateExecuting(r, caller, i)
    BY <1>2 DEF Create
  <2>2. CASE DuplicateRequest(r)
    BY <2>2, QuietStep DEF DuplicateRequest, vars, CoreInv, TypeOK
  <2> QED BY <2>1, <2>2, CreateDeniedStep, CreateAwaitingStep, CreateExecutingStep
<1>3. CASE Decide
  <2>1. PICK r \in DOMAIN tasks, caller \in Callers, channel \in Channel :
          /\ Decidable(r, caller)
          /\ \/ \E decision \in DecisionKind : ExpireApproval(r, caller, decision, channel)
             \/ \E approvalId \in Requests \X Intents, token \in 1..lastToken, payload \in Intents :
                  \/ RejectApproval(r, caller, approvalId, token, payload)
                  \/ GrantApproval(r, caller, channel, approvalId, token, payload)
    BY <1>3 DEF Decide
  <2>2. ASSUME NEW decision \in DecisionKind, ExpireApproval(r, caller, decision, channel)
        PROVE  CoreInv'
    BY <2>1, <2>2, DenialStep DEF ExpireApproval
  <2>3. ASSUME NEW approvalId \in Requests \X Intents, NEW token \in 1..lastToken,
               NEW payload \in Intents,
               RejectApproval(r, caller, approvalId, token, payload)
        PROVE  CoreInv'
    BY <2>1, <2>3, DenialStep DEF RejectApproval
  <2>4. ASSUME NEW approvalId \in Requests \X Intents, NEW token \in 1..lastToken,
               NEW payload \in Intents,
               GrantApproval(r, caller, channel, approvalId, token, payload)
        PROVE  CoreInv'
    BY <2>4, GrantApprovalStep
  <2> QED BY <2>1, <2>2, <2>3, <2>4
<1>4. CASE Rollback  BY <1>4, RollbackBeginStep DEF Rollback
<1>5. CASE Return
  <2>1. CASE ExecutionFails  BY <2>1, FailureStep DEF ExecutionFails, Executing
  <2>2. CASE RollbackFails  BY <2>2, FailureStep DEF RollbackFails
  <2> QED BY <1>5, <2>1, <2>2, StepReturnsStep, FinishExecutionStep, RollbackSucceedsStep
             DEF Return
<1>6. CASE Raise  BY <1>6, RaiseStep
<1>7. CASE Restart  BY <1>7, RestartStep
<1>8. CASE UNCHANGED vars  BY <1>8, QuietStep DEF vars, CoreInv, TypeOK
<1> QED BY <1>1, <1>2, <1>3, <1>4, <1>5, <1>6, <1>7, <1>8 DEF Next

(* The stored tasks and the call in flight are always consistent.          *)
THEOREM CoreInvariant == Spec => []CoreInv
<1>1. Init => CoreInv  BY InitInv
<1>2. CoreInv /\ [Next]_vars => CoreInv'  BY NextInv
<1> QED BY <1>1, <1>2, PTL DEF Spec

(* Every variable keeps its type.                                          *)
THEOREM TypeCorrectness == Spec => []TypeOK
<1>1. CoreInv => TypeOK  BY DEF CoreInv
<1> QED BY <1>1, CoreInvariant, PTL

(* An approval is pending, and has a token, exactly while its task awaits  *)
(* it, and no two live approvals share a token.                            *)
THEOREM ApprovalLifetime == Spec => []PendingExactlyWhileAwaiting
<1>1. CoreInv => PendingExactlyWhileAwaiting
  BY DEF CoreInv, StoredConsistent, TaskConsistent, ApprovalConsistent, Pending,
         PendingExactlyWhileAwaiting
<1> QED BY <1>1, CoreInvariant, PTL

(* Whatever needs an approval runs inside a decision of the owner, over    *)
(* the registry's channel, for the payload that was shown.                 *)
THEOREM ConsentedExecution == Spec => []RunsUnderConsent
<1>1. CoreInv => RunsUnderConsent
  <2> SUFFICES ASSUME CoreInv, Executing, NEW k \in DOMAIN Plan,
                      NeedsApproval(Plan[k].capability)
               PROVE  /\ op.kind = "approve"
                      /\ op.session = op.draft.session
                      /\ op.channel = Registry[Plan[k].capability].channel
                      /\ op.payload = op.draft.intent
    BY DEF RunsUnderConsent
  <2>1. op.kind \in {"create", "approve"}  BY DEF Executing
  <2>2. op.kind # "create"
    <3>1. SUFFICES ASSUME op.kind = "create" PROVE FALSE  OBVIOUS
    <3>2. Decision(op.draft.intent) = "allow"  BY <3>1 DEF CoreInv, FlightConsistent
    <3>3. Verdict(Plan) = "allow"  BY <3>2 DEF Decision, Plan
    <3> QED BY <3>3, VerdictOfSteps
  <2>3. /\ op.session = op.draft.session
        /\ op.channel = op.draft.approval.channel
        /\ op.payload = op.draft.intent
        /\ op.request \in DOMAIN tasks
        /\ Pending(tasks[op.request])
        /\ op.draft.approval = tasks[op.request].approval
        /\ op.draft.intent = tasks[op.request].intent
    BY <2>1, <2>2 DEF CoreInv, FlightConsistent
  <2>4. /\ Decision(op.draft.intent) = "require_approval"
        /\ op.draft.approval.channel = Registry[Plan[1].capability].channel
    BY <2>3 DEF CoreInv, StoredConsistent, TaskConsistent, ApprovalConsistent, Pending, Plan
  <2>5. op.draft.intent.kind \in IntentKind
    <3>1. op.draft \in Task  BY <2>1, FlightType
    <3> QED BY <3>1, IntentsAssumption DEF Task
  <2>6. k = 1
    <3>1. \/ Plan = << PlanStep("workspace.create_note", "medium", TRUE) >>
          \/ Plan = << PlanStep("device.launch_notepad", "high", TRUE) >>
      BY <2>4, <2>5, ApprovalPlans DEF Plan
    <3>2. PICK x : Plan = <<x>>  BY <3>1
    <3>3. DOMAIN <<x>> = {1}  OBVIOUS
    <3> QED BY <3>2, <3>3
  <2> QED BY <2>1, <2>2, <2>3, <2>4, <2>6
<1> QED BY <1>1, CoreInvariant, PTL

-----------------------------------------------------------------------------
(* The latest receipt.                                                     *)

(* The receipt just recorded for a task speaks of that task.               *)
LEMMA StoreReceipt ==
  ASSUME CoreInv, CoreInv', LatestReceiptCurrent,
         NEW r \in Requests, NEW t, Store(r, t)
  PROVE  LatestReceiptCurrent'
<1>1. /\ DOMAIN tasks' = DOMAIN tasks \cup {r}
      /\ tasks'[r] = t
      /\ \A q \in DOMAIN tasks \ {r} : tasks'[q] = tasks[q]
  BY DEF Store, Put
<1>2. t \in Task  BY <1>1 DEF CoreInv, TypeOK
<1>3. ResultsBacked(t)
  BY <1>1 DEF CoreInv, StoredConsistent, TaskConsistent, ResultsBacked
<1>4. ReceiptReversible(t) <=> RollbackEligible(t)
  BY <1>3 DEF ReceiptReversible, RollbackEligible, Undoable, ResultsBacked
<1>5. PICK x : x = ReceiptOf(t, NextVersion(ledger[r]))  OBVIOUS
<1>6. x \in Receipt
  BY <1>2, <1>5, ReceiptType, VersionType DEF CoreInv, TypeOK
<1>7. /\ ledger'[r] = Append(ledger[r], x)
      /\ \A q \in Requests \ {r} : ledger'[q] = ledger[q]
      /\ ledger[r] \in Seq(Receipt)
  BY <1>5 DEF Store, CoreInv, TypeOK
<1>8. ledger'[r] # << >> /\ ledger'[r][Len(ledger'[r])] = x
  BY <1>6, <1>7
<1>9. x.state = t.state /\ x.results = t.results /\ (x.reversible <=> RollbackEligible(t))
  BY <1>4, <1>5 DEF ReceiptOf
<1>10. ASSUME NEW q \in DOMAIN tasks'
       PROVE  /\ ledger'[q] # << >>
              /\ ledger'[q][Len(ledger'[q])].state = tasks'[q].state
              /\ ledger'[q][Len(ledger'[q])].results = tasks'[q].results
              /\ ledger'[q][Len(ledger'[q])].reversible <=> RollbackEligible(tasks'[q])
  <2>1. CASE q = r  BY <2>1, <1>1, <1>8, <1>9
  <2>2. CASE q # r
    <3>1. /\ q \in DOMAIN tasks /\ q \in Requests /\ tasks'[q] = tasks[q]
          /\ ledger'[q] = ledger[q]
      BY <2>2, <1>1, <1>7 DEF CoreInv, TypeOK
    <3> QED BY <3>1 DEF LatestReceiptCurrent
  <2> QED BY <2>1, <2>2
<1>11. ASSUME NEW q \in Requests \ DOMAIN tasks'
       PROVE  ledger'[q] = << >>
  BY <1>1, <1>7 DEF LatestReceiptCurrent
<1> QED BY <1>10, <1>11 DEF LatestReceiptCurrent, RollbackEligible, Undoable

(* Events appended to a stored task concern neither its state nor its      *)
(* results, so its receipt stays current.                                  *)
LEMMA InPlaceReceipt ==
  ASSUME CoreInv, LatestReceiptCurrent, NEW r \in DOMAIN tasks,
         NEW d, tasks' = Put(tasks, r, d), UNCHANGED ledger,
         d.state = tasks[r].state, d.results = tasks[r].results
  PROVE  LatestReceiptCurrent'
<1>1. /\ DOMAIN tasks' = DOMAIN tasks
      /\ tasks'[r] = d
      /\ \A q \in DOMAIN tasks \ {r} : tasks'[q] = tasks[q]
  BY DEF Put
<1>2. \A q \in DOMAIN tasks : RollbackEligible(tasks'[q]) <=> RollbackEligible(tasks[q])
  BY <1>1 DEF RollbackEligible
<1>3. \A q \in DOMAIN tasks : /\ tasks'[q].state = tasks[q].state
                              /\ tasks'[q].results = tasks[q].results
  BY <1>1
<1>4. /\ \A q \in DOMAIN tasks : /\ ledger[q] # << >>
                                 /\ ledger[q][Len(ledger[q])].state = tasks'[q].state
                                 /\ ledger[q][Len(ledger[q])].results = tasks'[q].results
                                 /\ ledger[q][Len(ledger[q])].reversible
                                      <=> RollbackEligible(tasks'[q])
      /\ \A q \in Requests \ DOMAIN tasks : ledger[q] = << >>
  BY <1>2, <1>3 DEF LatestReceiptCurrent
<1> QED BY ONLY <1>1, <1>4, ledger' = ledger DEF LatestReceiptCurrent, RollbackEligible, Undoable

(* Every step keeps the latest receipt of a task current.                  *)
LEMMA ReceiptStep ==
  ASSUME CoreInv, CoreInv', LatestReceiptCurrent, [Next]_vars
  PROVE  LatestReceiptCurrent'
<1>1. ASSUME UNCHANGED <<tasks, ledger>>
      PROVE  LatestReceiptCurrent'
  BY <1>1 DEF LatestReceiptCurrent, RollbackEligible, Undoable
<1>2. CASE Create
  <2>1. PICK r \in Requests :
          \/ DuplicateRequest(r)
          \/ \E caller \in Callers, i \in Intents :
               \/ CreateDenied(r, caller, i)
               \/ CreateAwaiting(r, caller, i)
               \/ CreateExecuting(r, caller, i)
    BY <1>2 DEF Create
  <2>2. CASE UNCHANGED <<tasks, ledger>>  BY <2>2, <1>1
  <2>3. CASE \E t : Store(r, t)  BY <2>3, StoreReceipt
  <2> QED BY <2>1, <2>2, <2>3
          DEF DuplicateRequest, CreateDenied, CreateAwaiting, CreateExecuting, vars
<1>3. CASE Decide
  <2>1. PICK r \in DOMAIN tasks, caller \in Callers, channel \in Channel :
          /\ Decidable(r, caller)
          /\ \/ \E decision \in DecisionKind : ExpireApproval(r, caller, decision, channel)
             \/ \E approvalId \in Requests \X Intents, token \in 1..lastToken, payload \in Intents :
                  \/ RejectApproval(r, caller, approvalId, token, payload)
                  \/ GrantApproval(r, caller, channel, approvalId, token, payload)
    BY <1>3 DEF Decide
  <2>2. r \in Requests /\ tasks[r] \in Task  BY DEF CoreInv, TypeOK
  <2>3. CASE \E t : Store(r, t)  BY <2>2, <2>3, StoreReceipt
  <2>4. ASSUME NEW approvalId, NEW token, NEW payload,
               GrantApproval(r, caller, channel, approvalId, token, payload)
        PROVE  LatestReceiptCurrent'
    <3>1. PICK w \in Task : w = tasks[r]  BY <2>2
    <3>2. PICK e \in Task : e = Log(w, "approved") /\ e.state = w.state /\ e.results = w.results
      BY LogFields DEF TaskState
    <3>3. PICK d \in Task : d = Log(e, "executing") /\ d.state = e.state /\ d.results = e.results
      BY LogFields DEF TaskState
    <3>4. tasks' = Put(tasks, r, d) /\ UNCHANGED ledger
      BY <2>4, <3>1, <3>2, <3>3 DEF GrantApproval
    <3> QED BY <3>1, <3>2, <3>3, <3>4, InPlaceReceipt
  <2> QED BY <2>1, <2>3, <2>4 DEF ExpireApproval, RejectApproval
<1>4. CASE Rollback
  <2>1. PICK r \in DOMAIN tasks, caller \in Callers : RollbackBegin(r, caller)
    BY <1>4 DEF Rollback
  <2>2. PICK w \in Task : w = tasks[r]  BY DEF CoreInv, TypeOK
  <2>3. PICK d \in Task : /\ d = Log(w, "rolling_back")
                          /\ d.state = w.state /\ d.results = w.results
    BY LogFields DEF TaskState
  <2>4. tasks' = Put(tasks, r, d) /\ UNCHANGED ledger
    BY <2>1, <2>2, <2>3 DEF RollbackBegin
  <2> QED BY <2>2, <2>3, <2>4, InPlaceReceipt
<1>5. CASE Return
  <2>1. CASE StepReturns  BY <2>1, <1>1 DEF StepReturns
  <2>2. ASSUME op.kind # "idle", NEW t, Conclude(t)
        PROVE  LatestReceiptCurrent'
    <3>1. PICK r \in Requests : r = op.request  BY <2>2, FlightType
    <3>2. PICK u : Store(r, u)  BY <2>2, <3>1 DEF Conclude
    <3> QED BY <3>1, <3>2, StoreReceipt
  <2>3. CASE FinishExecution
    <3>1. PICK t : Conclude(t)  BY <2>3 DEF FinishExecution
    <3> QED BY <2>2, <2>3, <3>1 DEF FinishExecution, Executing
  <2>4. CASE ExecutionFails
    <3>1. PICK t : Conclude(t)  BY <2>4 DEF ExecutionFails
    <3> QED BY <2>2, <2>4, <3>1 DEF ExecutionFails, Executing
  <2>5. CASE RollbackSucceeds
    <3>1. PICK t : Conclude(t)  BY <2>5 DEF RollbackSucceeds
    <3> QED BY <2>2, <2>5, <3>1 DEF RollbackSucceeds
  <2>6. CASE RollbackFails
    <3>1. PICK t : Conclude(t)  BY <2>6 DEF RollbackFails
    <3> QED BY <2>2, <2>6, <3>1 DEF RollbackFails
  <2> QED BY <1>5, <2>1, <2>3, <2>4, <2>5, <2>6 DEF Return
<1>6. CASE Restart
  <2>1. DOMAIN tasks' = {} /\ \A q \in Requests : ledger'[q] = << >>
    BY <1>6 DEF Restart
  <2> QED BY <2>1 DEF LatestReceiptCurrent
<1>7. CASE Tick \/ Raise \/ UNCHANGED vars
  BY <1>1, <1>7 DEF Tick, Raise, ExecutionRaises, RollbackRaises, vars
<1> QED BY <1>2, <1>3, <1>4, <1>5, <1>6, <1>7 DEF Next

(* A task's latest receipt has its state and its results, and says that it *)
(* can be undone exactly when rollback_task would accept it.               *)
THEOREM ReceiptsAreCurrent == Spec => []LatestReceiptCurrent
<1>1. Init => LatestReceiptCurrent
  BY DEF Init, LatestReceiptCurrent
<1>2. CoreInv /\ CoreInv' /\ LatestReceiptCurrent /\ [Next]_vars => LatestReceiptCurrent'
  BY ReceiptStep
<1> QED BY <1>1, <1>2, CoreInvariant, PTL DEF Spec
=============================================================================
