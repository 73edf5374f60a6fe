----------------------------- MODULE DeviceNode -----------------------------
(***************************************************************************)
(* The trusted device mesh: HttpDeviceNodeClient (device/client.py) on the *)
(* side of the core, the node's request handlers (device_node/app.py) with *)
(* their nonce cache, and WindowsNotepadExecutor (device_node/executor.py) *)
(* with the processes it starts.                                           *)
(*                                                                         *)
(* The core makes one call at a time.  The node serves requests in threads:*)
(* a request goes on being served after the core has given up on it, and a *)
(* request may be delivered again, which is what the nonces are for.  Core *)
(* and node run on one machine and share its clock.                        *)
(***************************************************************************)
EXTENDS Naturals, Sequences, FiniteSets

CONSTANTS
  Tasks,
  Lifetime,         \* _DEVICE_COMMAND_LIFETIME
  MaxTime,          \* bound on the clock
  MaxEnvelopes,     \* bound on the requests the core sends
  MaxDeliveries,    \* how often one request may be delivered
  MaxRestarts       \* bound on the restarts of core and node

ASSUME DeviceAssumption ==
  /\ Lifetime \in Nat \ {0}
  /\ {MaxTime, MaxEnvelopes, MaxDeliveries, MaxRestarts} \subseteq Nat

VARIABLES
  now,
  wire,          \* the envelopes sent so far; the nonce of one is its index
  deliveries,    \* how often each was delivered
  call,          \* the request the core waits for, or Idle
  outcome,       \* what the core knows of the command of each task
  handlers,      \* the node's requests in service
  seen,          \* _seen_nonces; a nonce's expiry is that of its envelope
  admissions,    \* how often each nonce passed _authorize (history)
  purgedAt,      \* the latest reading the cache was purged with (history)
  launched,      \* _launched: the process of each command, NoProcess if none
  processes,     \* every process ever started: [task, running, life], in
                 \* which life of the node it was
  coreRestarts, nodeRestarts

core == <<wire, call, outcome, coreRestarts>>
cache == <<seen, admissions, purgedAt>>
node == <<handlers, cache, launched, processes, nodeRestarts>>
vars == <<now, deliveries, core, node>>

-----------------------------------------------------------------------------
NoProcess == 0
Idle      == [task |-> "none", nonce |-> 0]

(* command_id is derived from the task, so a command is named by its task. *)
Envelope == [kind : {"launch", "rollback"}, task : Tasks,
             issuedAt : 0..MaxTime, expiresAt : 0..(MaxTime + Lifetime)]

Outcome == {"unsent", "completed", "failed", "rolled_back"}
Nonces  == DOMAIN wire

(* at: _authorize has checked the times and the signature; it has recorded *)
(* the nonce.  checkedAt is the handler's local now.                       *)
Handler == [nonce : Nonces, copy : 1..MaxDeliveries, at : {"checked", "admitted"},
            checkedAt : 0..MaxTime]

Process == [task : Tasks, running : BOOLEAN, life : Nat]

Init ==
  /\ now = 0
  /\ wire = << >>
  /\ deliveries = << >>
  /\ call = Idle
  /\ outcome = [t \in Tasks |-> "unsent"]
  /\ handlers = {}
  /\ seen = {}
  /\ admissions = << >>
  /\ purgedAt = 0
  /\ launched = [t \in Tasks |-> NoProcess]
  /\ processes = << >>
  /\ coreRestarts = 0 /\ nodeRestarts = 0

(* Time passes at any moment, for a handler between its reading of the     *)
(* clock and the nonce lock, too.                                          *)
Tick ==
  /\ now < MaxTime
  /\ now' = now + 1
  /\ UNCHANGED <<deliveries, core, node>>

-----------------------------------------------------------------------------
(* The core's client.                                                      *)

Send(kind, t) ==
  /\ call = Idle
  /\ Len(wire) < MaxEnvelopes
  /\ wire' = Append(wire, [kind |-> kind, task |-> t,
                           issuedAt |-> now, expiresAt |-> now + Lifetime])
  /\ deliveries' = Append(deliveries, 0)
  /\ admissions' = Append(admissions, 0)
  /\ call' = [task |-> t, nonce |-> Len(wire')]
  /\ UNCHANGED <<now, outcome, coreRestarts,
                 handlers, seen, purgedAt, launched, processes, nodeRestarts>>

LaunchNotepad(t)   == outcome[t] = "unsent"    /\ Send("launch", t)
RollbackCommand(t) == outcome[t] = "completed" /\ Send("rollback", t)

(* What the core makes of a reply of the node to a request it waits for;   *)
(* a reply to a repeated or abandoned request reaches nobody.              *)
OutcomeOf(reply) ==
  CASE reply = "running" -> "completed"
    [] reply = "absent"  -> "rolled_back"
    [] OTHER             -> "failed"

(* Evidence of a launch that does not parse raises what nothing handles:   *)
(* the task waits for its approval as before, and may be launched again.   *)
Unreadable(reply) == wire[call.nonce].kind = "launch" /\ reply # "error"

Reply(nonce, copy, reply) ==
  IF call.nonce = nonce /\ copy = 1
    THEN /\ call' = Idle
         /\ \/ outcome' = [outcome EXCEPT ![call.task] = OutcomeOf(reply)]
            \/ Unreadable(reply) /\ UNCHANGED outcome
    ELSE UNCHANGED <<call, outcome>>

(* httpx.HTTPError: a timeout, or no connection; or an answer the client   *)
(* refuses.                                                                *)
CallTimesOut ==
  /\ call # Idle
  /\ call' = Idle
  /\ outcome' = [outcome EXCEPT ![call.task] = "failed"]
  /\ UNCHANGED <<now, wire, deliveries, coreRestarts, node>>

(* The core forgets its tasks; the same request gets the same task id and  *)
(* with it the same command id.                                            *)
RestartCore ==
  /\ coreRestarts + nodeRestarts < MaxRestarts
  /\ coreRestarts' = coreRestarts + 1
  /\ call' = Idle
  /\ outcome' = [t \in Tasks |-> "unsent"]
  /\ UNCHANGED <<now, wire, deliveries, node>>

-----------------------------------------------------------------------------
(* _authorize.                                                             *)

Fresh(n) == wire[n].issuedAt <= now /\ now < wire[n].expiresAt

(* A request arrives, is in time and is signed by the core.                *)
Receive(n) ==
  /\ deliveries[n] < MaxDeliveries
  /\ deliveries' = [deliveries EXCEPT ![n] = @ + 1]
  /\ Fresh(n)
  /\ handlers' = handlers \cup {[nonce |-> n, copy |-> deliveries'[n],
                                 at |-> "checked", checkedAt |-> now]}
  /\ UNCHANGED <<now, core, cache, launched, processes, nodeRestarts>>

(* DEVICE_ENVELOPE_EXPIRED.                                                *)
ReceiveExpired(n) ==
  /\ deliveries[n] < MaxDeliveries
  /\ deliveries' = [deliveries EXCEPT ![n] = @ + 1]
  /\ ~Fresh(n)
  /\ Reply(n, deliveries'[n], "error")
  /\ UNCHANGED <<now, wire, coreRestarts, node>>

(* Mutant: the cache is emptied instead of purged.                         *)
RemainingNone(time) == {}

(* The nonces a handler leaves in the cache.                               *)
Remaining(time) == {n \in seen : wire[n].expiresAt > time}

Purge(time) == purgedAt' = IF time > purgedAt THEN time ELSE purgedAt

Admit(h) ==
  /\ h.at = "checked"
  /\ h.nonce \notin Remaining(h.checkedAt)
  /\ Purge(h.checkedAt)
  /\ seen' = Remaining(h.checkedAt) \cup {h.nonce}
  /\ admissions' = [admissions EXCEPT ![h.nonce] = @ + 1]
  /\ handlers' = (handlers \ {h}) \cup {[h EXCEPT !.at = "admitted"]}
  /\ UNCHANGED <<now, deliveries, core, launched, processes, nodeRestarts>>

(* DEVICE_NONCE_REPLAYED.                                                  *)
RefuseReplay(h) ==
  /\ h.at = "checked"
  /\ h.nonce \in Remaining(h.checkedAt)
  /\ Purge(h.checkedAt)
  /\ seen' = Remaining(h.checkedAt)
  /\ handlers' = handlers \ {h}
  /\ Reply(h.nonce, h.copy, "error")
  /\ UNCHANGED <<now, wire, deliveries, coreRestarts,
                 admissions, launched, processes, nodeRestarts>>

-----------------------------------------------------------------------------
(* The executor, under its own lock.                                       *)

TaskOf(h) == wire[h.nonce].task

Serves(h, kind) == h.at = "admitted" /\ wire[h.nonce].kind = kind

Bound(t) == launched[t] # NoProcess

Finish(h, reply) ==
  /\ handlers' = handlers \ {h}
  /\ Reply(h.nonce, h.copy, reply)
  /\ UNCHANGED <<now, wire, deliveries, coreRestarts, cache, nodeRestarts>>

Started(h, running) == [task |-> TaskOf(h), running |-> running, life |-> nodeRestarts]

(* Mutant: the index of the process before.                                *)
LaunchMisbound(h) ==
  /\ Serves(h, "launch")
  /\ ~Bound(TaskOf(h))
  /\ processes' = Append(processes, Started(h, TRUE))
  /\ launched' = [launched EXCEPT ![TaskOf(h)] = Len(processes)]
  /\ Finish(h, "running")

(* Mutant: the process is not recorded.                                    *)
LaunchUnbound(h) ==
  /\ Serves(h, "launch")
  /\ ~Bound(TaskOf(h))
  /\ processes' = Append(processes, Started(h, TRUE))
  /\ Finish(h, "running")
  /\ UNCHANGED launched

(* A new process; it may be gone already when it is polled for evidence.   *)
LaunchNew(h) ==
  /\ Serves(h, "launch")
  /\ ~Bound(TaskOf(h))
  /\ \E running \in BOOLEAN :
       /\ processes' = Append(processes, Started(h, running))
       /\ Finish(h, IF running THEN "running" ELSE "notRunning")
  /\ launched' = [launched EXCEPT ![TaskOf(h)] = Len(processes')]

(* The operating system refuses to start it.                               *)
LaunchFails(h) ==
  /\ Serves(h, "launch")
  /\ ~Bound(TaskOf(h))
  /\ Finish(h, "error")
  /\ UNCHANGED <<launched, processes>>

(* Mutant: the process it has makes way for a new one.                     *)
LaunchReplaces(h) ==
  /\ Serves(h, "launch")
  /\ Bound(TaskOf(h))
  /\ processes' = Append([processes EXCEPT ![launched[TaskOf(h)]].running = FALSE],
                         Started(h, TRUE))
  /\ launched' = [launched EXCEPT ![TaskOf(h)] = Len(processes')]
  /\ Finish(h, "running")

(* The command was launched before: evidence of the process it has.        *)
LaunchKnown(h) ==
  /\ Serves(h, "launch")
  /\ Bound(TaskOf(h))
  /\ Finish(h, IF processes[launched[TaskOf(h)]].running THEN "running" ELSE "notRunning")
  /\ UNCHANGED <<launched, processes>>

(* RECEIPT_BOUND_COMMAND_NOT_FOUND.                                        *)
RollbackUnknown(h) ==
  /\ Serves(h, "rollback")
  /\ ~Bound(TaskOf(h))
  /\ Finish(h, "error")
  /\ UNCHANGED <<launched, processes>>

(* Mutant: that the process is still there is not noticed.                 *)
RollbackUnverified(h) ==
  /\ Serves(h, "rollback")
  /\ Bound(TaskOf(h))
  /\ Finish(h, "absent")
  /\ UNCHANGED <<launched, processes>>

(* The process has exited, or exits when it is terminated.                 *)
RollbackEnds(h) ==
  /\ Serves(h, "rollback")
  /\ Bound(TaskOf(h))
  /\ processes' = [processes EXCEPT ![launched[TaskOf(h)]].running = FALSE]
  /\ launched' = [launched EXCEPT ![TaskOf(h)] = NoProcess]
  /\ Finish(h, "absent")

(* Mutant: the process is forgotten before it is known to have exited.     *)
RollbackForgets(h) ==
  /\ Serves(h, "rollback")
  /\ Bound(TaskOf(h))
  /\ launched' = [launched EXCEPT ![TaskOf(h)] = NoProcess]
  /\ Finish(h, "error")
  /\ UNCHANGED processes

(* DEVICE_PROCESS_TERMINATION_TIMEOUT: it is still running after 3 s.      *)
RollbackStuck(h) ==
  /\ Serves(h, "rollback")
  /\ Bound(TaskOf(h))
  /\ processes[launched[TaskOf(h)]].running
  /\ Finish(h, "error")
  /\ UNCHANGED <<launched, processes>>

-----------------------------------------------------------------------------
(* The processes and the node's machine.                                   *)

(* The user closes a Notepad.                                              *)
Close(p) ==
  /\ processes[p].running
  /\ processes' = [processes EXCEPT ![p].running = FALSE]
  /\ UNCHANGED <<now, deliveries, core,
                 handlers, cache, launched, nodeRestarts>>

(* The node's process ends and is started again; what it launched runs on. *)
RestartNode ==
  /\ coreRestarts + nodeRestarts < MaxRestarts
  /\ nodeRestarts' = nodeRestarts + 1
  /\ handlers' = {}
  /\ seen' = {}
  /\ launched' = [t \in Tasks |-> NoProcess]
  /\ UNCHANGED <<now, deliveries, core, admissions, purgedAt, processes>>

Core  == (\E t \in Tasks : LaunchNotepad(t) \/ RollbackCommand(t)) \/ CallTimesOut
Arrive == \E n \in Nonces : Receive(n) \/ ReceiveExpired(n)
Serve == \E h \in handlers :
           \/ Admit(h) \/ RefuseReplay(h)
           \/ LaunchNew(h) \/ LaunchFails(h) \/ LaunchKnown(h)
           \/ RollbackUnknown(h) \/ RollbackEnds(h) \/ RollbackStuck(h)

Next == \/ Tick \/ Core \/ RestartCore \/ Arrive \/ Serve \/ RestartNode
        \/ \E p \in DOMAIN processes : Close(p)

Spec == Init /\ [][Next]_vars

-----------------------------------------------------------------------------
(* Properties.                                                             *)

(* Every variable has its type, and the node binds a command only to a     *)
(* process it started for that very task.                                  *)
TypeOK ==
  /\ now \in 0..MaxTime
  /\ wire \in Seq(Envelope)
  /\ deliveries \in Seq(0..MaxDeliveries) /\ Len(deliveries) = Len(wire)
  /\ admissions \in Seq(Nat) /\ Len(admissions) = Len(wire)
  /\ purgedAt \in Nat
  /\ call \in {Idle} \cup [task : Tasks, nonce : Nonces]
  /\ call # Idle => wire[call.nonce].task = call.task
  /\ outcome \in [Tasks -> Outcome]
  /\ handlers \subseteq Handler
  /\ seen \subseteq Nonces
  /\ processes \in Seq(Process)
  /\ \A p \in DOMAIN processes : processes[p].life <= nodeRestarts
  /\ launched \in [Tasks -> Nat]
  /\ \A t \in Tasks : Bound(t) => /\ launched[t] \in DOMAIN processes
                                  /\ processes[launched[t]].task = t
  /\ coreRestarts \in Nat /\ nodeRestarts \in Nat

(* However often it is delivered, a request is served at most once, and    *)
(* once more for each restart of the node, until the cache is purged with a*)
(* reading of the clock at which its envelope is out of time (P4           *)
(* requirement 25): no clearing of the cache before lets it in again.      *)
AdmittedOnce ==
  \A n \in Nonces : purgedAt < wire[n].expiresAt => admissions[n] <= 1 + nodeRestarts

(* The node rejects replayed envelopes (ADR-0006).  (A node that has been  *)
(* restarted has forgotten them all.)                                      *)
ReplaysRejected == \A n \in Nonces : admissions[n] <= 1 + nodeRestarts

Running(t) == {p \in DOMAIN processes : processes[p].task = t /\ processes[p].running}

(* A copy of a launch got in after its nonce was purged.                   *)
Replayed(t) ==
  \E n \in Nonces : wire[n].kind = "launch" /\ wire[n].task = t /\ admissions[n] > 1

(* When a core reports that a launch was undone, no process of the task is *)
(* left, and none appears later but by a replay.  (A launch that a core    *)
(* before it gave up on may still be served, one that was undone is served *)
(* again by a node that was restarted.)                                    *)
Undisturbed == coreRestarts = 0 /\ nodeRestarts = 0

UndoneStaysGone ==
  Undisturbed =>
    \A t \in Tasks : outcome[t] = "rolled_back" => Running(t) = {} \/ Replayed(t)

(* While a launch is completed and its undo not yet called for, the node   *)
(* can find the process: no undo is answered with COMMAND_NOT_FOUND, as    *)
(* long as no undo of a core before it is still on its way.                *)
UndoCanReach ==
  Undisturbed =>
    \A t \in Tasks : outcome[t] = "completed" /\ call.task # t => Bound(t)

(* However often a command is sent or replayed, also by a core that was    *)
(* restarted, the node has started at most one process of the task that    *)
(* runs, and it is one the node can terminate.  (What it started before its*)
(* own restart is out of its reach.)                                       *)
RunningOfThisLife(t) == {p \in Running(t) : processes[p].life = nodeRestarts}

NothingOutOfReach == \A t \in Tasks : RunningOfThisLife(t) \subseteq {launched[t]}

(* Why a nonce is enough: a handler that has passed the first checks read  *)
(* the clock before the expiry of its envelope, and what was admitted as   *)
(* often as it can be is remembered until it is purged.                    *)
NoncesSuffice ==
  /\ \A h \in handlers : h.at = "checked" => h.checkedAt < wire[h.nonce].expiresAt
  /\ \A n \in Nonces :
       purgedAt < wire[n].expiresAt /\ admissions[n] = 1 + nodeRestarts => n \in seen

(* A launch that was served and is not being served, unless by a replay.   *)
Spent(n) == \/ admissions[n] > 1
            \/ /\ admissions[n] = 1
               /\ \A h \in handlers : ~(h.at = "admitted" /\ h.nonce = n)

(* A request in the executor was admitted, and is there once for each time *)
(* it was admitted.                                                        *)
ServedOnce ==
  \A h \in handlers : h.at = "admitted" =>
    /\ admissions[h.nonce] >= 1
    /\ \A g \in handlers :
         g.at = "admitted" /\ g.nonce = h.nonce /\ g # h => admissions[h.nonce] > 1

(* Undisturbed, the core launches a task until it knows what became of it, *)
(* each time when the launch before is spent, and undoes it once.          *)
OneAtATime ==
  /\ call # Idle => outcome[call.task] =
                     IF wire[call.nonce].kind = "launch" THEN "unsent" ELSE "completed"
  /\ \A n \in Nonces :
       LET known == outcome[wire[n].task]
       IN  /\ wire[n].kind = "launch" /\ known # "failed" => Spent(n) \/ call.nonce = n
           /\ wire[n].kind = "rollback" => known \in {"rolled_back", "failed"} \/ call.nonce = n

(* Undisturbed, what the core knows is what the node has.                  *)
EffectsKnown ==
  \A t \in Tasks :
    /\ outcome[t] = "rolled_back" => Running(t) = {} \/ Replayed(t)
    /\ outcome[t] = "completed" /\ ~(call # Idle /\ call.task = t) => Bound(t)

DeviceInv == /\ TypeOK /\ NoncesSuffice /\ AdmittedOnce /\ NothingOutOfReach
             /\ Undisturbed => ServedOnce /\ OneAtATime /\ EffectsKnown

(* Only an undo of the core terminates a process, and only one of its own  *)
(* task (P4 requirement 14); what else ends is closed by the user.         *)
UndoSent(t) == \E n \in Nonces : wire[n].kind = "rollback" /\ wire[n].task = t

TerminatedByUndo ==
  [][handlers' # handlers =>
       \A p \in DOMAIN processes :
         processes[p].running /\ ~processes'[p].running => UndoSent(processes[p].task)]_vars

(* A command that is reported as failed left nothing running: the console  *)
(* says that the action failed closed.                                     *)
FailedClosed == \A t \in Tasks : outcome[t] = "failed" => Running(t) = {}
=============================================================================
