# Nexuss: models, checks and proofs

TLA+ models of Nexuss (`src/src/nexuss`): the core service that plans, gates,
executes and undoes what a user asks for, the managed notes it writes, the
trusted Windows device node it starts Notepad on, the pairing and consent of
phones, and the two pages users look at. TLC checks small instances; TLAPS
proves every safety property the passing runs check, and that the service
implements its contract, for every instance.

## 1. The system

Nexuss takes an utterance, classifies it with fixed rules, builds a plan of
capabilities, evaluates policy on it and either answers, refuses, runs it, or
asks for consent on the desktop or on a paired phone. An approved action leaves
receipts, from which it can be undone.

| Component | Code | State | Operations | What makes it correct |
|---|---|---|---|---|
| Core service | `core/service.py` | tasks, request index, approvals, receipts, one `RLock` | `create_task`, `approve_task`, `rollback_task`, reads | consent before effects, one execution per token, legal trails, receipts that tell the truth |
| State contract | `core/state_machine.py` | none | `validate_transition` | every trail obeys it |
| Ledger | `core/ledger.py` | receipts per task | `append`, `get`, `history` | append-only, versions consecutive |
| Registry, planner, policy | `core/registry.py`, `planner.py`, `policy.py` | none | `get_capability`, `build_plan`, `evaluate_step` | effects are never allowed without approval; the tables agree |
| Classifier | `core/intents.py` | none | `classify_intent` | overlapping rules resolve safely |
| Executor, simulator | `core/executor.py`, `simulator.py`, `local_workspace.py` | none | `execute_step` | no success without evidence |
| Managed notes | `core/managed_notes.py` | files in one directory | `prepare_note`, `create`, `rollback` | never overwrites, never deletes what it does not own |
| Node client | `device/client.py`, `signing.py`, `models.py` | none | `launch_notepad`, `rollback_command` | every call returns |
| Device node | `device_node/app.py`, `executor.py` | nonce cache, launched processes, two locks | `/v1/commands`, `/v1/rollbacks` | each request served once, one process per command, only that one terminated |
| Phone gateway | `mobile/gateway.py` | pairing codes, device sessions, one lock | `create_pairing`, `pair`, `authenticate`, `revoke` | codes are used once, pair for the session that showed them; sessions end for good |
| HTTP API | `api/app.py` | pairing attempts per host | `create_mobile_pairing`, `pair_mobile_device`, the phone's polls and decisions, the desktop's handlers | a decision is the owner's phone's; attempts are limited |
| Desktop console | `ui/app.js` | current task and receipt, poll timer | submit, review, decide, poll, undo | decides what it shows, offers undo for what there is, shows what the phone decided |
| Phone page | `ui/mobile.js` | credential, pending approval, intervals | pair, poll, decide, reload | a card is not swapped for another live one, a good pairing is kept, it catches up |

How they interact: the API handlers run in threads and call the service, which
runs one operation at a time under its lock and keeps the lock while files, Git
or the node answer. The client posts a signed envelope to the node and waits
at most five seconds. The node serves each request in a thread of its own,
first through its nonce cache and then through its executor, each with its own
lock. A phone's decision takes the gateway's lock and afterwards the service's;
the clock is read before either. Both pages poll, and every `fetch` suspends the
function that made it while the page's global variables go on changing. Tasks, receipts, pairings, nonces and bindings live in
memory: a restart of either process forgets its own.

What is hard: an exception or a lost answer in the middle of an execution; the
lock held over calls that may take long; restarts of core and node, separately;
requests that arrive twice or late; other programs in the notes directory;
approvals and codes that expire against clock readings of different age; two
pages with timers and stale answers.
`PROJECT.json` lists the hazards at their lines, with the properties that cover
them.

## 2. The modules

| Module | Models | Lines of code it stands for |
|---|---|---|
| `Lifecycle` | states, the transition table, legal trails | `state_machine.py`, `TaskState` |
| `Capabilities` | registry, plans, policy, results per capability, undo | `registry.py`, `planner.py`, `policy.py`, `simulator.py`, `executor.py` |
| `ApprovedAction` | abstract contract of an action | none: it is a promise |
| `CoreService` | the service and its ledger | `service.py`, `ledger.py` |
| `MCCoreService` | instances for TLC | |
| `CoreServiceProofs` | theorems about `CoreService`: types, tokens, consent, latest receipts | |
| `CoreTrailsProofs` | further ones: trails, receipt histories, grants, the refinement of `ApprovedAction` | |
| `IntentPipelineProofs`, `ManagedNotesProofs`, `DeviceNodeProofs`, `PhoneApiProofs`, `DesktopConsoleProofs`, `PhonePageProofs` | theorems about the module each is named after, `PhoneApiProofs` also about `PhoneGateway` | |
| `IntentPipeline` | an utterance from classification to execution | `intents.py`, `service.py:298-377` |
| `ManagedNotes`, `MCManagedNotes` | creation and undo of notes, system call by system call | `managed_notes.py:118-161` |
| `DeviceNode`, `MCDeviceNode` | client, node, processes | `device/`, `device_node/` |
| `PhoneGateway` | pairing codes and device sessions, what happens under the lock | `mobile/gateway.py` |
| `PhoneApi`, `MCPhoneApi` | the gateway's and the service's callers, threads, limiter | `api/app.py` |
| `DesktopConsole`, `MCDesktopConsole` | the desktop page and its calls under way | `ui/app.js` |
| `PhonePage`, `MCPhonePage` | the phone page and its calls under way | `ui/mobile.js` |

How they compose: `CoreService` uses `Lifecycle` and `Capabilities`, and
implements `ApprovedAction`. `PhoneApi` extends `PhoneGateway` and takes
`ApprovedAction` for the service, as both pages do. What its users are checked
and proved against is what the service does, because the theorem `Refinement`
says that the service implements it (the run `core` shows the same on an
instance): it is the link between the models of the service and of its users.

### CoreService

`tasks` stands for `_tasks` and `_request_index`, `ledger` for the receipts.
Request, task and approval ids determine each other (`uuid5`), so a request
names its task. An operation that waits for nothing outside is one action:
`CreateDenied`, `CreateAwaiting`, `DuplicateRequest`, `RejectApproval`,
`ExpireApproval`. One that does is the record `op`, which is also the lock:
nothing else of the service runs while `op # Idle`.

| Code | Actions |
|---|---|
| `create_task` | `CreateDenied`, `CreateAwaiting`, `CreateExecuting`, `DuplicateRequest` |
| `approve_task` | `GrantApproval`, `RejectApproval`, `ExpireApproval` |
| `_execute_authorized_steps` | `StepReturns` per step, `FinishExecution`, `ExecutionFails` (handled exceptions), `ExecutionRaises` (every other) |
| `rollback_task` | `RollbackBegin`, `RollbackSucceeds`, `RollbackFails`, `RollbackRaises` |
| restart of the process | `Restart` |

An exception matters: `events` is a list that the stored task and the local one
share, so what was appended stays, while the state and the approval are only
assigned at the end. `ExecutionRaises` models just that. Note contents are
members of `Contents`; `Refused` is the one `prepare_note` rejects. Hashes are
the payloads themselves. Receipts keep the last state, results, trail and the
two flags derived from them.

`ApprovedAction` says what a user may rely on: an action that needs approval
waits, runs only when granted, is settled for good when refused, failed or
undone. `ImplementsContract` is the refinement mapping (`PhaseOf`, `Gated`).
Its `Abort` step, back to waiting, is the honest part: the code cannot promise
at most one execution per grant (see section 4).

### IntentPipeline

An utterance is the set of phrase groups that occur in it. The classifier tests
for substrings, so every set is an utterance. The rules are tried in the
order of the branches. The module goes on through plan, policy and
execution, to relate what was said to what is run: each step returns one of the
results its capability has (`Run`), the request is completed if all of them are
verified and has failed otherwise (`Finish`), and reading the workspace may raise
an error that ends it without a task (`Raise`). What an approval lets run is
left to `CoreService`.

### ManagedNotes

Each system call is an action: exclusive `Open`, `Write`, `Verify` by reading
back, `Abandon` and `Discard` (unlink after a failure), and `Look`, `Hash`,
`Remove`, `Confirm` of an undo. All files under one name are modelled, each with
its maker and content. `Edit`, `Delete` and `Replace` are other programs, which
act between any two system calls. Two files are never under the name at once; a
path refers to what `entry` says at that moment. Any system call may fail, the
clean-up's unlink too, after which the file stays (`ReadFails` at `abandon` and
`discard`).

### DeviceNode

`wire` is every envelope the core sent; its index is its nonce. `Receive` may
happen up to `MaxDeliveries` times, at any time, also after the core gave up.
A handler passes the expiry and signature check (`Receive`), then the nonce
cache under its lock (`Admit`, `RefuseReplay`), then the executor under its lock
(`LaunchNew`, `LaunchKnown`, `LaunchFails`, `RollbackEnds`, `RollbackStuck`,
`RollbackUnknown`). The reply reaches the core if it still waits. `seen` keeps
nonces; their expiry is that of the envelope. A handler goes by the clock reading
it took before the nonce lock (`checkedAt`), and the clock goes on while it waits
for that lock, for as long as it likes. `admissions` and `purgedAt`, the latest
reading the cache was purged with, are history variables. The answer to a launch
may be unreadable to the client (`Unreadable`): nothing handles that, the task
goes on waiting, and the core may launch it again.
`RestartCore` makes the core forget its calls, so that it sends a command again;
`RestartNode` makes the node forget nonces and bindings, not the processes.
Requests the core did not sign, for another node, or for another capability are
refused before any state is touched and are left out.

### PhoneGateway and PhoneApi

`PhoneGateway` has one operation per method, each with the time its caller read
before it had the lock. `pairings` maps a code to its pairing, and forgets
expired ones when the next code is asked for (`CreatePairing`, `NoCodeDrawn`
after twenty draws of taken codes); `devices` are the sessions that are not
forgotten. `issued` and `enrolled` are every pairing and device ever made, so
that a code drawn again is a new pairing.

`PhoneApi` serves requests in `Threads`. Every `at` in a request is a clock
reading that the next lock will find: the limiter's (`Admit`, `Throttle`), the
gateway's (`IssueCode`, `FinishPairing`, `Identify`, `RefusePhone`); after it a
decision waits for the service (`AnswerOnly`, `DeclineByPhone`, `GrantByPhone`,
`FinishDecision`). Other threads act between any two of these. Stamps of
attempts are kept in the order of the locks, not of the clock; `Recent` drops
old ones from the head only. `RevokePhone` is the gateway's `revoke`, which no
handler calls yet.

### DesktopConsole and PhonePage

A call is sent (`Fetch`), served, and goes on in the page when its answer is
there (`Resume`), in any order. The actions that resume are the stretches of
code between two `await`s, with the globals they assign: `Executed` is the end
of `executeInstruction`, `PollResolved` the part of `pollTaskUntilResolved` that
clears the timer, `Polled` what follows when the receipt is there, and so on. A
call that is aborted or lost ends in `CallFails` (console), or in an answer
`error` or none (phone). `MaxCalls` bounds what is under way; the browser has no
such bound. `taskPollTimer` names the task its interval polls for; on the phone
an interval that `pollingTimer` does not name any more is `leaked`, and still
polls. A phone page keeps its credential over `Reload`, nothing else. It
identifies and lists in one step, which `PhoneApi` has apart, and what is done
is not undone there.

## 3. What the runs show

| Run | Instance | States | Shows |
|---|---|---|---|
| `core` | 2 requests, 2 sessions, a note, a refused note, Notepad, a plan of four reads; approvals live 1, clock 0..2, 1 exception, 1 restart, fairness | 472,410 | approvals, consent, receipts and the inductive invariant hold whatever escapes; until an exception does, trails obey the contract and receipts hold them whole; refinement of `ApprovedAction`; history is final; a granted action settles unless the exception strikes it |
| `pipeline` | all utterances of up to 5 of 17 phrase groups | 46,499 | no effect without consent; a forbidden request runs nothing but the answer to a question that is also in it; questions are answered; the approval covers the plan; what is allowed can complete |
| `notes_shared` | 2 tasks with different contents, others twice between any two system calls, a failing write, a failing read or removal, 1 crash | 565,185 | nobody else's file is written; an undo spares what it finds modified; while nobody else acts, what was reported as created is there whatever fails, only a task's own file is removed for it, and what ended without a failure of the clean-up left nothing |
| `node_replays` | 2 tasks, 3 requests, each delivered up to twice, envelopes live 1, clock 0..1, 1 restart of the core or the node | 4,126,761 | a request is served once in each life of the node until its nonce may have been purged; undone stays gone but for a replay after that; completed can be undone; never a second process of a task, none out of reach, among those of the node's present life; only an undo of its task terminates a process |
| `phone_api` | 2 sessions, 2 codes, 1 action, 1 host, 2 threads, 3 attempts with a limit of 2, clock 0..2 | 1,514,428 | a code pairs one phone; a command runs only in a decision of its owner's phone; ended sessions stay out; attempts are limited |
| `console` | a command for the phone and another instruction, 2 calls under way, 1 that fails, fairness | 321,425 | the dialog decides what it shows; the receipt on the page is not older than its task, also after an undo that failed; what the phone decided is shown |
| `phone_page` | 2 commands of one session and a session without any, 2 pairings, 2 calls under way, 1 reload, fairness | 648,826 | two live cards are not swapped; a good pairing is lost to a late refusal only; the page comes round to what waits |

The other runs end in a violation, which is what they show; section 4.

**Bounds.** Every bound is a constant, and guards an action of the environment
only: time, exceptions, restarts, crashes, deliveries, what others do. Two
requests are what one needs for two live tokens and two owners; the session is
chosen independently, so a stranger's calls are included. `Lifetime` 1 with a
clock to 2 lets an approval be used before, at and after its expiry and a second
one be issued meanwhile. One exception is on an execution or on an undo; more of
them, and a longer clock, are for the theorems: every property of `core` but
`GrantSettles` is proved for all constants. There is no symmetry in that run, nor
in any other with a liveness property. Five phrase groups reach every pair of rules, each of
which has at most two groups, with one to spare. Two outside acts suffice for
remove-and-replace; `notes_reowned` has a third task with the same content as
the first. Two deliveries are the first and a replay; three requests are launch,
undo and another task's or a repeated launch. An envelope of lifetime 1 that is
sent at 0 is in time at 0 and expired at 1, when the request that overtakes its
copy comes: the clock of the node's runs ends there. Two threads are one that reads
the clock and one that overtakes it; with two codes one can be drawn again while
the other is live, and lifetimes of 1 with a clock to 2 put a code or session
before, at and after its end; three attempts exceed the limit by one. Two calls
of a page are one that is late and one that overtakes it; two commands are the
card that is shown and the one that could replace it. The service's clock and
the gateway's are not related: an approval may expire at any time there.
Symmetry is used for requests, tasks, sessions, codes and threads; action properties treat the permuted values alike.

**Deadlock.** The service's and the API's runs check it: a call is always
possible, or the one in flight can return. The other systems really stop: an
utterance has been dealt with, every note is created and undone, every request
has been sent and served, every command is settled and the page has nothing to
poll for.

**Fairness.** `GrantSettles` assumes weak fairness of the return of an outside
call while one is in flight: the client has a timeout of five seconds, Git one
of four; files are the operating system's promise. The pages' runs assume that
the browser resumes what was answered (`Resume`, weak) and runs its intervals
(`TimerFires`; strong, because the bound on calls under way, which the browser
does not have, disables it now and then), and that the service serves a request
that waits for its lock at some point (`Serve`, strong: others may take the
lock in between). What is executed ends (`Ends`, `Finish`); on the phone page,
where any number of exceptions may interrupt an execution, strongly. No
fairness is assumed of users, of the phone's decision, of the clock, of the node
or of deliveries. On the phone page any poll may be lost, but not every one of
them (`ServePoll`).

## 4. Where the code and its documents disagree

| Run | What it shows |
|---|---|
| `core_token_reuse` | An exception that nothing handles (an `OSError` while a note is read back, an answer of the node that is not JSON) leaves the approval pending: the same token starts a second execution. The task can also be rejected or expire then, and is `DENIED` although it ran, over a trail (`EXECUTING -> DENIED`) that the state contract forbids. |
| `notes_reowned` | A note that was removed by hand and made again by a second task is removed by the undo of the first. |
| `node_overtaken` | A copy of a launch is checked just before its expiry and waits for the nonce lock; a request that comes at the expiry, the undo for instance, gets the lock first and purges the nonce (`device_node/app.py:55-59`); the copy is admitted, and a new process starts. ADR-0006 says that replayed envelopes are rejected. |
| `node_timeout` | A launch that is answered too late is reported as failed closed, and its process runs on. |
| `console_outcome` | The interval of the phone poll clears `taskPollTimer` whichever task it polls for by then (`app.js:371`): when a second command was reviewed while the last poll of the first was under way, nothing polls for the second, whose approval or denial is never shown. |

Three more that the models show without a run of their own: health and playback
requests are planned and simulated but not registered (`registry.py:14`), so
policy always denies them, and `AllowedPlansCanComplete` speaks of allowed plans
only; a file that is changed between the hash check and the unlink
(`managed_notes.py:158`) is removed, which `RollbackSparesFound` leaves out,
whereas ADR-0005 says that modified or unrelated files are never deleted; and a
repeated request is answered with the stored task, its approval token included,
before its session is looked at (`service.py:301`). The threat model of P3 binds
task and approval to the session (line 19) and lets the approval's response
show a note to the bound browser session only (line 21). The decision does check
the session, so that nothing is executed by it; what a caller is shown is not
in the model.

What else reading and modelling brought up, none of it against a document: a
pairing code may pair although another request was just told it has expired,
when its clock reading is older; the decision of a phone whose session is revoked
between its authentication and the approval goes through; an undo that failed is
answered with an error, and the page keeps the completed task and its reversible
receipt, so that it offers the undo of a task that is `FAILED` and is refused
each time (`app.js:495`); an approval that has expired stays first
in the phone's list until somebody decides; `clearPairing` leaves
`pendingApproval`, so that a phone paired anew shows the card of the old session
until its first poll is answered (the decision is refused then).

The passing runs state what does hold: `UndisturbedTrails` is about the time
before an exception escapes, and there every trail is legal and a denied task
was never executed. `console` has one command for the phone, and there the
outcome is shown unless the fetch of the receipt fails, for which the page has no
retry (`givenUp`). `PairingKept` excepts a late refusal of the pairing before,
which `mobile.js:84` takes for one of the present. `RollbackSparesFound` excepts only changes made after the hash was
compared. What the directory holds depends on nobody else using it (`Alone`) and,
for what a creation that failed leaves, on no failure of the disk or the process
(`Unfailing`). `AdmittedOnce` is about the time until the nonce may have been
purged, and `UndoneStaysGone` excepts a task whose launch was replayed after
that (`Replayed`), which is all that `node_overtaken` leaves to say.

## 5. What is proved

Every safety property of a passing run, invariant or action property, is a
theorem of the module it is about. Each line is `Spec => []P`, or `Spec => P` for
an action property and the refinement:

| Proofs | Inductive invariant | Properties that follow |
|---|---|---|
| `CoreServiceProofs` | `CoreInv` (`CoreInvariant`) | `TypeOK`, `PendingExactlyWhileAwaiting` (`ApprovalLifetime`), `RunsUnderConsent` (`ConsentedExecution`), `LatestReceiptCurrent` (`ReceiptsAreCurrent`) |
| `CoreTrailsProofs` | `ServiceInv` (`ServiceInvariant`) | `ReceiptsTellTheTrail` (`ReceiptHistory`), `UndisturbedTrails` (`TrailsAreLegal`), `HistoryIsFinal` (`HistoryKept`), `ImplementsContract` (`Refinement`); and, as formulas of their own, `GrantsBounded`, `ApprovalUsedOnce`, `DeniedNeverExecuted`, `UndoneGated` |
| `IntentPipelineProofs` | `PipelineInv` (`PipelineInvariant`) | `EffectsAreGated` (`NoEffectUngated`), `ForbiddenRequestsRunNothing` (`ForbiddenRunsNothing`), `QuestionsAreAnswered` (`QuestionsGetAnswers`), `ApprovalCoversPlan` (`ApprovalIsOfPlan`), `AllowedPlansCanComplete` (`AllowedPlansComplete`) |
| `ManagedNotesProofs` | `NotesInv` (`NotesInvariant`) | `CreatedIsThere` (`CreatedStays`), `EndsLeaveNothing` (`NothingIsLeft`), `WritesOnlyOwn` (`NoOverwrite`), `RemovesOnlyOwn` (`OwnRemoved`), `RollbackSparesFound` (`UndoSparesFound`) |
| `DeviceNodeProofs` | `DeviceInv` (`DeviceInvariant`) | `AdmittedOnce` (`ServedAtMostOnce`), `NothingOutOfReach` (`OneProcess`), `UndoneStaysGone` (`UndoIsFinal`), `UndoCanReach` (`UndoReaches`), `TerminatedByUndo` (`OnlyUndoTerminates`) |
| `PhoneApiProofs` | `ApiInv` (`ApiInvariant`) | `CodePairsOnePhone` (`OnePhonePerCode`), `ConsentByOwnersPhone` (`OwnersPhoneConsents`), `AttemptsLimited` (`LimiterLimits`), `EndedStaysOut` (`EndedNeverReturns`) |
| `DesktopConsoleProofs` | `ConsoleInv` (`ConsoleInvariant`) | `DecidesWhatItShows` (`DecisionIsOfDialog`), `ReceiptNotOlder` (`ReceiptIsCurrent`) |
| `PhonePageProofs` | `PageInv` (`PageInvariant`) | `LiveCardStays` (`NoLiveCardReplaced`), `PairingKept` (`PairingIsKept`) |

**Assumptions.** Only those the modules make of their constants, which TLC
evaluates in the runs: intents are known kinds with a content and approvals live
for some time (`CoreService`), no note's content is the one others write
(`ManagedNotes`), bounds are naturals, the rest say what the constants are. The
sets (requests, sessions, tasks, threads, hosts, codes, actions) may be of any
size, infinite ones included, and every bound any natural. The properties keep
the conditions in them (`Undisturbed`, `Alone`, `Unfailing`, `faults = 0`,
`purgedAt`): the theorems are about the same formulas that TLC checks.

**Inductive invariants.** None of the properties is inductive by itself. Where it
is defined in the component's own module (all but `PipelineInv`), the inductive
invariant is an invariant of the component's run, so that TLC has looked for
counterexamples to the lemmas' hypotheses; it includes the type invariant. Each
action, or kind of action, has a lemma that it preserves the invariant.

- `CoreInv`. That a granted execution is for the owner's payload depends on
  what the pending approval said, and that on how it was made. For stored
  tasks: they are in a state a handler stores; an approval belongs to a plan
  that policy gates, is for the task's own intent over the registry's channel,
  and has a token drawn before and not shared (`StoredConsistent`). For the call
  in flight: it works on the task it will overwrite, with the approval that is
  still pending there (`FlightConsistent`).
- `ServiceInv` adds what the trails need: the call in flight has entered on the
  trail what it is doing (`FlightTrail`); until an exception escapes, every trail
  is legal, ends in the stored state and is what the latest receipt holds, but
  for the task of the call (`TrailEndsInState`); and a result that can be undone is
  that of a task an approval was asked for (`UndoBacked`), without which an undo
  of an ungated task would be a step the contract does not have. It also counts
  how often the trail of a task enters `APPROVED` (`GrantsCounted`): at most once
  more than exceptions have escaped, and not more often than that while the
  approval is pending and no call is at work on the task.
- Four more theorems say what becomes of the token finding of section 4.
  `GrantsBounded`: an approval starts one execution, and one more for each
  escaped exception at most. `ApprovalUsedOnce`: without an exception,
  `TokenGrantedOnce`, which `core_token_reuse` refutes, is true. `DeniedNeverExecuted`:
  without an exception, the trail of a denied task has no `EXECUTING`, since a
  legal trail that has entered it never leaves the states behind it
  (`StartedStays`, by the first place where it would). `UndoneGated`: whatever
  escapes, only what went through an approval is undone; that is a property of
  the contract, which `StepMaps` carries over. TLC has checked `GrantsCounted` as
  a part of `ServiceInv`.
- The refinement needs no more than `ServiceInv`. Every step of the service is
  classified as waiting, storing a task, beginning a call or a restart; for
  each, the phases before and after are computed from `PhaseOf`, and the
  step of the contract is named (`StepMaps`). A restart maps to `Forget`, an
  escaped exception to `Abort` or `UndoAborts`.
- `PipelineInv`: plan and state are functions of what the utterance was
  classified to, and what ran is from the plan. The properties are then a matter
  of the rules: the rule that fires, its plan, and the verdict on it, for every
  utterance and not only those of five groups.
- `NotesInv`: a call that writes has the file it made (`OwnFile`), an undo
  remembers what it compared and that it was the receipt's text as long as nobody
  acts (`ComparedFile`), while nobody else acts the name refers to the file of
  the one task that has it, or to one that a failure left there
  (`DirectoryKnown`), and without failures there is none of the latter
  (`NothingLeft`). `RemovesOnlyOwn` rests on a call that removes having the file
  under the name, since only the exclusive `Open` lets it come so far.
- `DeviceInv`: a handler past its checks read the clock before the expiry, and a
  nonce that was admitted is remembered until the cache is purged with a reading
  at or after that (`NoncesSuffice`); the clock itself does not occur in it, so
  that it does not matter how long a handler is held up. And, while neither side
  was restarted, a request is in the executor once for each time it was admitted
  (`ServedOnce`), a task has one request at a time and its undo last
  (`OneAtATime`), and a reported outcome is what happened, but for a replay
  (`EffectsKnown`).
- `ApiInv`: whom a request in service speaks for (`IdentitiesHold`), that the
  ended devices are not among the sessions, and that every attempt that still
  counts has a stamp of its own in the limiter (`StampsKept`): an injection
  from attempts to stamps, since the limiter drops stamps from the head of a list
  that is not sorted. `AttemptsLimited` is a bound on a cardinality from it.
- `ConsoleInv`: of the service, that one action runs at a time and what is waiting
  is gated (`ContractConsistent`); that the answers on their way to the page are
  ones the service can have come from (`CallConsistent`, with `Later` for what may
  follow a state; an undo is answered with `undone` or with an error), and that what the page holds fits together (`PageConsistent`).
- `PageInv`: what is shown, or on its way to be, leads: all its session asked for
  before is over for good. It needs that a poll is answered only between two
  operations of the service: what is being carried out could be interrupted and
  wait again. And a call that was refused was made with a pairing that is over
  and not newer than the page's own, because only one pairing is on its way at a
  time (`PairIsNewest`).

**Only model-checked.** Liveness under fairness: `GrantSettles`, `OutcomeShown`
(which is true of one command for the phone only) and `PageCatchesUp`; TLAPS has no
rules for it here, nor for `ENABLED`. Nothing else: no property needs
induction over data, and no module uses a `RECURSIVE` operator. (That a nonempty
set of naturals has a least element, which the first of the phone's list and the
legal trails rest on, comes from the library's theorem that `<` is well-founded.)

## 6. What is not modelled

- Parsing, formatting and wording: the classifier's single words, a note's
  title normalised to a file name, evidence attributes.
- Cryptography: a signature or hash fits or not, tokens do not collide.
- `DisabledDeviceNodeClient`, missing configuration: every request is refused
  before any state changes.
- After a restart of the node its processes are out of reach, and replays are
  admitted: `AdmittedOnce` counts the restarts, `NothingOutOfReach` is about the
  processes of the present life. After a restart of the core a slow launch or
  undo of the old one may follow the undo of the new: `UndoneStaysGone` and
  `UndoCanReach` are about runs without a restart.
- `prepare_note`: how a title becomes a file name is a pure function without state;
  a note it refuses is the content `Refused`.
- Of the pages: layout, toasts, voice input, clipboard, health display. Of the
  API: static files, the health and capability lists, the loopback check, which
  have no state.
- Scripts, deployment, contracts, and directories that hold no code yet.

## 7. Plan

Done: the service, the tables it works on, notes, the node, the gateway and its
handlers, both pages, and the proofs of their safety properties and of the
refinement. What could still be proved: that `PhoneGateway` alone keeps
`CodePairsOnePhone`, whoever calls it (`ApiInv` has it for the callers that
`PhoneApi` has); and, where the parts without a model gain state of their own
(`local_workspace`, the scripts), a module for each.
