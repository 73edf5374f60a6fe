------------------------------ MODULE PhonePage -----------------------------
(***************************************************************************)
(* The phone's page (ui/mobile.js): it pairs with a code, keeps the device *)
(* credential over reloads, polls for what waits for approval, shows the   *)
(* first of it and sends the user's decision.  Of the service only its     *)
(* contract, ApprovedAction, is used, and of the gateway which devices are *)
(* let in; PhoneApi has the locks between the two.                         *)
(*                                                                         *)
(* Every fetch suspends the function that made it.  Until its answer has   *)
(* arrived the user, the intervals and other calls go on with the page's   *)
(* global variables, and answers arrive in any order.                      *)
(***************************************************************************)
EXTENDS Naturals, Sequences, FiniteSets

CONSTANTS
  Actions,      \* commands for the phone, numbered in the order of their expiry
  Sessions,     \* desktop sessions
  Owner,        \* the session of each action
  MaxDevices,   \* bound on the pairings
  MaxCalls,     \* bound on the calls under way
  MaxReloads    \* bound on the times the page is loaded again

ASSUME PageAssumption ==
  /\ Actions \subseteq Nat \ {0}
  /\ Owner \in [Actions -> Sessions]
  /\ MaxDevices \in Nat /\ MaxCalls \in Nat \ {0} /\ MaxReloads \in Nat

VARIABLES
  phase, gated, \* the service, as its contract shows it
  paired,       \* the session of each device that was paired so far
  accepted,     \* the devices the gateway lets in
  credential,   \* deviceId and deviceToken, also in localStorage; NoDevice if none
  card,         \* pendingApproval, or NoCard
  interval,     \* pollingTimer names an interval that runs
  leaked,       \* an interval runs that pollingTimer does not name any more
  calls,        \* the calls under way
  reloads

Service == INSTANCE ApprovedAction

service == <<phase, gated>>
gateway == <<paired, accepted>>
timers  == <<interval, leaked>>
vars    == <<service, gateway, credential, card, timers, calls, reloads>>

NoDevice == 0
NoCard   == 0
Free     == [op |-> "free"]
Slots    == 1..MaxCalls

(* A call is made with the credential the page has then; first is the poll *)
(* that a pairing waits for.  value: the card or the device it is answered *)
(* with.                                                                   *)
Call == [op     : {"poll", "first", "pair", "approve", "reject"},
         device : 0..MaxDevices,
         task   : Actions \cup {NoCard},
         answer : {"none", "running", "ok", "refused", "error"},
         value  : Nat]

Init ==
  /\ Service!Init
  /\ paired = << >>
  /\ accepted = {}
  /\ credential = NoDevice
  /\ card = NoCard
  /\ interval = FALSE /\ leaked = FALSE
  /\ calls = [c \in Slots |-> Free]
  /\ reloads = 0

-----------------------------------------------------------------------------
(* Sending.                                                                *)

FreeSlots == {c \in Slots : calls[c] = Free}

NewCall(op, d, t) ==
  [op |-> op, device |-> d, task |-> t, answer |-> "none", value |-> 0]

Fetch(op, t) ==
  LET c == CHOOSE c \in FreeSlots : \A d \in FreeSlots : c <= d
  IN  calls' = [calls EXCEPT ![c] = NewCall(op, credential, t)]

Underway(ops) == \E c \in Slots : calls[c].op \in ops

(* pollPending, from an interval; without a credential it returns at once. *)
TimerFires ==
  /\ interval \/ leaked
  /\ credential # NoDevice
  /\ FreeSlots # {}
  /\ Fetch("poll", NoCard)
  /\ UNCHANGED <<service, gateway, credential, card, timers, reloads>>

(* The pairing form is hidden while there is a credential, and its button  *)
(* disabled from the request to the end of the first poll.                 *)
SubmitCode ==
  /\ credential = NoDevice
  /\ ~Underway({"pair", "first"})
  /\ FreeSlots # {}
  /\ Fetch("pair", NoCard)
  /\ UNCHANGED <<service, gateway, credential, card, timers, reloads>>

(* Mutant: without a look at pendingApproval.                              *)
DecideUnchecked(decision) ==
  /\ credential # NoDevice
  /\ ~Underway({"approve", "reject"})
  /\ FreeSlots # {}
  /\ Fetch(decision, card)
  /\ UNCHANGED <<service, gateway, credential, card, timers, reloads>>

(* decide.  The card is on the stage that only a paired phone sees; both   *)
(* buttons are disabled while a decision is on its way.                    *)
Decide(decision) ==
  /\ credential # NoDevice /\ card # NoCard
  /\ ~Underway({"approve", "reject"})
  /\ FreeSlots # {}
  /\ Fetch(decision, card)
  /\ UNCHANGED <<service, gateway, credential, card, timers, reloads>>

(* The page is loaded again: the credential is read from localStorage, all *)
(* else is gone.  A decision the service has not served yet may still have *)
(* its effect, as one that is made elsewhere.                              *)
Reload ==
  /\ reloads < MaxReloads
  /\ reloads' = reloads + 1
  /\ card' = NoCard
  /\ interval' = (credential # NoDevice) /\ leaked' = FALSE
  /\ calls' = [c \in Slots |-> IF c = 1 /\ credential # NoDevice
                                 THEN NewCall("poll", credential, NoCard) ELSE Free]
  /\ UNCHANGED <<service, gateway, credential>>

-----------------------------------------------------------------------------
(* The service and the gateway.                                            *)

Waiting(s) == {a \in Actions : Owner[a] = s /\ phase[a] = "waiting"}

(* Mutant: the newest first.                                               *)
FirstWaitingNewest(s) ==
  IF Waiting(s) = {} THEN NoCard
  ELSE CHOOSE a \in Waiting(s) : \A b \in Waiting(s) : b <= a

(* list_pending_phone_approvals, of which the page takes the first: what   *)
(* expires first, also when it has expired, until a decision finds out.    *)
FirstWaiting(s) ==
  IF Waiting(s) = {} THEN NoCard
  ELSE CHOOSE a \in Waiting(s) : \A b \in Waiting(s) : a <= b

Unserved(c, ops) == calls[c].op \in ops /\ calls[c].answer = "none"

AnswerWith(c, answer, value) ==
  calls' = [calls EXCEPT ![c].answer = answer, ![c].value = value]

ServePoll(c) ==
  LET d == calls[c].device
  IN  /\ Unserved(c, {"poll", "first"})
      /\ IF d \in accepted
           THEN ~Service!Busy /\ AnswerWith(c, "ok", FirstWaiting(paired[d]))
           ELSE AnswerWith(c, "refused", 0)
      /\ UNCHANGED <<service, gateway, credential, card, timers, reloads>>

(* A code that was shown to some session; or one that is not accepted.     *)
ServePairing(c) ==
  /\ Unserved(c, {"pair"})
  /\ \/ /\ Len(paired) < MaxDevices
        /\ \E s \in Sessions : paired' = Append(paired, s)
        /\ accepted' = accepted \cup {Len(paired')}
        /\ AnswerWith(c, "ok", Len(paired'))
     \/ AnswerWith(c, "error", 0) /\ UNCHANGED gateway
  /\ UNCHANGED <<service, credential, card, timers, reloads>>

(* approve_task over the PHONE channel; any decision brings to light that  *)
(* the approval has expired.                                               *)
ServeDecision(c) ==
  LET t   == calls[c].task
      d   == calls[c].device
      may == d \in accepted /\ paired[d] = Owner[t]
  IN  /\ Unserved(c, {"approve", "reject"})
      /\ \/ may /\ calls[c].op = "approve" /\ Service!Grant(t) /\ AnswerWith(c, "running", 0)
         \/ may /\ calls[c].op = "reject" /\ Service!Decline(t) /\ AnswerWith(c, "ok", 0)
         \/ may /\ Service!Decline(t) /\ AnswerWith(c, "error", 0)
         \/ /\ d \notin accepted \/ (~Service!Busy /\ (~may \/ phase[t] # "waiting"))
            /\ AnswerWith(c, "error", 0) /\ UNCHANGED service
      /\ UNCHANGED <<gateway, credential, card, timers, reloads>>

(* The answer to a pairing or a decision is lost, or the request was.      *)
RequestFails(c) ==
  /\ calls[c].op \in {"pair", "approve", "reject"}
  /\ calls[c].answer \in {"none", "ok"}
  /\ AnswerWith(c, "error", 0)
  /\ UNCHANGED <<service, gateway, credential, card, timers, reloads>>

(* The desktop asks; it may reject, and another phone of the session may   *)
(* decide.                                                                 *)
Ask(a) ==
  /\ \A b \in Actions : b < a => phase[b] # "absent"
  /\ Service!Ask(a)
  /\ UNCHANGED <<gateway, credential, card, timers, calls, reloads>>

DecidedElsewhere(a) ==
  /\ Service!Grant(a) \/ Service!Decline(a)
  /\ UNCHANGED <<gateway, credential, card, timers, calls, reloads>>

AnswerRunning(answer) ==
  calls' = [c \in Slots |-> IF calls[c] # Free /\ calls[c].answer = "running"
                              THEN [calls[c] EXCEPT !.answer = answer] ELSE calls[c]]

Completes(a) ==
  /\ Service!Succeed(a) \/ Service!Fail(a)
  /\ AnswerRunning("ok")
  /\ UNCHANGED <<gateway, credential, card, timers, reloads>>

(* An exception: the approval can be granted once more.                    *)
Interrupted(a) ==
  /\ Service!Abort(a)
  /\ AnswerRunning("error")
  /\ UNCHANGED <<gateway, credential, card, timers, reloads>>

(* A device session expires or is revoked.                                 *)
SessionEnds(d) ==
  /\ accepted' = accepted \ {d}
  /\ UNCHANGED <<service, paired, credential, card, timers, calls, reloads>>

-----------------------------------------------------------------------------
(* A call goes on with its answer.                                         *)

Arrived(c, ops, answers) == calls[c].op \in ops /\ calls[c].answer \in answers

Return(c) == calls' = [calls EXCEPT ![c] = Free]

(* renderApproval(approvals[0] || null).                                   *)
Show(c) == card' = calls[c].value

(* A poll whose request or answer is lost is a toast.                      *)
PollArrives(c) ==
  /\ \/ Arrived(c, {"poll"}, {"ok"}) /\ Show(c)
     \/ Arrived(c, {"poll"}, {"none"}) /\ UNCHANGED card
  /\ Return(c)
  /\ UNCHANGED <<service, gateway, credential, timers, reloads>>

(* 401: clearPairing, whichever credential the page has by now.            *)
PollRefused(c) ==
  /\ Arrived(c, {"poll"}, {"refused"})
  /\ credential' = NoDevice
  /\ interval' = FALSE
  /\ Return(c)
  /\ UNCHANGED <<service, gateway, card, leaked, reloads>>

(* The device session is stored and pollPending awaited.                   *)
PairingArrives(c) ==
  /\ Arrived(c, {"pair"}, {"ok"})
  /\ credential' = calls[c].value
  /\ calls' = [calls EXCEPT ![c] = NewCall("first", credential', NoCard)]
  /\ UNCHANGED <<service, gateway, card, timers, reloads>>

PairingFails(c) ==
  /\ Arrived(c, {"pair"}, {"error"})
  /\ Return(c)
  /\ UNCHANGED <<service, gateway, credential, card, timers, reloads>>

(* Mutant: no interval is set.                                             *)
FirstPollOnly(c) ==
  /\ \/ Arrived(c, {"first"}, {"ok"}) /\ Show(c) /\ UNCHANGED credential
     \/ Arrived(c, {"first"}, {"none"}) /\ UNCHANGED <<card, credential>>
     \/ Arrived(c, {"first"}, {"refused"}) /\ credential' = NoDevice /\ UNCHANGED card
  /\ Return(c)
  /\ UNCHANGED <<service, gateway, timers, reloads>>

(* The interval is set after the first poll, however that one ended, and   *)
(* whatever pollingTimer names.                                            *)
FirstPollArrives(c) ==
  /\ \/ Arrived(c, {"first"}, {"ok"}) /\ Show(c) /\ UNCHANGED credential
     \/ Arrived(c, {"first"}, {"none"}) /\ UNCHANGED <<card, credential>>
     \/ Arrived(c, {"first"}, {"refused"}) /\ credential' = NoDevice /\ UNCHANGED card
  /\ interval' = TRUE
  /\ leaked' = (leaked \/ (interval /\ calls[c].answer # "refused"))
  /\ Return(c)
  /\ UNCHANGED <<service, gateway, reloads>>

(* finally: pollPending.                                                   *)
PollAgain(c) ==
  calls' = [calls EXCEPT ![c] = IF credential = NoDevice THEN Free
                                ELSE NewCall("poll", credential, NoCard)]

(* Mutant: a decision that fails ends the pairing.                         *)
DecisionArrivesOrUnpairs(c) ==
  /\ \/ Arrived(c, {"approve", "reject"}, {"ok"}) /\ card' = NoCard /\ UNCHANGED credential
     \/ Arrived(c, {"approve", "reject"}, {"error"}) /\ credential' = NoDevice /\ UNCHANGED card
  /\ Return(c)
  /\ UNCHANGED <<service, gateway, timers, reloads>>

(* renderApproval(null), also when another card has been shown meanwhile.  *)
DecisionArrives(c) ==
  /\ \/ Arrived(c, {"approve", "reject"}, {"ok"}) /\ card' = NoCard
     \/ Arrived(c, {"approve", "reject"}, {"error"}) /\ UNCHANGED card
  /\ PollAgain(c)
  /\ UNCHANGED <<service, gateway, credential, timers, reloads>>

-----------------------------------------------------------------------------
User == SubmitCode \/ Reload \/ \E decision \in {"approve", "reject"} : Decide(decision)

Resume(c) == \/ PollArrives(c) \/ PollRefused(c) \/ FirstPollArrives(c)
             \/ PairingArrives(c) \/ PairingFails(c) \/ DecisionArrives(c)

Finish == \E a \in Actions : Completes(a)

Next == \/ User \/ TimerFires \/ Finish
        \/ \E a \in Actions : Ask(a) \/ DecidedElsewhere(a) \/ Interrupted(a)
        \/ \E d \in accepted : SessionEnds(d)
        \/ \E c \in Slots : \/ ServePoll(c) \/ ServePairing(c) \/ ServeDecision(c)
                            \/ RequestFails(c) \/ Resume(c)

Spec == Init /\ [][Next]_vars

(* The browser ends every call, answered or not, and runs its intervals    *)
(* (of which MaxCalls, that the browser does not have, may disable one for *)
(* a while); what is granted again and again is not interrupted every time;*)
(* and polls, of which any may be lost, are not all lost.                  *)
FairSpec == /\ Spec
            /\ SF_vars(TimerFires) /\ SF_vars(Finish)
            /\ \A c \in Slots : SF_vars(ServePoll(c)) /\ WF_vars(Resume(c))

-----------------------------------------------------------------------------
(* Properties.                                                             *)

(* Every variable has its type, and a decision is about something.         *)
TypeOK ==
  /\ paired \in Seq(Sessions) /\ Len(paired) <= MaxDevices
  /\ {credential} \cup accepted \subseteq 0..Len(paired)
  /\ card \in Actions \cup {NoCard}
  /\ {interval, leaked} \subseteq BOOLEAN
  /\ calls \in [Slots -> Call \cup {Free}]
  /\ \A c \in Slots : calls[c].op \in {"approve", "reject"} => calls[c].task \in Actions
  /\ reloads \in 0..MaxReloads

Over  == {"refused", "done", "failed"}
Phase == {"absent", "waiting", "acting"} \cup Over

ServiceConsistent ==
  /\ phase \in [Actions -> Phase] /\ gated \subseteq Actions
  /\ \A a \in Actions : phase[a] # "absent" => a \in gated
  /\ \A a, b \in Actions : b < a /\ phase[a] # "absent" => phase[b] # "absent"

(* What its session asked for before it is over (ph: the phases).          *)
Leads(a, ph) == \A b \in Actions : b < a /\ Owner[b] = Owner[a] => ph[b] \in Over

(* n: the number of pairings; in: the devices let in; cred: the credential.*)
CallConsistent(call, ph, in, cred, n) ==
  /\ call.device <= n
  /\ call.device <= cred \/ cred = NoDevice
  /\ call.op \in {"poll", "first"} =>
       /\ call.answer = "ok" /\ call.value # NoCard =>
            call.value \in Actions /\ Leads(call.value, ph)
       /\ call.answer = "refused" => call.device \notin in
  /\ call.op = "pair" =>
       /\ cred = NoDevice
       /\ call.answer = "ok" => call.value \in 1..n
  /\ call.answer = "refused" => call.op \in {"poll", "first"}
  /\ call.answer = "running" => call.op = "approve"

(* There is one pairing at a time, and it is the newest.                   *)
PairIsNewest(pair, call) ==
  pair.op = "pair" =>
    /\ call.op # "pair"
    /\ pair.answer = "ok" /\ call # Free => call.device < pair.value

(* Inductive.  What is shown, or on its way to be, leads what waits, and a *)
(* call that is refused was made with a pairing that is over and not newer *)
(* than the one the page has.                                              *)
PageInv ==
  /\ TypeOK
  /\ ServiceConsistent
  /\ card # NoCard => Leads(card, phase)
  /\ \A c \in Slots : calls[c] # Free =>
       CallConsistent(calls[c], phase, accepted, credential, Len(paired))
  /\ \A c, d \in Slots : c # d => PairIsNewest(calls[c], calls[d])

(* What the user is about to approve is not replaced under his thumb by    *)
(* something else he could approve: of two cards of one session that follow*)
(* each other, one waits no more, whatever the order in which polls are    *)
(* answered.                                                               *)
LiveCardStays ==
  [][(/\ card # NoCard /\ card' # NoCard /\ card' # card
      /\ Owner[card] = Owner[card'])
       => ~({phase[card], phase[card']} = {"waiting"})]_<<card, phase>>

(* A pairing is forgotten only when the gateway does not accept it any more*)
(* or, although it does, on a late refusal of the pairing before it.       *)
PairingKept ==
  [][(credential # NoDevice /\ credential' = NoDevice) =>
       \/ credential \notin accepted
       \/ \E c \in Slots : /\ calls[c] # Free /\ calls'[c] = Free
                           /\ calls[c].answer = "refused"
                           /\ calls[c].device < credential]_credential

(* However answers are lost or late, the page comes round to what is: it   *)
(* is not paired, or it is, and shows what waits first for its session (P4 *)
(* requirement 6), and nothing that is decided.                            *)
PageCatchesUp ==
  []<>(credential # NoDevice =>
         credential \in accepted /\ card = FirstWaiting(paired[credential]))
=============================================================================
