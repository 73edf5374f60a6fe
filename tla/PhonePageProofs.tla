-------------------------- MODULE PhonePageProofs ---------------------------
(***************************************************************************)
(* That what the phone's page shows leads what waits for its session, and  *)
(* that a late refusal is of a pairing that is over (PageInv), for every   *)
(* set of actions and sessions and any number of calls under way; from it, *)
(* that no live card replaces another (LiveCardStays) and that a pairing   *)
(* is forgotten only when it, or the one before it, was refused            *)
(* (PairingKept).  That the page catches up is liveness, and TLC's.        *)
(***************************************************************************)
EXTENDS PhonePage, WellFoundedInduction, TLAPS

-----------------------------------------------------------------------------
(* The first of what waits.                                                *)

(* A set of numbers that is not empty has a least one: what makes the      *)
(* CHOOSE of FirstWaiting mean the first of list_pending_phone_approvals.  *)
LEMMA LeastExists ==
  ASSUME NEW S \in SUBSET Nat, S # {}
  PROVE  \E a \in S : \A b \in S : a <= b
<1>1. PICK a \in S : \A b \in S : ~(<<b, a>> \in OpToRel(<, Nat))
  BY Zenon, NatLessThanWellFounded, WFMin
<1>2. \A b \in S : ~(b < a)  BY <1>1 DEF OpToRel
<1> QED BY <1>2

(* What a poll is answered with waits, and nothing of its session that     *)
(* waits comes before it.                                                  *)
LEMMA FirstIsFirst ==
  ASSUME NEW s, FirstWaiting(s) # NoCard
  PROVE  /\ FirstWaiting(s) \in Waiting(s)
         /\ \A b \in Waiting(s) : FirstWaiting(s) <= b
<1>1. Waiting(s) # {} /\ Waiting(s) \in SUBSET Nat
  BY PageAssumption DEF FirstWaiting, Waiting
<1>2. \E a \in Waiting(s) : \A b \in Waiting(s) : a <= b  BY <1>1, LeastExists
<1> QED BY <1>1, <1>2 DEF FirstWaiting

(* It leads: as list_pending_phone_approvals waits for the lock, nothing   *)
(* that came before it is being carried out, and could wait once more.     *)
LEMMA FirstLeads ==
  ASSUME ServiceConsistent, ~Service!Busy, NEW s, FirstWaiting(s) # NoCard
  PROVE  FirstWaiting(s) \in Actions /\ Leads(FirstWaiting(s), phase)
<1> DEFINE v == FirstWaiting(s)
<1>1. /\ v \in Actions /\ Owner[v] = s /\ phase[v] = "waiting"
      /\ \A b \in Waiting(s) : v <= b
  BY FirstIsFirst DEF Waiting
<1> HIDE DEF v
<1>2. ASSUME NEW b \in Actions, b < v, Owner[b] = Owner[v] PROVE phase[b] \in Over
  <2>1. b \notin Waiting(s)  BY <1>1, <1>2, PageAssumption
  <2>2. phase[b] # "waiting"  BY <1>1, <1>2, <2>1 DEF Waiting
  <2>3. phase[b] # "absent" /\ phase[b] \in Phase  BY <1>1, <1>2 DEF ServiceConsistent
  <2>4. phase[b] # "acting"  BY DEF Service!Busy
  <2> QED BY <2>2, <2>3, <2>4 DEF Phase
<1> QED BY <1>1, <1>2 DEF Leads, v

-----------------------------------------------------------------------------
(* The service goes on.                                                    *)

GoesOn(ph, qh) == \A b \in Actions : ph[b] \in Over => qh[b] \in Over

(* What leads goes on leading.                                             *)
LEMMA LeadStays ==
  ASSUME NEW a, NEW ph, NEW qh, GoesOn(ph, qh), Leads(a, ph)
  PROVE  Leads(a, qh)
BY DEF GoesOn, Leads

(* A step of the service: nothing that is over begins again.               *)
LEMMA ServiceMoves ==
  ASSUME ServiceConsistent, NEW a \in Actions,
         \/ Service!Ask(a) /\ \A b \in Actions : b < a => phase[b] # "absent"
         \/ Service!Grant(a) \/ Service!Decline(a)
         \/ Service!Succeed(a) \/ Service!Fail(a) \/ Service!Abort(a)
  PROVE  ServiceConsistent' /\ GoesOn(phase, phase')
<1>1. PICK to \in Phase \ {"absent"} :
        /\ phase' = [phase EXCEPT ![a] = to]
        /\ phase[a] \in {"absent", "waiting", "acting"}
        /\ gated' = gated \cup {a}
        /\ phase[a] = "absent" => \A b \in Actions : b < a => phase[b] # "absent"
  <2>1. CASE Service!Ask(a) /\ \A b \in Actions : b < a => phase[b] # "absent"
    BY <2>1 DEF Service!Ask, Service!Move, Phase
  <2>2. CASE Service!Grant(a) \/ Service!Decline(a) \/ Service!Succeed(a) \/ Service!Fail(a) \/ Service!Abort(a)
    <3>1. phase[a] \in {"waiting", "acting"}
      BY <2>2 DEF Service!Grant, Service!Decline, Service!Succeed, Service!Fail, Service!Abort, Service!Move
    <3>2. a \in gated /\ gated' = gated
      BY <2>2, <3>1 DEF ServiceConsistent, Service!Grant, Service!Decline, Service!Succeed,
                        Service!Fail, Service!Abort
    <3> QED BY <2>2, <3>1, <3>2
            DEF Service!Grant, Service!Decline, Service!Succeed, Service!Fail, Service!Abort,
                Service!Move, Phase, Over
  <2> QED BY <2>1, <2>2
<1>2. phase \in [Actions -> Phase]  BY DEF ServiceConsistent
<1>3. \A b \in Actions : phase'[b] = IF b = a THEN to ELSE phase[b]  BY <1>1, <1>2
<1>4. phase' \in [Actions -> Phase]  BY <1>1, <1>2
<1>5. gated' \subseteq Actions /\ \A b \in Actions : phase'[b] # "absent" => b \in gated'
  BY <1>1, <1>3 DEF ServiceConsistent
<1>6. \A b, d \in Actions : d < b /\ phase'[b] # "absent" => phase'[d] # "absent"
  BY <1>1, <1>3 DEF ServiceConsistent
<1>7. GoesOn(phase, phase')  BY <1>1, <1>3 DEF GoesOn, Over
<1> QED BY <1>4, <1>5, <1>6, <1>7 DEF ServiceConsistent

-----------------------------------------------------------------------------
(* The calls under way.                                                    *)

CallsInv ==
  /\ calls \in [Slots -> Call \cup {Free}]
  /\ \A c \in Slots : calls[c].op \in {"approve", "reject"} => calls[c].task \in Actions
  /\ \A c \in Slots : calls[c] # Free =>
       CallConsistent(calls[c], phase, accepted, credential, Len(paired))
  /\ \A c, d \in Slots : c # d => PairIsNewest(calls[c], calls[d])

(* What is left of the invariant when the calls are put aside.             *)
RestInv ==
  /\ paired \in Seq(Sessions) /\ Len(paired) <= MaxDevices
  /\ {credential} \cup accepted \subseteq 0..Len(paired)
  /\ card \in Actions \cup {NoCard}
  /\ {interval, leaked} \subseteq BOOLEAN
  /\ reloads \in 0..MaxReloads
  /\ ServiceConsistent
  /\ card # NoCard => Leads(card, phase)

(* The invariant is the two of them.                                       *)
LEMMA TwoParts == /\ PageInv <=> CallsInv /\ RestInv
                  /\ PageInv' <=> CallsInv' /\ RestInv'
BY DEF PageInv, TypeOK, CallsInv, RestInv

(* No action is Free, and a call that is not has all its fields.           *)
LEMMA CallFields ==
  ASSUME NEW k \in Call \cup {Free}
  PROVE  /\ Free.op = "free" /\ Free \notin Call
         /\ k.op # "free" => k # Free
         /\ k # Free => /\ k \in Call
                        /\ k.op \in {"poll", "first", "pair", "approve", "reject"}
                        /\ k.device \in Nat /\ k.value \in Nat
<1>1. MaxDevices \in Nat  BY PageAssumption
<1>2. Free.op = "free"  BY DEF Free
<1>3. \A l \in Call : l.op \in {"poll", "first", "pair", "approve", "reject"} /\ l.device \in Nat /\ l.value \in Nat
  BY <1>1 DEF Call
<1>4. Free \notin Call  BY <1>2, <1>3
<1> QED BY <1>2, <1>3, <1>4

(* A call that nobody touches stays consistent while the service goes on   *)
(* and devices are paired or shut out.                                     *)
LEMMA CallStays ==
  ASSUME NEW k, NEW ph, NEW qh, NEW acc, NEW bcc, NEW cred, NEW n \in Nat, NEW m \in Nat,
         k.device \in Nat,
         CallConsistent(k, ph, acc, cred, n), GoesOn(ph, qh), n <= m,
         \A d \in Nat : d <= n /\ d \in bcc => d \in acc
  PROVE  CallConsistent(k, qh, bcc, cred, m)
<1>1. /\ k.device <= n /\ k.device <= m
      /\ k.device <= cred \/ cred = NoDevice
      /\ k.op = "pair" => cred = NoDevice
      /\ k.answer = "refused" => k.op \in {"poll", "first"}
      /\ k.answer = "running" => k.op = "approve"
  BY DEF CallConsistent
<1>2. k.op = "pair" /\ k.answer = "ok" => k.value \in 1..m  BY DEF CallConsistent
<1>3. k.op \in {"poll", "first"} /\ k.answer = "ok" /\ k.value # NoCard =>
        k.value \in Actions /\ Leads(k.value, qh)
  BY LeadStays DEF CallConsistent
<1>4. k.op \in {"poll", "first"} /\ k.answer = "refused" => k.device \notin bcc
  BY <1>1 DEF CallConsistent
<1> QED BY <1>1, <1>2, <1>3, <1>4 DEF CallConsistent

(* One call is replaced: what has to be shown of the new one and of the    *)
(* others.                                                                 *)
LEMMA OneCallChanges ==
  ASSUME CallsInv, NEW c \in Slots, NEW k \in Call \cup {Free},
         calls' = [calls EXCEPT ![c] = k],
         k.op \in {"approve", "reject"} => k.task \in Actions,
         k # Free => CallConsistent(k, phase', accepted', credential', Len(paired')),
         \A d \in Slots \ {c} : calls[d] # Free =>
           CallConsistent(calls[d], phase', accepted', credential', Len(paired')),
         \A d \in Slots \ {c} : PairIsNewest(k, calls[d]) /\ PairIsNewest(calls[d], k)
  PROVE  CallsInv'
<1>1. calls \in [Slots -> Call \cup {Free}]  BY DEF CallsInv
<1>2. \A d \in Slots : calls'[d] = IF d = c THEN k ELSE calls[d]  BY <1>1
<1>3. calls' \in [Slots -> Call \cup {Free}]  BY <1>1
<1>4. \A d \in Slots : calls'[d].op \in {"approve", "reject"} => calls'[d].task \in Actions
  BY <1>2 DEF CallsInv
<1>5. \A d \in Slots : calls'[d] # Free =>
        CallConsistent(calls'[d], phase', accepted', credential', Len(paired'))
  BY <1>2
<1>6. \A d, e \in Slots : d # e => PairIsNewest(calls'[d], calls'[e])
  <2> SUFFICES ASSUME NEW d \in Slots, NEW e \in Slots, d # e
               PROVE  PairIsNewest(calls'[d], calls'[e])  OBVIOUS
  <2>1. CASE d = c  BY <2>1, <1>2
  <2>2. CASE e = c  BY <2>2, <1>2
  <2>3. CASE d # c /\ e # c
    <3>1. calls'[d] = calls[d] /\ calls'[e] = calls[e]  BY <2>3, <1>2
    <3>2. PairIsNewest(calls[d], calls[e])  BY DEF CallsInv
    <3> QED BY <3>1, <3>2
  <2> QED BY <2>1, <2>2, <2>3
<1> QED BY <1>3, <1>4, <1>5, <1>6 DEF CallsInv

(* The calls when none of them changes.                                    *)
LEMMA NoCallChanges ==
  ASSUME CallsInv, UNCHANGED <<calls, credential>>, paired \in Seq(Sessions), paired' \in Seq(Sessions),
         GoesOn(phase, phase'), Len(paired) <= Len(paired'),
         \A d \in Nat : d <= Len(paired) /\ d \in accepted' => d \in accepted
  PROVE  CallsInv'
<1>1. ASSUME NEW c \in Slots, calls[c] # Free
      PROVE  CallConsistent(calls[c], phase', accepted', credential', Len(paired'))
  <2>1. calls[c].device \in Nat /\ CallConsistent(calls[c], phase, accepted, credential, Len(paired))
    BY <1>1, CallFields DEF CallsInv
  <2>2. CallConsistent(calls[c], phase', accepted', credential, Len(paired'))
    BY <2>1, CallStays
  <2> QED BY <2>2
<1> QED BY <1>1 DEF CallsInv

(* All other calls stay, too, when the service and the gateway do.         *)
LEMMA OthersStay ==
  ASSUME CallsInv, UNCHANGED <<service, gateway, credential>>
  PROVE  \A d \in Slots : calls[d] # Free =>
           CallConsistent(calls[d], phase', accepted', credential', Len(paired'))
BY DEF CallsInv, service, gateway

-----------------------------------------------------------------------------
(* Sending a call, and answering it.                                       *)

(* A call is sent: with the newest pairing, or for one when there is none. *)
LEMMA FetchStep ==
  ASSUME PageInv,
         NEW op \in {"poll", "pair", "approve", "reject"}, NEW t \in Actions \cup {NoCard},
         op \in {"approve", "reject"} => t \in Actions,
         op = "pair" => credential = NoDevice /\ ~Underway({"pair", "first"}),
         op # "pair" => credential # NoDevice,
         FreeSlots # {}, Fetch(op, t),
         UNCHANGED <<service, gateway, credential, card, timers, reloads>>
  PROVE  PageInv'
<1> DEFINE k == NewCall(op, credential, t)
<1>1. CallsInv /\ RestInv  BY TwoParts
<1>2. PICK c \in Slots : calls[c] = Free /\ calls' = [calls EXCEPT ![c] = k]
  <2>1. FreeSlots \in SUBSET Nat /\ FreeSlots \subseteq Slots
    BY PageAssumption DEF FreeSlots, Slots
  <2>2. \E c \in FreeSlots : \A d \in FreeSlots : c <= d  BY <2>1, LeastExists
  <2> QED BY <2>1, <2>2 DEF Fetch, FreeSlots
<1>3. /\ k \in Call /\ k.op = op /\ k.task = t /\ k.device = credential
      /\ k.answer = "none"
  <2>1. credential \in 0..MaxDevices  BY <1>1, PageAssumption DEF RestInv
  <2> QED BY <2>1 DEF NewCall, Call
<1>4. \A d \in Slots : calls[d].op = "pair" => op # "pair" /\ credential = NoDevice
  <2> SUFFICES ASSUME NEW d \in Slots, calls[d].op = "pair"
               PROVE  op # "pair" /\ credential = NoDevice  OBVIOUS
  <2>1. op # "pair"  BY DEF Underway
  <2>2. calls[d] # Free  BY <1>1, CallFields DEF CallsInv
  <2> QED BY <1>1, <2>1, <2>2 DEF CallsInv, CallConsistent
<1>5. CallConsistent(k, phase', accepted', credential', Len(paired'))
  <2>1. credential <= Len(paired) /\ credential <= credential  BY <1>1 DEF RestInv
  <2>2. UNCHANGED <<paired, credential>>  BY DEF gateway
  <2> QED BY <1>3, <2>1, <2>2 DEF CallConsistent
<1>6. \A d \in Slots : PairIsNewest(k, calls[d]) /\ PairIsNewest(calls[d], k)
  BY <1>3, <1>4 DEF PairIsNewest
<1> HIDE DEF k
<1>7. CallsInv'  BY <1>1, <1>2, <1>3, <1>5, <1>6, OthersStay, OneCallChanges
<1>8. RestInv'  BY <1>1 DEF RestInv, ServiceConsistent, service, gateway, timers
<1> QED BY <1>7, <1>8, TwoParts

(* A call is answered.                                                     *)
LEMMA AnswerStep ==
  ASSUME CallsInv, NEW c \in Slots, calls[c].op # "free",
         NEW answer \in {"running", "ok", "refused", "error"}, NEW value \in Nat,
         AnswerWith(c, answer, value), UNCHANGED credential,
         paired \in Seq(Sessions), paired' \in Seq(Sessions), Len(paired) <= Len(paired'),
         \A d \in Nat : d <= Len(paired) /\ d \in accepted' => d \in accepted,
         GoesOn(phase, phase'),
         calls[c].op \in {"poll", "first"} /\ answer = "ok" /\ value # NoCard =>
           value \in Actions /\ Leads(value, phase'),
         answer = "refused" =>
           calls[c].op \in {"poll", "first"} /\ calls[c].device \notin accepted',
         answer = "running" => calls[c].op = "approve",
         calls[c].op = "pair" /\ answer = "ok" =>
           value \in 1..Len(paired') /\ Len(paired) < value
  PROVE  CallsInv'
<1>1. PICK old : old = calls[c]  OBVIOUS
<1>2. old \in Call /\ old # Free /\ old.op # "free" /\ old.device \in Nat
  BY <1>1, CallFields DEF CallsInv
<1>3. PICK k \in Call :
        /\ calls' = [calls EXCEPT ![c] = k]
        /\ k.op = old.op /\ k.task = old.task /\ k.device = old.device
        /\ k.answer = answer /\ k.value = value
  <2> DEFINE n == [old EXCEPT !.answer = answer, !.value = value]
  <2>1. /\ n \in Call /\ n.op = old.op /\ n.task = old.task /\ n.device = old.device
        /\ n.answer = answer /\ n.value = value
    BY <1>2 DEF Call
  <2>2. calls' = [calls EXCEPT ![c] = n]  BY <1>1 DEF AnswerWith, CallsInv
  <2> QED BY <2>1, <2>2
<1>4. CallConsistent(old, phase, accepted, credential, Len(paired))  BY <1>1, <1>2 DEF CallsInv
<1>5. Len(paired) \in Nat /\ Len(paired') \in Nat  OBVIOUS
<1>6. CallConsistent(k, phase', accepted', credential', Len(paired'))
  <2>1. /\ k.device <= Len(paired')
        /\ k.device <= credential' \/ credential' = NoDevice
        /\ k.op = "pair" => credential' = NoDevice
    BY <1>2, <1>3, <1>4, <1>5 DEF CallConsistent
  <2>2. k.op \in {"poll", "first"} /\ k.answer = "ok" /\ k.value # NoCard =>
          k.value \in Actions /\ Leads(k.value, phase')
    BY <1>1, <1>3
  <2>3. k.answer = "refused" => k.op \in {"poll", "first"} /\ k.device \notin accepted'
    BY <1>1, <1>3
  <2>4. k.answer = "running" => k.op = "approve"  BY <1>1, <1>3
  <2>5. k.op = "pair" /\ k.answer = "ok" => k.value \in 1..Len(paired')  BY <1>1, <1>3
  <2> QED BY <2>1, <2>2, <2>3, <2>4, <2>5 DEF CallConsistent
<1>7. ASSUME NEW d \in Slots \ {c}, calls[d] # Free
      PROVE  /\ CallConsistent(calls[d], phase', accepted', credential', Len(paired'))
             /\ calls[d].device <= Len(paired) /\ calls[d].device \in Nat
  <2>1. calls[d].device \in Nat /\ CallConsistent(calls[d], phase, accepted, credential, Len(paired))
    BY <1>7, CallFields DEF CallsInv
  <2> QED BY <1>5, <2>1, CallStays DEF CallConsistent
<1>8. ASSUME NEW d \in Slots \ {c}
      PROVE  PairIsNewest(k, calls[d]) /\ PairIsNewest(calls[d], k)
  <2>1. PairIsNewest(old, calls[d]) /\ PairIsNewest(calls[d], old)  BY <1>1 DEF CallsInv
  <2>2. PairIsNewest(calls[d], k)
    BY <1>2, <1>3, <2>1, CallFields DEF PairIsNewest
  <2>3. PairIsNewest(k, calls[d])
    BY <1>1, <1>3, <1>5, <1>7, <2>1 DEF PairIsNewest
  <2> QED BY <2>2, <2>3
<1>9. k.op \in {"approve", "reject"} => k.task \in Actions  BY <1>1, <1>3 DEF CallsInv
<1>10. \A d \in Slots \ {c} : calls[d] # Free =>
         CallConsistent(calls[d], phase', accepted', credential', Len(paired'))
  BY <1>7
<1>11. \A d \in Slots \ {c} : PairIsNewest(k, calls[d]) /\ PairIsNewest(calls[d], k)  BY <1>8
<1>12. k \in Call \cup {Free} /\ calls' = [calls EXCEPT ![c] = k]  BY <1>3
<1> QED BY <1>6, <1>9, <1>10, <1>11, <1>12, OneCallChanges

-----------------------------------------------------------------------------
(* The steps.                                                              *)

(* What the page sends, from the user or an interval.                      *)
LEMMA SendStep ==
  ASSUME PageInv,
         TimerFires \/ SubmitCode \/ \E decision \in {"approve", "reject"} : Decide(decision)
  PROVE  PageInv'
<1>1. card \in Actions \cup {NoCard}  BY DEF PageInv, TypeOK
<1>2. CASE TimerFires  BY <1>2, FetchStep DEF TimerFires
<1>3. CASE SubmitCode  BY <1>3, FetchStep DEF SubmitCode
<1>4. ASSUME NEW decision \in {"approve", "reject"}, Decide(decision) PROVE PageInv'
  <2>1. /\ credential # NoDevice /\ card \in Actions /\ FreeSlots # {}
        /\ Fetch(decision, card)
        /\ UNCHANGED <<service, gateway, credential, card, timers, reloads>>
    BY <1>1, <1>4 DEF Decide
  <2>2. decision \in {"poll", "pair", "approve", "reject"} /\ decision # "pair"  OBVIOUS
  <2> QED BY <2>1, <2>2, FetchStep
<1> QED BY <1>2, <1>3, <1>4

(* Loaded again, the page has at most the poll it begins with.             *)
LEMMA ReloadStep == ASSUME PageInv, Reload PROVE PageInv'
<1>1. CallsInv /\ RestInv  BY TwoParts
<1> DEFINE k == NewCall("poll", credential, NoCard)
<1>2. \A c \in Slots : calls'[c] = Free \/ (credential # NoDevice /\ c = 1 /\ calls'[c] = k)
  BY DEF Reload
<1>3. /\ k \in Call /\ k.op = "poll" /\ k.device = credential /\ k.answer = "none"
  <2>1. credential \in 0..MaxDevices  BY <1>1, PageAssumption DEF RestInv
  <2> QED BY <2>1 DEF NewCall, Call
<1>4. CallConsistent(k, phase', accepted', credential', Len(paired'))
  <2>1. credential <= Len(paired) /\ credential <= credential
    <3>1. credential \in 0..Len(paired) /\ paired \in Seq(Sessions)  BY <1>1 DEF RestInv
    <3> QED BY ONLY <3>1
  <2>2. UNCHANGED <<paired, credential>>  BY DEF gateway, Reload
  <2> QED BY <1>3, <2>1, <2>2 DEF CallConsistent
<1>5. calls' \in [Slots -> Call \cup {Free}]
  <2> HIDE DEF k
  <2>1. \A c \in Slots : calls'[c] \in Call \cup {Free}  BY <1>2, <1>3
  <2>2. calls' = [c \in Slots |-> calls'[c]]  BY DEF Reload
  <2> QED BY <2>1, <2>2
<1> HIDE DEF k
<1>6. /\ \A c \in Slots : calls'[c].op \in {"approve", "reject"} => calls'[c].task \in Actions
      /\ \A c, d \in Slots : c # d => PairIsNewest(calls'[c], calls'[d])
  BY <1>2, <1>3 DEF Free, PairIsNewest
<1>7. \A c \in Slots : calls'[c] # Free =>
        CallConsistent(calls'[c], phase', accepted', credential', Len(paired'))
  BY <1>2, <1>4
<1>8. CallsInv'  BY <1>5, <1>6, <1>7 DEF CallsInv
<1>9. RestInv'
  <2>1. reloads' \in 0..MaxReloads
    <3>1. /\ reloads \in 0..MaxReloads /\ MaxReloads \in Nat
          /\ reloads < MaxReloads /\ reloads' = reloads + 1
      BY <1>1, PageAssumption DEF RestInv, Reload
    <3> QED BY ONLY <3>1
  <2>2. UNCHANGED <<phase, gated, paired, accepted, credential>>  BY DEF Reload, service, gateway
  <2>3. interval' \in BOOLEAN /\ leaked' \in BOOLEAN /\ card' = NoCard  BY DEF Reload
  <2> QED BY <1>1, <2>1, <2>2, <2>3 DEF RestInv, ServiceConsistent
<1> QED BY <1>8, <1>9, TwoParts

(* The rest, while only the service moves.                                 *)
LEMMA RestStays ==
  ASSUME RestInv, ServiceConsistent', GoesOn(phase, phase'),
         UNCHANGED <<gateway, credential, card, timers, reloads>>
  PROVE  RestInv'
<1>1. card # NoCard => Leads(card, phase')  BY LeadStays DEF RestInv
<1> QED BY <1>1 DEF RestInv, gateway, timers

(* A service that does not move.                                           *)
LEMMA ServiceRests ==
  ASSUME ServiceConsistent, UNCHANGED service
  PROVE  ServiceConsistent' /\ GoesOn(phase, phase')
BY DEF service, ServiceConsistent, GoesOn

(* A poll is answered.                                                     *)
LEMMA PollStep == ASSUME PageInv, NEW c \in Slots, ServePoll(c) PROVE PageInv'
<1>1. CallsInv /\ RestInv  BY TwoParts
<1>2. /\ calls[c].op \in {"poll", "first"}
      /\ UNCHANGED <<service, gateway, credential, card, timers, reloads>>
      /\ UNCHANGED <<paired, accepted>>
  BY DEF ServePoll, Unserved, gateway
<1>3. ServiceConsistent /\ ServiceConsistent' /\ GoesOn(phase, phase') /\ phase' = phase
  BY <1>1, <1>2, ServiceRests DEF RestInv, service
<1>4. RestInv'  BY <1>1, <1>2, <1>3, RestStays
<1>5. paired \in Seq(Sessions) /\ Len(paired) <= Len(paired')
  BY <1>1, <1>2 DEF RestInv
<1>6. CallsInv'
  <2>1. CASE calls[c].device \in accepted
    <3>1. PICK v : v = FirstWaiting(paired[calls[c].device])  OBVIOUS
    <3>2. ~Service!Busy /\ AnswerWith(c, "ok", v)  BY <2>1, <3>1 DEF ServePoll
    <3>3. v # NoCard => v \in Actions /\ Leads(v, phase)  BY <1>3, <3>1, <3>2, FirstLeads
    <3>4. v \in Nat
      <4>1. v = 0 \/ v \in Actions  BY <3>3 DEF NoCard
      <4>2. \A a \in Actions : a \in Nat  BY PageAssumption
      <4>3. 0 \in Nat  OBVIOUS
      <4> QED BY Zenon, <4>1, <4>2, <4>3
    <3> QED BY <1>1, <1>2, <1>3, <1>5, <3>2, <3>3, <3>4, AnswerStep
  <2>2. CASE calls[c].device \notin accepted
    <3>1. AnswerWith(c, "refused", 0)  BY <2>2 DEF ServePoll
    <3> QED BY <1>1, <1>2, <1>3, <1>5, <2>2, <3>1, AnswerStep
  <2> QED BY <2>1, <2>2
<1> QED BY <1>4, <1>6, TwoParts

(* A code is redeemed, or not: a new device is newer than all others.      *)
LEMMA PairingStep == ASSUME PageInv, NEW c \in Slots, ServePairing(c) PROVE PageInv'
<1>1. CallsInv /\ RestInv  BY TwoParts
<1>2. /\ calls[c].op = "pair"
      /\ UNCHANGED <<service, credential, card, timers, reloads>>
  BY DEF ServePairing, Unserved
<1>3. ServiceConsistent /\ ServiceConsistent' /\ GoesOn(phase, phase') /\ phase' = phase
  BY <1>1, <1>2, ServiceRests DEF RestInv, service
<1>4. paired \in Seq(Sessions)  BY <1>1 DEF RestInv
<1>5. CASE /\ Len(paired) < MaxDevices
           /\ \E s \in Sessions : paired' = Append(paired, s)
           /\ accepted' = accepted \cup {Len(paired')}
           /\ AnswerWith(c, "ok", Len(paired'))
  <2>1. paired' \in Seq(Sessions) /\ Len(paired') = Len(paired) + 1  BY <1>4, <1>5
  <2>2. Len(paired') \in Nat /\ Len(paired) \in Nat  BY <1>4, <2>1
  <2>3. \A d \in Nat : d <= Len(paired) /\ d \in accepted' => d \in accepted
    BY <1>5, <2>1, <2>2
  <2>4. Len(paired') \in 1..Len(paired') /\ Len(paired) < Len(paired') /\ Len(paired) <= Len(paired')
    BY <2>1, <2>2
  <2>5. CallsInv'
    BY <1>1, <1>2, <1>3, <1>4, <1>5, <2>1, <2>2, <2>3, <2>4, AnswerStep
  <2>6. {credential'} \cup accepted' \subseteq 0..Len(paired') /\ Len(paired') <= MaxDevices
    BY <1>1, <1>2, <1>5, <2>1, <2>2, PageAssumption DEF RestInv
  <2>7. RestInv'  BY <1>1, <1>2, <1>3, <2>1, <2>6 DEF RestInv, timers
  <2> QED BY <2>5, <2>7, TwoParts
<1>6. CASE AnswerWith(c, "error", 0) /\ UNCHANGED gateway
  <2>1. UNCHANGED <<paired, accepted>> /\ Len(paired) <= Len(paired')
    BY <1>4, <1>6 DEF gateway
  <2>2. CallsInv'  BY <1>1, <1>2, <1>3, <1>4, <1>6, <2>1, AnswerStep
  <2>3. RestInv'  BY <1>1, <1>2, <1>3, <1>6, RestStays
  <2> QED BY <2>2, <2>3, TwoParts
<1> QED BY <1>5, <1>6 DEF ServePairing

(* A decision is answered, or a request fails.                             *)
LEMMA DecisionStep ==
  ASSUME PageInv, NEW c \in Slots, ServeDecision(c) \/ RequestFails(c)
  PROVE  PageInv'
<1>1. CallsInv /\ RestInv  BY TwoParts
<1>2. PICK answer \in {"running", "ok", "error"} :
        /\ AnswerWith(c, answer, 0)
        /\ calls[c].op \in {"pair", "approve", "reject"}
        /\ calls[c].op = "pair" => answer = "error"
        /\ answer = "running" => calls[c].op = "approve"
  BY DEF ServeDecision, RequestFails, Unserved
<1>3. /\ UNCHANGED <<gateway, credential, card, timers, reloads>> /\ UNCHANGED <<paired, accepted>>
  BY DEF ServeDecision, RequestFails, gateway
<1>4. ServiceConsistent' /\ GoesOn(phase, phase')
  <2>1. ServiceConsistent  BY <1>1 DEF RestInv
  <2>2. CASE UNCHANGED service  BY <2>1, <2>2, ServiceRests
  <2>3. CASE ~UNCHANGED service
    <3>1. calls[c].op \in {"approve", "reject"}  BY <2>3 DEF ServeDecision, RequestFails, Unserved
    <3>2. calls[c].task \in Actions  BY <1>1, <3>1 DEF CallsInv
    <3>3. Service!Grant(calls[c].task) \/ Service!Decline(calls[c].task)
      BY <2>3 DEF ServeDecision, RequestFails
    <3> QED BY <2>1, <3>2, <3>3, ServiceMoves
  <2> QED BY <2>2, <2>3
<1>5. paired \in Seq(Sessions) /\ Len(paired) <= Len(paired')
  BY <1>1, <1>3 DEF RestInv
<1>6. CallsInv'  BY <1>1, <1>2, <1>3, <1>4, <1>5, AnswerStep
<1>7. RestInv'  BY <1>1, <1>3, <1>4, RestStays
<1> QED BY <1>6, <1>7, TwoParts

(* The service goes on with what this page did not ask for, and a device   *)
(* is shut out.                                                            *)
LEMMA ElsewhereStep ==
  ASSUME PageInv,
         \/ \E a \in Actions : Ask(a) \/ DecidedElsewhere(a)
         \/ \E d \in accepted : SessionEnds(d)
  PROVE  PageInv'
<1>1. CallsInv /\ RestInv  BY TwoParts
<1>2. /\ UNCHANGED <<credential, card, timers, reloads, calls, paired>>
      /\ accepted' \subseteq accepted
  BY DEF Ask, DecidedElsewhere, SessionEnds, gateway
<1>3. ServiceConsistent' /\ GoesOn(phase, phase')
  <2>1. ServiceConsistent  BY <1>1 DEF RestInv
  <2>2. CASE \E d \in accepted : SessionEnds(d)  BY <2>1, <2>2, ServiceRests DEF SessionEnds
  <2>3. ASSUME NEW a \in Actions, Ask(a) PROVE ServiceConsistent' /\ GoesOn(phase, phase')
    BY <2>1, <2>3, ServiceMoves DEF Ask
  <2>4. ASSUME NEW a \in Actions, DecidedElsewhere(a)
        PROVE  ServiceConsistent' /\ GoesOn(phase, phase')
    BY <2>1, <2>4, ServiceMoves DEF DecidedElsewhere
  <2> QED BY <2>2, <2>3, <2>4
<1>4. paired \in Seq(Sessions) /\ Len(paired) <= Len(paired')  BY <1>1, <1>2 DEF RestInv
<1>5. CallsInv'  BY <1>1, <1>2, <1>3, <1>4, NoCallChanges
<1>6. RestInv'
  <2>1. card # NoCard => Leads(card, phase')  BY <1>1, <1>3, LeadStays DEF RestInv
  <2> QED BY <1>1, <1>2, <1>3, <2>1 DEF RestInv, timers
<1> QED BY <1>5, <1>6, TwoParts

(* What was granted ends, which is the answer to who granted it.           *)
LEMMA RunEndsStep ==
  ASSUME PageInv, NEW a \in Actions, Completes(a) \/ Interrupted(a)
  PROVE  PageInv'
<1>1. CallsInv /\ RestInv  BY TwoParts
<1>2. UNCHANGED <<gateway, credential, card, timers, reloads>> /\ UNCHANGED <<paired, accepted>>
  BY DEF Completes, Interrupted, gateway
<1>3. ServiceConsistent' /\ GoesOn(phase, phase')
  BY <1>1, ServiceMoves DEF RestInv, Completes, Interrupted
<1>4. PICK answer \in {"ok", "error"} : AnswerRunning(answer)  BY DEF Completes, Interrupted
<1>5. ASSUME NEW c \in Slots
      PROVE  /\ calls'[c] \in Call \cup {Free}
             /\ calls'[c].op = calls[c].op
             /\ (calls[c] = Free <=> calls'[c] = Free)
             /\ calls[c] # Free => /\ calls'[c].task = calls[c].task
                                   /\ calls'[c].device = calls[c].device
                                   /\ CallConsistent(calls'[c], phase', accepted', credential', Len(paired'))
             /\ calls[c].op # "approve" => calls'[c] = calls[c]
  <2>1. PICK k : k = calls[c]  OBVIOUS
  <2>2. k \in Call \cup {Free}  BY <1>1, <2>1 DEF CallsInv
  <2>3. calls'[c] = IF k # Free /\ k.answer = "running" THEN [k EXCEPT !.answer = answer] ELSE k
    BY <1>4, <2>1 DEF AnswerRunning
  <2>4. k # Free => CallConsistent(k, phase, accepted, credential, Len(paired))
    BY <1>1, <2>1 DEF CallsInv
  <2>5. k # Free => CallConsistent(k, phase', accepted', credential', Len(paired'))
    <3>1. paired \in Seq(Sessions) /\ Len(paired) \in Nat /\ Len(paired) <= Len(paired)
      BY <1>1 DEF RestInv
    <3> QED BY <1>2, <1>3, <2>2, <2>4, <3>1, CallFields, CallStays
  <2>6. CASE k = Free \/ k.answer # "running"  BY <2>1, <2>2, <2>3, <2>5, <2>6
  <2>7. CASE k # Free /\ k.answer = "running"
    <3>1. k \in Call /\ k.op = "approve"  BY <2>2, <2>4, <2>7 DEF CallConsistent
    <3>2. PICK n : n = [k EXCEPT !.answer = answer]  OBVIOUS
    <3>3. /\ n \in Call /\ n.op = k.op /\ n.task = k.task /\ n.device = k.device
          /\ n.answer = answer
      BY <3>1, <3>2 DEF Call
    <3>4. n # Free  BY <3>1, <3>3, CallFields
    <3>5. CallConsistent(n, phase', accepted', credential', Len(paired'))
      BY <2>5, <2>7, <3>1, <3>3 DEF CallConsistent
    <3>6. calls'[c] = n  BY <2>3, <2>7, <3>2
    <3> QED BY <2>1, <2>7, <3>1, <3>3, <3>4, <3>5, <3>6
  <2> QED BY <2>6, <2>7
<1>6. calls' \in [Slots -> Call \cup {Free}]
  <2>1. calls' = [c \in Slots |-> calls'[c]]  BY <1>4 DEF AnswerRunning
  <2> QED BY <1>5, <2>1
<1>7. \A c \in Slots : calls'[c].op \in {"approve", "reject"} => calls'[c].task \in Actions
  <2> SUFFICES ASSUME NEW c \in Slots, calls'[c].op \in {"approve", "reject"}
               PROVE  calls'[c].task \in Actions  OBVIOUS
  <2>1. calls[c].op \in {"approve", "reject"} /\ calls[c].task \in Actions
    BY <1>1, <1>5 DEF CallsInv
  <2>2. calls[c] # Free  BY <2>1 DEF Free
  <2> QED BY <1>5, <2>1, <2>2
<1>8. \A c, d \in Slots : c # d => PairIsNewest(calls'[c], calls'[d])
  <2> SUFFICES ASSUME NEW c \in Slots, NEW d \in Slots, c # d
               PROVE  PairIsNewest(calls'[c], calls'[d])  OBVIOUS
  <2>1. PairIsNewest(calls[c], calls[d])  BY <1>1 DEF CallsInv
  <2>2. calls'[c].op = "pair" => calls[c].op = "pair" /\ calls'[c] = calls[c]  BY <1>5
  <2> QED BY <1>5, <2>1, <2>2 DEF PairIsNewest
<1>9. CallsInv'  BY <1>5, <1>6, <1>7, <1>8 DEF CallsInv
<1>10. RestInv'  BY <1>1, <1>2, <1>3, RestStays
<1> QED BY <1>9, <1>10, TwoParts

(* An answer arrives.                                                      *)
LEMMA ResumeStep ==
  ASSUME PageInv, NEW c \in Slots, Resume(c)
  PROVE  PageInv'
<1>1. CallsInv /\ RestInv  BY TwoParts
<1>2. UNCHANGED <<service, gateway, reloads>> /\ UNCHANGED <<phase, gated, paired, accepted>>
  BY DEF Resume, PollArrives, PollRefused, FirstPollArrives, PairingArrives, PairingFails,
         DecisionArrives, service, gateway
<1>3. PICK old : old = calls[c]  OBVIOUS
<1>4. old.op # "free"
  BY <1>3 DEF Resume, PollArrives, PollRefused, FirstPollArrives, PairingArrives, PairingFails,
              DecisionArrives, Arrived
<1>5. /\ old \in Call /\ old.device \in Nat
      /\ CallConsistent(old, phase, accepted, credential, Len(paired))
  BY <1>1, <1>3, <1>4, CallFields DEF CallsInv
<1>6. /\ \/ card' \in {card, NoCard}
         \/ card' = old.value /\ old.op \in {"poll", "first"} /\ old.answer = "ok"
      /\ {interval', leaked'} \subseteq BOOLEAN
  <2>1. {interval, leaked} \subseteq BOOLEAN  BY <1>1 DEF RestInv
  <2>2. \/ interval' = interval /\ leaked' = leaked
        \/ interval' = FALSE /\ leaked' = leaked
        \/ interval' = TRUE /\ leaked' = (leaked \/ (interval /\ old.answer # "refused"))
    BY <1>3 DEF Resume, PollArrives, PollRefused, FirstPollArrives, PairingArrives, PairingFails,
                DecisionArrives, timers
  <2>3. {interval', leaked'} \subseteq BOOLEAN  BY Zenon, <2>1, <2>2
  <2>4. \/ card' \in {card, NoCard}
        \/ card' = old.value /\ old.op \in {"poll", "first"} /\ old.answer = "ok"
    BY <1>3 DEF Resume, PollArrives, PollRefused, FirstPollArrives, PairingArrives, PairingFails,
                DecisionArrives, Arrived, Show
  <2> QED BY <2>3, <2>4
<1>7. card' \in Actions \cup {NoCard} /\ (card' # NoCard => Leads(card', phase'))
  BY <1>1, <1>2, <1>5, <1>6 DEF RestInv, CallConsistent
<1>8. CASE calls' = [calls EXCEPT ![c] = Free] /\ credential' \in {credential, NoDevice}
  <2>1. CallsInv'
    <3>1. \A d \in Slots \ {c} : calls[d] # Free =>
            CallConsistent(calls[d], phase', accepted', credential', Len(paired'))
      BY <1>1, <1>2, <1>8 DEF CallsInv, CallConsistent
    <3>2. \A d \in Slots \ {c} : PairIsNewest(Free, calls[d]) /\ PairIsNewest(calls[d], Free)
      BY CallFields DEF PairIsNewest, Free
    <3>3. Free \in Call \cup {Free} /\ Free.op = "free"  BY DEF Free
    <3> QED BY <1>1, <1>8, <3>1, <3>2, <3>3, OneCallChanges
  <2>2. credential' \in 0..Len(paired')
    <3>1. /\ credential \in 0..Len(paired) /\ paired \in Seq(Sessions) /\ paired' = paired
          /\ credential' = credential \/ credential' = 0
      BY <1>1, <1>2, <1>8 DEF RestInv, NoDevice
    <3> QED BY ONLY <3>1
  <2>3. RestInv'  BY <1>1, <1>2, <1>6, <1>7, <2>2 DEF RestInv, ServiceConsistent
  <2> QED BY <2>1, <2>3, TwoParts
<1>9. CASE PairingArrives(c)
  <2>1. /\ old.op = "pair" /\ old.answer = "ok" /\ credential' = old.value
        /\ calls' = [calls EXCEPT ![c] = NewCall("first", old.value, NoCard)]
        /\ UNCHANGED <<card, timers>>
    BY <1>3, <1>9 DEF PairingArrives, Arrived
  <2>2. old.value \in 1..Len(paired)  BY <1>5, <2>1 DEF CallConsistent
  <2>3. Len(paired) \in Nat /\ Len(paired) <= MaxDevices /\ MaxDevices \in Nat
    BY <1>1, PageAssumption DEF RestInv
  <2>4. PICK k : k = NewCall("first", old.value, NoCard)  OBVIOUS
  <2>5. /\ k \in Call /\ k.op = "first" /\ k.device = old.value /\ k.answer = "none"
    <3>1. old.value \in 0..MaxDevices  BY <2>2, <2>3
    <3> QED BY <2>4, <3>1 DEF NewCall, Call
  <2>6. CallConsistent(k, phase', accepted', credential', Len(paired'))
    <3>1. k.device <= Len(paired') /\ k.device <= credential'  BY <1>2, <2>1, <2>2, <2>3, <2>5
    <3> QED BY <2>5, <3>1 DEF CallConsistent
  <2>7. ASSUME NEW d \in Slots \ {c}
        PROVE  /\ calls[d].op # "pair"
               /\ calls[d] # Free => /\ calls[d].device < old.value
                                     /\ CallConsistent(calls[d], phase, accepted, credential, Len(paired))
    BY <1>1, <1>3, <2>1 DEF CallsInv, PairIsNewest
  <2>8. \A d \in Slots \ {c} : calls[d] # Free =>
          CallConsistent(calls[d], phase', accepted', credential', Len(paired'))
    <3> SUFFICES ASSUME NEW d \in Slots \ {c}, calls[d] # Free
                 PROVE  CallConsistent(calls[d], phase', accepted', credential', Len(paired'))
      OBVIOUS
    <3>1. calls[d].device \in Nat  BY <1>1, CallFields DEF CallsInv
    <3>2. calls[d].device <= credential'  BY <2>1, <2>2, <2>3, <2>7, <3>1
    <3> QED BY <1>2, <2>7, <3>2 DEF CallConsistent
  <2>9. \A d \in Slots \ {c} : PairIsNewest(k, calls[d]) /\ PairIsNewest(calls[d], k)
    BY <2>5, <2>7 DEF PairIsNewest
  <2>10. CallsInv'
    <3>1. k \in Call \cup {Free} /\ k.op \notin {"approve", "reject"}  BY <2>5
    <3> QED BY <1>1, <2>1, <2>4, <2>6, <2>8, <2>9, <3>1, OneCallChanges
  <2>11. credential' \in 0..Len(paired')  BY <1>2, <2>1, <2>2, <2>3
  <2>12. RestInv'  BY <1>1, <1>2, <1>6, <1>7, <2>11 DEF RestInv, ServiceConsistent
  <2> QED BY <2>10, <2>12, TwoParts
<1>10. CASE DecisionArrives(c) /\ credential # NoDevice
  <2>1. /\ calls' = [calls EXCEPT ![c] = NewCall("poll", credential, NoCard)]
        /\ UNCHANGED credential
    BY <1>10 DEF DecisionArrives, PollAgain
  <2>2. /\ credential \in 0..Len(paired) /\ Len(paired) \in Nat
        /\ Len(paired) <= MaxDevices /\ MaxDevices \in Nat
    BY <1>1, PageAssumption DEF RestInv
  <2>3. PICK k : k = NewCall("poll", credential, NoCard)  OBVIOUS
  <2>4. k \in Call /\ k.op = "poll" /\ k.device = credential /\ k.answer = "none"
    <3>1. credential \in 0..MaxDevices  BY <2>2
    <3> QED BY <2>3, <3>1 DEF NewCall, Call
  <2>5. CallConsistent(k, phase', accepted', credential', Len(paired'))
    <3>1. k.device <= Len(paired') /\ k.device <= credential'  BY <1>2, <2>1, <2>2, <2>4
    <3> QED BY <2>4, <3>1 DEF CallConsistent
  <2>6. \A d \in Slots : calls[d].op # "pair"
    <3> SUFFICES ASSUME NEW d \in Slots, calls[d].op = "pair" PROVE FALSE  OBVIOUS
    <3>1. calls[d] # Free  BY CallFields DEF Free
    <3> QED BY <1>1, <1>10, <3>1 DEF CallsInv, CallConsistent
  <2>7. \A d \in Slots \ {c} : PairIsNewest(k, calls[d]) /\ PairIsNewest(calls[d], k)
    BY <2>4, <2>6 DEF PairIsNewest
  <2>8. \A d \in Slots : calls[d] # Free =>
          CallConsistent(calls[d], phase', accepted', credential', Len(paired'))
    BY <1>1, <1>2, <2>1, OthersStay
  <2>9. CallsInv'
    <3>1. k \in Call \cup {Free} /\ k.op \notin {"approve", "reject"}  BY <2>4
    <3> QED BY <1>1, <2>1, <2>3, <2>5, <2>7, <2>8, <3>1, OneCallChanges
  <2>10. RestInv'  BY <1>1, <1>2, <1>6, <1>7, <2>1 DEF RestInv, ServiceConsistent
  <2> QED BY <2>9, <2>10, TwoParts
<1>11. CASE PollArrives(c) \/ PollRefused(c) \/ FirstPollArrives(c) \/ PairingFails(c)
            \/ (DecisionArrives(c) /\ credential = NoDevice)
  <2>1. calls' = [calls EXCEPT ![c] = Free] /\ credential' \in {credential, NoDevice}
    BY <1>11 DEF PollArrives, PollRefused, FirstPollArrives, PairingFails, DecisionArrives,
                 Return, PollAgain
  <2> QED BY <1>8, <2>1
<1> QED BY <1>9, <1>10, <1>11 DEF Resume

-----------------------------------------------------------------------------
(* The theorems.                                                           *)

(* Initially no call is under way and nothing was asked for.               *)
LEMMA InitInv == ASSUME Init PROVE PageInv
<1>1. ServiceConsistent  BY DEF Init, Service!Init, ServiceConsistent, Phase
<1>2. CallsInv
  <2>1. \A c \in Slots : calls[c] = Free  BY DEF Init
  <2>2. calls \in [Slots -> Call \cup {Free}]  BY DEF Init
  <2> QED BY <2>1, <2>2 DEF CallsInv, PairIsNewest, Free
<1>3. RestInv
  <2>1. paired = << >> /\ paired \in Seq(Sessions) /\ Len(paired) = 0  BY DEF Init
  <2>2. Len(paired) <= MaxDevices /\ 0 \in 0..MaxReloads  BY <2>1, PageAssumption
  <2>3. /\ credential = 0 /\ accepted = {} /\ card = NoCard /\ reloads = 0
        /\ {interval, leaked} \subseteq BOOLEAN
    BY DEF Init, NoDevice
  <2>4. {credential} \cup accepted \subseteq 0..Len(paired)  BY <2>1, <2>3
  <2> QED BY <1>1, <2>1, <2>2, <2>3, <2>4 DEF RestInv
<1> QED BY <1>2, <1>3, TwoParts

(* Every step keeps the invariant.                                         *)
LEMMA NextInv == ASSUME PageInv, [Next]_vars PROVE PageInv'
<1>1. CASE UNCHANGED vars
  <2>1. UNCHANGED <<phase, gated, paired, accepted, credential, card, interval, leaked, calls, reloads>>
    BY <1>1 DEF vars, service, gateway, timers
  <2> QED BY <2>1 DEF PageInv, TypeOK, ServiceConsistent
<1>2. CASE User \/ TimerFires  BY <1>2, SendStep, ReloadStep DEF User
<1>3. CASE Finish  BY <1>3, RunEndsStep DEF Finish
<1>4. ASSUME NEW a \in Actions, Ask(a) \/ DecidedElsewhere(a) \/ Interrupted(a) PROVE PageInv'
  BY <1>4, ElsewhereStep, RunEndsStep
<1>5. ASSUME NEW d \in accepted, SessionEnds(d) PROVE PageInv'  BY <1>5, ElsewhereStep
<1>6. ASSUME NEW c \in Slots,
             ServePoll(c) \/ ServePairing(c) \/ ServeDecision(c) \/ RequestFails(c) \/ Resume(c)
      PROVE  PageInv'
  BY <1>6, PollStep, PairingStep, DecisionStep, ResumeStep
<1> QED BY <1>1, <1>2, <1>3, <1>4, <1>5, <1>6 DEF Next

(* What the page shows, or is about to show, leads what waits for its      *)
(* session, and a refusal under way is of a pairing that is over and not   *)
(* newer than the page's own.                                              *)
THEOREM PageInvariant == Spec => []PageInv
<1>1. Init => PageInv  BY InitInv
<1>2. PageInv /\ [Next]_vars => PageInv'  BY NextInv
<1> QED BY <1>1, <1>2, PTL DEF Spec

(* Of two cards of one session that renderApproval shows one after the     *)
(* other, one waits no more, in whatever order the polls were answered.    *)
THEOREM NoLiveCardReplaced == Spec => LiveCardStays
<1>1. ASSUME PageInv, [Next]_vars
      PROVE  [(/\ card # NoCard /\ card' # NoCard /\ card' # card
               /\ Owner[card] = Owner[card'])
                => ~({phase[card], phase[card']} = {"waiting"})]_<<card, phase>>
  <2> SUFFICES ASSUME card # NoCard, card' # NoCard, card' # card, Owner[card] = Owner[card'],
                      phase[card] = "waiting", phase[card'] = "waiting"
               PROVE  FALSE
    OBVIOUS
  <2>1. card \in Actions /\ Leads(card, phase)  BY <1>1 DEF PageInv, TypeOK
  <2>2. PICK c \in Slots : PollArrives(c) \/ FirstPollArrives(c)
    BY <1>1 DEF Next, vars, User, TimerFires, SubmitCode, Decide, Reload, Finish, Completes, Ask,
           DecidedElsewhere, Interrupted, SessionEnds, ServePoll, ServePairing, ServeDecision,
           RequestFails, Resume, PollRefused, PairingArrives, PairingFails, DecisionArrives
  <2>3. card' \in Actions /\ Leads(card', phase)
    <3>1. /\ calls[c].op \in {"poll", "first"} /\ calls[c].answer = "ok" /\ card' = calls[c].value
      BY <2>2 DEF PollArrives, FirstPollArrives, Arrived, Show
    <3>2. calls[c] # Free  BY <3>1 DEF Free
    <3> QED BY <1>1, <3>1, <3>2 DEF PageInv, CallConsistent
  <2>4. CASE card < card'  BY <2>1, <2>3, <2>4 DEF Leads, Over
  <2>5. CASE card' < card  BY <2>1, <2>3, <2>5 DEF Leads, Over
  <2>6. card \in Nat /\ card' \in Nat  BY <2>1, <2>3, PageAssumption
  <2> QED BY <2>4, <2>5, <2>6
<1> QED BY <1>1, PageInvariant, PTL DEF Spec, LiveCardStays

(* clearPairing drops a credential the gateway still accepts only on a     *)
(* late refusal of the one before it.                                      *)
THEOREM PairingIsKept == Spec => PairingKept
<1>1. ASSUME PageInv, [Next]_vars
      PROVE  [(credential # NoDevice /\ credential' = NoDevice) =>
                \/ credential \notin accepted
                \/ \E c \in Slots : /\ calls[c] # Free /\ calls'[c] = Free
                                    /\ calls[c].answer = "refused"
                                    /\ calls[c].device < credential]_credential
  <2> SUFFICES ASSUME credential # NoDevice, credential' = NoDevice, credential \in accepted
               PROVE  \E c \in Slots : /\ calls[c] # Free /\ calls'[c] = Free
                                       /\ calls[c].answer = "refused"
                                       /\ calls[c].device < credential
    OBVIOUS
  <2>1. PICK c \in Slots : PollRefused(c) \/ FirstPollArrives(c) \/ PairingArrives(c)
    BY <1>1 DEF Next, vars, User, TimerFires, SubmitCode, Decide, Reload, Finish, Completes, Ask,
           DecidedElsewhere, Interrupted, SessionEnds, ServePoll, ServePairing, ServeDecision,
           RequestFails, Resume, PollArrives, PairingFails, DecisionArrives
  <2>2. calls[c].op # "free"
    BY <2>1 DEF PollRefused, FirstPollArrives, PairingArrives, Arrived
  <2>3. /\ calls[c] # Free /\ calls[c] \in Call /\ calls[c].device \in Nat
        /\ CallConsistent(calls[c], phase, accepted, credential, Len(paired))
    BY <1>1, <2>2, CallFields DEF PageInv, TypeOK
  <2>4. ~PairingArrives(c)
    BY <2>3 DEF PairingArrives, Arrived, CallConsistent
  <2>5. /\ calls[c].op \in {"poll", "first"} /\ calls[c].answer = "refused"
        /\ calls' = [calls EXCEPT ![c] = Free]
    BY <2>1, <2>4 DEF PollRefused, FirstPollArrives, Arrived, Return
  <2>6. calls'[c] = Free  BY <1>1, <2>5 DEF PageInv, TypeOK
  <2>7. calls[c].device \notin accepted /\ calls[c].device <= credential
    BY <2>3, <2>5 DEF CallConsistent
  <2>8. credential \in Nat
    <3>1. credential \in 0..Len(paired)  BY <1>1 DEF PageInv, TypeOK
    <3> QED BY ONLY <3>1
  <2>9. calls[c].device < credential  BY <2>3, <2>7, <2>8
  <2> QED BY <2>3, <2>5, <2>6, <2>9
<1> QED BY <1>1, PageInvariant, PTL DEF Spec, PairingKept
=============================================================================
