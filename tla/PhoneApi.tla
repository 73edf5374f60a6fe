------------------------------ MODULE PhoneApi ------------------------------
(***************************************************************************)
(* The phone's side of the HTTP API (api/app.py): requests for a pairing   *)
(* code, pairing attempts behind a limiter per client address, and a       *)
(* paired phone's polls and decisions.  The gateway is PhoneGateway; of    *)
(* the service only its contract, ApprovedAction, which CoreService        *)
(* implements, is used, for actions that need approval over the phone.     *)
(*                                                                         *)
(* A request is served by a thread of its own.  It reads the clock and     *)
(* then waits for a lock: the limiter's, the gateway's, and for a decision *)
(* the gateway's first and the service's afterwards.  Between any two of   *)
(* them others may go ahead.                                               *)
(***************************************************************************)
EXTENDS PhoneGateway

CONSTANTS
  Actions,          \* tasks whose command needs approval over the phone
  Hosts,            \* client addresses
  Threads,          \* requests served at once
  AttemptWindow,    \* _PAIR_ATTEMPT_WINDOW
  AttemptLimit,     \* _PAIR_ATTEMPT_LIMIT
  MaxTime,          \* bound on the clock
  MaxPairings,      \* bound on the codes that are issued
  MaxAttempts       \* bound on the attempts the limiter lets through

ASSUME ApiAssumption ==
  /\ AttemptWindow \in Nat \ {0} /\ AttemptLimit \in Nat \ {0}
  /\ MaxTime \in Nat /\ MaxPairings \in Nat /\ MaxAttempts \in Nat

VARIABLES
  now,
  attempts,   \* _pair_attempts: the stamps of each host
  requests,   \* what each thread serves
  phase, gated, \* the service, as its contract shows it
  owner,      \* the session of each task
  admitted,   \* history: the attempts let through, [host, stamp, at]
  ended       \* history: the devices that were revoked or refused as expired

Service == INSTANCE ApprovedAction

limiter == <<attempts, admitted>>
service == <<phase, gated, owner>>
vars    == <<now, gateway, limiter, requests, service, ended>>

-----------------------------------------------------------------------------
Idle     == [kind |-> "idle"]
NoOne    == "no session"
NoAction == "no action"

(* at is the reading of the clock that the next lock will find.  The rest  *)
(* of what a request says is chosen when it is first looked at.            *)
CodeRequest  == [kind : {"code"}, at : 0..MaxTime]
PairRequest  == [kind : {"pair"}, step : {"arrived", "admitted", "timed"},
                 host : Hosts, at : 0..MaxTime]
PhoneRequest == [kind : {"phone"}, step : {"arrived", "identified", "executing"},
                 device : Nat, session : Sessions \cup {NoOne},
                 action : Actions \cup {NoAction}, at : 0..MaxTime]

Init ==
  /\ now = 0
  /\ GatewayInit
  /\ attempts = [h \in Hosts |-> << >>]
  /\ requests = [t \in Threads |-> Idle]
  /\ Service!Init
  /\ owner = [a \in Actions |-> NoOne]
  /\ admitted = << >>
  /\ ended = {}

Serving(kind) == {t \in Threads : requests[t].kind = kind}

Answer(t)        == requests' = [requests EXCEPT ![t] = Idle]
Continue(t, req) == requests' = [requests EXCEPT ![t] = req]

Tick == /\ now < MaxTime
        /\ now' = now + 1
        /\ UNCHANGED <<gateway, limiter, requests, service, ended>>

-----------------------------------------------------------------------------
(* create_mobile_pairing, from an authenticated desktop session.           *)

AskForCode(t) ==
  /\ requests[t] = Idle
  /\ Len(issued) + Cardinality(Serving("code")) < MaxPairings
  /\ Continue(t, [kind |-> "code", at |-> now])
  /\ UNCHANGED <<now, gateway, limiter, service, ended>>

IssueCode(t) ==
  /\ requests[t].kind = "code"
  /\ \/ \E s \in Sessions : CreatePairing(s, requests[t].at)
     \/ NoCodeDrawn(requests[t].at)
  /\ Answer(t)
  /\ UNCHANGED <<now, limiter, service, ended>>

-----------------------------------------------------------------------------
(* pair_mobile_device: _enforce_pair_rate_limit, then the gateway.         *)

TryCode(t, host) ==
  /\ requests[t] = Idle
  /\ Len(admitted) + Cardinality(Serving("pair")) < MaxAttempts
  /\ Continue(t, [kind |-> "pair", step |-> "arrived", host |-> host, at |-> now])
  /\ UNCHANGED <<now, gateway, limiter, service, ended>>

(* Stamps are dropped from the head while they are old.  They need not be  *)
(* in order, and an old one behind a fresh head stays.                     *)
Fresh(stamps, at) == {i \in DOMAIN stamps : stamps[i] + AttemptWindow > at}

Recent(stamps, at) ==
  LET fresh == Fresh(stamps, at)
  IN  IF fresh = {} THEN << >>
      ELSE SubSeq(stamps, CHOOSE i \in fresh : \A j \in fresh : i <= j, Len(stamps))

(* Mutant: one attempt too many.                                           *)
WithinLimitOrAtIt(stamps) == Len(stamps) <= AttemptLimit

WithinLimit(stamps) == Len(stamps) < AttemptLimit

Admit(t) ==
  LET req    == requests[t]
      recent == Recent(attempts[req.host], req.at)
  IN  /\ req.kind = "pair" /\ req.step = "arrived"
      /\ WithinLimit(recent)
      /\ attempts' = [attempts EXCEPT ![req.host] = Append(recent, req.at)]
      /\ admitted' = Append(admitted, [host |-> req.host, stamp |-> req.at, at |-> now])
      /\ Continue(t, [req EXCEPT !.step = "admitted"])
      /\ UNCHANGED <<now, gateway, service, ended>>

(* MOBILE_PAIRING_RATE_LIMITED.                                            *)
Throttle(t) ==
  LET req    == requests[t]
      recent == Recent(attempts[req.host], req.at)
  IN  /\ req.kind = "pair" /\ req.step = "arrived"
      /\ ~WithinLimit(recent)
      /\ attempts' = [attempts EXCEPT ![req.host] = recent]
      /\ Answer(t)
      /\ UNCHANGED <<now, gateway, admitted, service, ended>>

(* pair reads the clock for itself.                                        *)
ReadPairingTime(t) ==
  /\ requests[t].kind = "pair" /\ requests[t].step = "admitted"
  /\ Continue(t, [requests[t] EXCEPT !.step = "timed", !.at = now])
  /\ UNCHANGED <<now, gateway, limiter, service, ended>>

FinishPairing(t, code) ==
  /\ requests[t].kind = "pair" /\ requests[t].step = "timed"
  /\ \/ Pair(code, requests[t].at)
     \/ PairError(code, requests[t].at) # "none" /\ UNCHANGED gateway
  /\ Answer(t)
  /\ UNCHANGED <<now, limiter, service, ended>>

-----------------------------------------------------------------------------
(* _mobile_identity, in front of the phone's polls and decisions.          *)

PhoneCalls(t, d) ==
  /\ requests[t] = Idle
  /\ Continue(t, [kind |-> "phone", step |-> "arrived", device |-> d,
                  session |-> NoOne, action |-> NoAction, at |-> now])
  /\ UNCHANGED <<now, gateway, limiter, service, ended>>

At(t, step) == requests[t].kind = "phone" /\ requests[t].step = step

Identify(t) ==
  LET req == requests[t]
  IN  /\ At(t, "arrived")
      /\ Authentic(req.device, TRUE, req.at)
      /\ Continue(t, [req EXCEPT !.step = "identified",
                                 !.session = enrolled[req.device].session])
      /\ UNCHANGED <<now, gateway, limiter, service, ended>>

(* 401: not paired, expired, or a token that is not the device's.          *)
RefusePhone(t, genuine) ==
  LET req == requests[t]
  IN  /\ At(t, "arrived")
      /\ RefuseDevice(req.device, genuine, req.at)
      /\ ended' = ended \cup {d \in devices \cap {req.device} :
                                req.at >= enrolled[d].expiresAt}
      /\ Answer(t)
      /\ UNCHANGED <<now, limiter, service>>

(* No handler of the API revokes a phone yet; the gateway offers it.       *)
RevokePhone(d) ==
  /\ Revoke(d)
  /\ ended' = ended \cup {d}
  /\ UNCHANGED <<now, limiter, requests, service>>

-----------------------------------------------------------------------------
(* get_mobile_pending_approvals and decide_mobile_approval: approve_task   *)
(* over the PHONE channel.  Both wait for the service's lock.              *)

Served(t) == At(t, "identified") /\ ~Service!Busy

MayDecide(t, a) == requests[t].session = owner[a] /\ phase[a] = "waiting"

(* The list of what is pending; or 404 and 409: the task is unknown or     *)
(* another's, it waits no more, or the approval's id, token or payload hash*)
(* are not those of the request.                                           *)
AnswerOnly(t) ==
  /\ Served(t)
  /\ Answer(t)
  /\ UNCHANGED <<now, gateway, limiter, service, ended>>

(* It is rejected, or has expired, which any decision brings to light.     *)
DeclineByPhone(t, a) ==
  /\ Served(t)
  /\ MayDecide(t, a)
  /\ Service!Decline(a)
  /\ Answer(t)
  /\ UNCHANGED <<now, gateway, limiter, owner, ended>>

GrantByPhone(t, a) ==
  /\ Served(t)
  /\ MayDecide(t, a)
  /\ Service!Grant(a)
  /\ Continue(t, [requests[t] EXCEPT !.step = "executing", !.action = a])
  /\ UNCHANGED <<now, gateway, limiter, owner, ended>>

(* The execution is over, or an exception leaves it.                       *)
FinishDecision(t) ==
  /\ At(t, "executing")
  /\ LET a == requests[t].action
     IN  Service!Succeed(a) \/ Service!Fail(a) \/ Service!Abort(a)
  /\ Answer(t)
  /\ UNCHANGED <<now, gateway, limiter, owner, ended>>

-----------------------------------------------------------------------------
(* The desktop creates tasks and may reject them; approving one over its   *)
(* own channel is refused.                                                 *)

Submit(a, s) ==
  /\ Service!Ask(a)
  /\ owner' = [owner EXCEPT ![a] = s]
  /\ UNCHANGED <<now, gateway, limiter, requests, ended>>

DesktopRejects(a) ==
  /\ Service!Decline(a)
  /\ UNCHANGED <<now, gateway, limiter, requests, owner, ended>>

Pairings(t) ==
  \/ AskForCode(t) \/ IssueCode(t)
  \/ \E h \in Hosts : TryCode(t, h)
  \/ Admit(t) \/ Throttle(t) \/ ReadPairingTime(t)
  \/ \E c \in Codes : FinishPairing(t, c)

Phones(t) ==
  \/ \E d \in {0} \cup DOMAIN enrolled : PhoneCalls(t, d)
  \/ Identify(t) \/ (\E genuine \in BOOLEAN : RefusePhone(t, genuine))
  \/ AnswerOnly(t)
  \/ \E a \in Actions : DeclineByPhone(t, a) \/ GrantByPhone(t, a)
  \/ FinishDecision(t)

Desktop == \E a \in Actions : (\E s \in Sessions : Submit(a, s)) \/ DesktopRejects(a)

Next == \/ Tick \/ Desktop
        \/ \E d \in devices : RevokePhone(d)
        \/ \E t \in Threads : Pairings(t) \/ Phones(t)

Spec == Init /\ [][Next]_vars

-----------------------------------------------------------------------------
(* Properties.                                                             *)

(* Every variable has its type; identities are only held by requests that  *)
(* got them from the gateway.                                              *)
TypeOK ==
  /\ now \in 0..MaxTime
  /\ GatewayTypeOK
  /\ attempts \in [Hosts -> Seq(0..MaxTime)]
  /\ requests \in [Threads -> {Idle} \cup CodeRequest \cup PairRequest \cup PhoneRequest]
  /\ phase \in [Actions -> {"absent", "waiting", "acting", "refused", "done", "failed"}]
  /\ owner \in [Actions -> Sessions \cup {NoOne}]
  /\ admitted \in Seq([host : Hosts, stamp : 0..MaxTime, at : 0..MaxTime])
  /\ ended \subseteq DOMAIN enrolled

(* A command that needs the phone runs only inside a decision of a phone   *)
(* whose session had not ended when it called, and which was paired with a *)
(* code that was shown to the owner of the task (P4 requirements 3, 4, 7). *)
(* The two locks are taken one after the other: the device may be forgotten*)
(* in between, but it cannot have become somebody else's.                  *)
ConsentByOwnersPhone ==
  \A a \in Actions : phase[a] = "acting" =>
    \E t \in Threads :
      LET req == requests[t]
      IN  /\ At(t, "executing") /\ req.action = a
          /\ req.at < enrolled[req.device].expiresAt
          /\ issued[enrolled[req.device].pairing].session = owner[a]

(* Whom the requests in service speak for: an identity is that of a device *)
(* that was paired, and had not ended when the request read the clock.     *)
IdentitiesHold ==
  \A t \in Threads :
    LET req == requests[t]
    IN  /\ req # Idle => req.at <= now
        /\ At(t, "identified") \/ At(t, "executing") =>
             /\ req.device \in DOMAIN enrolled
             /\ req.at < enrolled[req.device].expiresAt
             /\ req.session = enrolled[req.device].session

(* A phone that was revoked, or was told that its session is over, is never*)
(* let in again, also not by a request that read the clock before that (P4 *)
(* requirement 5).                                                         *)
EndedStaysOut ==
  [][\A t \in Threads :
       At(t, "arrived") /\ At(t, "identified")' => requests[t].device \notin ended]_vars

(* Pairing attempts are limited per client address (P4 requirement 21):    *)
(* whenever one is let through, at most the limit of them, itself included,*)
(* were stamped within the last window.  An attempt that was held up on its*)
(* way to the lock counts from its stamp.                                  *)
AttemptsLimited ==
  \A n \in DOMAIN admitted :
    Cardinality({i \in 1..n : /\ admitted[i].host = admitted[n].host
                              /\ admitted[i].stamp + AttemptWindow > admitted[n].at})
      <= AttemptLimit

(* What the limiter still holds for a host is enough: an attempt that may  *)
(* count has a stamp of its own there.                                     *)
Counting(h) == {i \in DOMAIN admitted : admitted[i].host = h
                                        /\ admitted[i].stamp + AttemptWindow > now}

StampsKept ==
  \A h \in Hosts : \E f \in [Counting(h) -> DOMAIN attempts[h]] :
    /\ \A i, j \in Counting(h) : f[i] = f[j] => i = j
    /\ \A i \in Counting(h) : attempts[h][f[i]] = admitted[i].stamp

ApiInv == /\ TypeOK /\ CodePairsOnePhone /\ IdentitiesHold /\ ConsentByOwnersPhone
          /\ ended \cap devices = {}
          /\ StampsKept /\ AttemptsLimited
=============================================================================
