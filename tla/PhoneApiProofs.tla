--------------------------- MODULE PhoneApiProofs ---------------------------
(***************************************************************************)
(* Theorems about PhoneApi and the gateway below it, for any sessions,     *)
(* codes, hosts and threads, any lifetimes, and any limit and window of    *)
(* the limiter.                                                            *)
(***************************************************************************)
EXTENDS PhoneApi, FiniteSetTheorems, SequenceTheorems, WellFoundedInduction, TLAPS

-----------------------------------------------------------------------------
(* The gateway.                                                            *)

GatewayInv == GatewayTypeOK /\ CodePairsOnePhone

(* Pairings and devices keep their place.                                  *)
Grows ==
  /\ DOMAIN issued \subseteq DOMAIN issued'
  /\ \A i \in DOMAIN issued : issued'[i] = issued[i]
  /\ DOMAIN enrolled \subseteq DOMAIN enrolled'
  /\ \A d \in DOMAIN enrolled : enrolled'[d] = enrolled[d]
  /\ devices' \cap DOMAIN enrolled \subseteq devices

(* A sequence with one element more.                                       *)
LEMMA Appended ==
  ASSUME NEW S, NEW s \in Seq(S), NEW e \in S, NEW r, r = Append(s, e)
  PROVE  /\ r \in Seq(S) /\ Len(r) = Len(s) + 1 /\ Len(r) \in Nat \ {0}
         /\ DOMAIN r = DOMAIN s \cup {Len(r)} /\ Len(r) \notin DOMAIN s
         /\ r[Len(r)] = e /\ \A i \in DOMAIN s : r[i] = s[i]
  OBVIOUS

(* The elements of a sequence over a set are in the set.                   *)
LEMMA ElementType ==
  ASSUME NEW S, NEW s \in Seq(S), NEW i \in DOMAIN s
  PROVE  s[i] \in S
  OBVIOUS

(* A new code has no phone, and its pairing is the last.                   *)
LEMMA CreateKeeps ==
  ASSUME GatewayInv, NEW s \in Sessions, NEW at \in Nat, CreatePairing(s, at)
  PROVE  GatewayInv' /\ Grows
<1> USE DEF GatewayInv, GatewayTypeOK
<1>1. PICK code \in FreeCodes(at) :
        /\ issued' = Append(issued, [code |-> code, session |-> s, expiresAt |-> at + PairingLifetime])
        /\ pairings' = [c \in Live(at) \cup {code} |->
                          IF c = code THEN [id |-> Len(issued'), consumed |-> FALSE] ELSE pairings[c]]
  BY DEF CreatePairing
<1>2. UNCHANGED <<enrolled, devices>>  BY DEF CreatePairing
<1> DEFINE P == [code |-> code, session |-> s, expiresAt |-> at + PairingLifetime]
<1>3. P \in Pairing /\ P.code = code  BY GatewayAssumption DEF Pairing, FreeCodes
<1> HIDE DEF P
<1>4. issued' = Append(issued, P)  BY <1>1 DEF P
<1>5. /\ issued' \in Seq(Pairing) /\ Len(issued') \in Nat \ {0}
      /\ DOMAIN issued' = DOMAIN issued \cup {Len(issued')} /\ Len(issued') \notin DOMAIN issued
      /\ issued'[Len(issued')] = P /\ \A i \in DOMAIN issued : issued'[i] = issued[i]
  BY <1>3, <1>4, Appended
<1>6. Live(at) \subseteq DOMAIN pairings /\ code \in Codes /\ code \notin Live(at)
  BY DEF Live, FreeCodes
<1>7. /\ DOMAIN pairings' = Live(at) \cup {code}
      /\ pairings'[code] = [id |-> Len(issued'), consumed |-> FALSE]
      /\ pairings'[code].id = Len(issued')
      /\ \A c \in Live(at) : pairings'[c] = pairings[c]
  BY <1>1, <1>6
<1>8. \A c \in Live(at) : pairings[c] \in [id : DOMAIN issued, consumed : BOOLEAN]
                          /\ pairings[c].id \in DOMAIN issued /\ issued[pairings[c].id].code = c
  BY <1>6
<1>9. GatewayTypeOK'
  <2>1. \A c \in DOMAIN pairings' :
          /\ pairings'[c] \in [id : DOMAIN issued', consumed : BOOLEAN]
          /\ issued'[pairings'[c].id].code = c
    <3>1. \A c \in Live(at) : /\ pairings'[c] \in [id : DOMAIN issued', consumed : BOOLEAN]
                              /\ issued'[pairings'[c].id].code = c
      <4>1. DOMAIN issued \subseteq DOMAIN issued'  BY <1>5
      <4>2. [id : DOMAIN issued, consumed : BOOLEAN] \subseteq [id : DOMAIN issued', consumed : BOOLEAN]
        BY ONLY <4>1
      <4>3. \A c \in Live(at) : pairings'[c] = pairings[c]  BY ONLY <1>7
      <4>4. \A c \in Live(at) : pairings'[c] \in [id : DOMAIN issued', consumed : BOOLEAN]
        BY ONLY <1>8, <4>2, <4>3, Zenon
      <4>5. \A c \in Live(at) : issued'[pairings'[c].id].code = c
        <5>1. \A i \in DOMAIN issued : issued'[i] = issued[i]  BY <1>5
        <5>2. \A c \in Live(at) : pairings[c].id \in DOMAIN issued /\ issued[pairings[c].id].code = c
          BY <1>8
        <5>3. \A c \in Live(at) : issued'[pairings[c].id].code = c  BY ONLY <5>1, <5>2, Zenon
        <5> QED BY ONLY <4>3, <5>3, Zenon
      <4> QED BY <4>4, <4>5
    <3>2. /\ pairings'[code] \in [id : DOMAIN issued', consumed : BOOLEAN]
          /\ issued'[pairings'[code].id].code = code
      BY <1>3, <1>5, <1>7
    <3> QED BY <1>7, <3>1, <3>2
  <2>2. DOMAIN pairings' \subseteq Codes  BY <1>6, <1>7
  <2>3. \A d \in DOMAIN enrolled : enrolled[d].pairing \in DOMAIN issued'  BY <1>5
  <2> QED BY <1>2, <1>5, <2>1, <2>2, <2>3
<1>10. CodePairsOnePhone'
  <2>1. \A d \in DOMAIN enrolled : enrolled[d].pairing \in DOMAIN issued
                                   /\ issued'[enrolled[d].pairing] = issued[enrolled[d].pairing]
    BY <1>5
  <2>2. \A c \in Live(at), d \in DOMAIN enrolled :
          enrolled[d].pairing = pairings'[c].id => pairings'[c].consumed
    BY <1>6, <1>7 DEF CodePairsOnePhone
  <2>3. \A d \in DOMAIN enrolled : enrolled[d].pairing # pairings'[code].id
    <3>1. pairings'[code].id \notin DOMAIN issued  BY ONLY <1>5, <1>7
    <3>2. \A d \in DOMAIN enrolled : enrolled[d].pairing \in DOMAIN issued  BY ONLY <2>1
    <3> QED BY ONLY <3>1, <3>2, Zenon
  <2> QED BY <1>2, <1>7, <2>1, <2>2, <2>3 DEF CodePairsOnePhone
<1> QED BY <1>2, <1>5, <1>9, <1>10 DEF Grows

(* Purging what has expired without drawing a code revives nothing.        *)
LEMMA NoCodeKeeps ==
  ASSUME GatewayInv, NEW at \in Nat, NoCodeDrawn(at)
  PROVE  GatewayInv' /\ Grows
<1>1. Live(at) \subseteq DOMAIN pairings  BY DEF Live
<1>2. DOMAIN pairings' = Live(at) /\ \A c \in Live(at) : pairings'[c] = pairings[c]
  BY DEF NoCodeDrawn
<1>3. UNCHANGED <<issued, enrolled, devices>>  BY DEF NoCodeDrawn
<1> QED BY <1>1, <1>2, <1>3 DEF GatewayInv, GatewayTypeOK, CodePairsOnePhone, Grows

(* A phone is paired by a code that has paired none, and marks it.         *)
LEMMA PairKeeps ==
  ASSUME GatewayInv, NEW code, NEW at \in Nat, Pair(code, at)
  PROVE  /\ GatewayInv' /\ Grows
         /\ devices' = devices \cup {Len(enrolled')} /\ Len(enrolled') \notin DOMAIN enrolled
<1> USE DEF GatewayInv, GatewayTypeOK
<1> DEFINE p == pairings[code].id
           D == [pairing |-> p, session |-> issued[p].session, expiresAt |-> at + SessionLifetime]
<1>1. /\ code \in DOMAIN pairings /\ ~pairings[code].consumed
      /\ enrolled' = Append(enrolled, D) /\ devices' = devices \cup {Len(enrolled')}
      /\ pairings' = [pairings EXCEPT ![code].consumed = TRUE]
      /\ issued' = issued
  BY DEF Pair, PairError
<1>2. pairings[code] \in [id : DOMAIN issued, consumed : BOOLEAN] /\ issued[p].code = code
  BY <1>1
<1>3. p \in DOMAIN issued /\ p \in Nat  BY <1>2
<1>4. issued[p] \in Pairing  BY <1>3, ElementType
<1>5. D \in Device /\ D.pairing = p /\ D.session = issued[p].session
  BY <1>3, <1>4, GatewayAssumption DEF Pairing, Device
<1> HIDE DEF D
<1>6. /\ enrolled' \in Seq(Device)
      /\ DOMAIN enrolled' = DOMAIN enrolled \cup {Len(enrolled')}
      /\ Len(enrolled') \notin DOMAIN enrolled
      /\ enrolled'[Len(enrolled')] = D
      /\ \A d \in DOMAIN enrolled : enrolled'[d] = enrolled[d]
  BY <1>1, <1>5, Appended
<1>7. /\ DOMAIN pairings' = DOMAIN pairings
      /\ \A c \in DOMAIN pairings \ {code} : pairings'[c] = pairings[c]
      /\ pairings'[code].id = p /\ pairings'[code].consumed
      /\ pairings'[code] \in [id : DOMAIN issued, consumed : BOOLEAN]
  BY <1>1, <1>2
<1> HIDE DEF p
<1>8. GatewayTypeOK'
  <2>1. \A c \in DOMAIN pairings' :
          /\ pairings'[c] \in [id : DOMAIN issued, consumed : BOOLEAN]
          /\ issued[pairings'[c].id].code = c
    BY <1>2, <1>7
  <2>2. \A d \in DOMAIN enrolled' : enrolled'[d].pairing \in DOMAIN issued
    BY <1>3, <1>5, <1>6
  <2>3. devices' \subseteq DOMAIN enrolled'  BY <1>1, <1>6
  <2> QED BY <1>1, <1>6, <1>7, <2>1, <2>2, <2>3
<1>9. CodePairsOnePhone'
  <2>1. \A d \in DOMAIN enrolled : enrolled[d].pairing # p
    BY <1>1 DEF CodePairsOnePhone, p
  <2>6. \A d, e \in DOMAIN enrolled : enrolled[d].pairing = enrolled[e].pairing => d = e
    BY DEF CodePairsOnePhone
  <2>2. \A d, e \in DOMAIN enrolled' : enrolled'[d].pairing = enrolled'[e].pairing => d = e
    BY <1>5, <1>6, <2>1, <2>6
  <2>3. \A d \in DOMAIN enrolled' : enrolled'[d].session = issued[enrolled'[d].pairing].session
    BY <1>5, <1>6 DEF CodePairsOnePhone
  <2>4. \A c \in DOMAIN pairings \ {code} : pairings[c].id # p
    BY <1>2
  <2>5. \A c \in DOMAIN pairings', d \in DOMAIN enrolled' :
          enrolled'[d].pairing = pairings'[c].id => pairings'[c].consumed
    <3>1. \A c \in DOMAIN pairings, d \in DOMAIN enrolled :
            enrolled[d].pairing = pairings[c].id => pairings[c].consumed
      BY DEF CodePairsOnePhone
    <3>2. \A c \in DOMAIN pairings \ {code}, d \in DOMAIN enrolled' :
            enrolled'[d].pairing = pairings'[c].id => pairings'[c].consumed
      <4> SUFFICES ASSUME NEW c \in DOMAIN pairings \ {code}, NEW d \in DOMAIN enrolled',
                          enrolled'[d].pairing = pairings'[c].id
                   PROVE  pairings'[c].consumed
        OBVIOUS
      <4>1. pairings'[c] = pairings[c] /\ pairings[c].id # p  BY <1>7, <2>4
      <4>2. d \in DOMAIN enrolled /\ enrolled'[d] = enrolled[d]
        BY ONLY <1>5, <1>6, <4>1, enrolled'[d].pairing = pairings'[c].id, d \in DOMAIN enrolled'
      <4> QED BY ONLY <3>1, <4>1, <4>2, enrolled'[d].pairing = pairings'[c].id,
                      c \in DOMAIN pairings \ {code}
    <3> QED BY <1>7, <3>2
  <2> QED BY <1>1, <2>2, <2>3, <2>5 DEF CodePairsOnePhone
<1> QED BY <1>1, <1>6, <1>8, <1>9 DEF Grows

(* A device that is refused or revoked is at most forgotten.               *)
LEMMA ForgetKeeps ==
  ASSUME GatewayInv, devices' \subseteq devices, UNCHANGED <<issued, pairings, enrolled>>
  PROVE  GatewayInv' /\ Grows
  BY DEF GatewayInv, GatewayTypeOK, CodePairsOnePhone, Grows

-----------------------------------------------------------------------------
(* The limiter.                                                            *)

(* The least of a set of numbers.                                          *)
LEMMA Least ==
  ASSUME NEW T, T \subseteq Nat, T # {}
  PROVE  \E i \in T : \A j \in T : i <= j
<1> DEFINE R == {ss \in Nat \X Nat : ss[1] < ss[2]}
<1>1. IsWellFoundedOn(R, Nat)  BY NatLessThanWellFounded DEF OpToRel
<1>2. \A i, j \in Nat : <<j, i>> \in R \/ i <= j  OBVIOUS
<1> HIDE DEF R
<1>3. PICK i \in T : \A j \in T : ~(<<j, i>> \in R)  BY <1>1, WFMin
<1>4. \A j \in T : i <= j  BY <1>2, <1>3
<1> QED BY <1>4

(* Dropping old stamps from the head keeps every recent one.               *)
LEMMA RecentKeeps ==
  ASSUME NEW S \in SUBSET Nat, NEW stamps \in Seq(S), NEW at \in Nat
  PROVE  \E k \in 0..Len(stamps) :
           /\ Recent(stamps, at) \in Seq(S)
           /\ Len(Recent(stamps, at)) = Len(stamps) - k
           /\ \A i \in 1..(Len(stamps) - k) : Recent(stamps, at)[i] = stamps[i + k]
           /\ \A j \in 1..k : stamps[j] + AttemptWindow <= at
<1> DEFINE fresh == Fresh(stamps, at)
<1>1. \A i \in DOMAIN stamps : stamps[i] \in Nat /\ AttemptWindow \in Nat
  BY ElementType, ApiAssumption
<1>2. fresh \subseteq 1..Len(stamps) /\ Len(stamps) \in Nat  BY DEF Fresh
<1>3. \A j \in 1..Len(stamps) : j \notin fresh => stamps[j] + AttemptWindow <= at
  BY <1>1 DEF Fresh
<1>4. CASE fresh = {}
  <2>1. Recent(stamps, at) = << >>  BY <1>4 DEF Recent
  <2>2. Len(stamps) \in 0..Len(stamps) /\ Len(stamps) - Len(stamps) = 0  BY <1>2
  <2>3. \A j \in 1..Len(stamps) : stamps[j] + AttemptWindow <= at  BY <1>3, <1>4
  <2> QED BY <2>1, <2>2, <2>3
<1>5. CASE fresh # {}
  <2> DEFINE m == CHOOSE i \in fresh : \A j \in fresh : i <= j
  <2>1. m \in fresh /\ \A j \in fresh : m <= j
    <3>1. fresh \subseteq Nat  BY <1>2
    <3>2. \E i \in fresh : \A j \in fresh : i <= j  BY <1>5, <3>1, Least
    <3> QED BY <3>2
  <2>2. Recent(stamps, at) = SubSeq(stamps, m, Len(stamps))  BY <1>5 DEF Recent
  <2> HIDE DEF m, fresh
  <2>3. m \in 1..Len(stamps) /\ m - 1 \in 0..Len(stamps)  BY <1>2, <2>1
  <2> DEFINE k == m - 1
  <2>4. \A j \in 1..k : stamps[j] + AttemptWindow <= at
    BY <1>2, <1>3, <2>1, <2>3
  <2>5. /\ Recent(stamps, at) \in Seq(S)
        /\ Len(Recent(stamps, at)) = Len(stamps) - k
        /\ \A i \in 1..(Len(stamps) - k) : Recent(stamps, at)[i] = stamps[i + k]
    <3>1. \A i \in 1..Len(stamps) : stamps[i] \in S  BY ElementType
    <3>2. \A i \in m..Len(stamps) : stamps[i] \in S  BY <1>2, <2>3, <3>1
    <3>3. m \in Int /\ Len(stamps) \in Int /\ m <= Len(stamps)  BY <1>2, <2>3
    <3>4. /\ SubSeq(stamps, m, Len(stamps)) \in Seq(S)
          /\ Len(SubSeq(stamps, m, Len(stamps))) = Len(stamps) - m + 1
          /\ \A i \in 1..(Len(stamps) - m + 1) : SubSeq(stamps, m, Len(stamps))[i] = stamps[m + i - 1]
      BY <3>2, <3>3, SubSeqProperties
    <3> QED BY <2>2, <3>3, <3>4
  <2>6. k \in 0..Len(stamps)  BY <2>3
  <2> HIDE DEF k
  <2> QED BY <2>4, <2>5, <2>6
<1> QED BY <1>4, <1>5

-----------------------------------------------------------------------------
(* The parts of the invariant, one after the other.                        *)

Request == {Idle} \cup CodeRequest \cup PairRequest \cup PhoneRequest

(* A request has the fields of its kind.                                   *)
LEMMA RequestKind ==
  ASSUME TypeOK, NEW t \in Threads
  PROVE  /\ requests[t] \in Request
         /\ requests[t].kind = "code"  => requests[t] \in CodeRequest
         /\ requests[t].kind = "pair"  => requests[t] \in PairRequest
         /\ requests[t].kind = "phone" => requests[t] \in PhoneRequest
         /\ requests[t].kind \in {"code", "pair", "phone"} => requests[t] # Idle
         /\ requests[t] # Idle => requests[t].at \in 0..MaxTime /\ requests[t].at \in Nat
<1>1. requests[t] \in Request  BY DEF TypeOK, Request
<1>2. \A i \in 0..MaxTime : i \in Nat  BY ApiAssumption
<1> QED BY <1>1, <1>2 DEF Idle, Request, CodeRequest, PairRequest, PhoneRequest

(* What a step may do to the requests: one goes on, with the reading of    *)
(* the clock it had or a new one, or is answered.                          *)
LEMMA RequestStep ==
  ASSUME TypeOK, NEW t \in Threads, Pairings(t) \/ Phones(t)
  PROVE  \E r \in Request :
           /\ requests' = [requests EXCEPT ![t] = r]
           /\ r # Idle => r.at = now \/ (requests[t] # Idle /\ r.at = requests[t].at)
<1> DEFINE Step(r) == /\ r \in Request /\ requests' = [requests EXCEPT ![t] = r]
                      /\ r # Idle => r.at = now \/ (requests[t] # Idle /\ r.at = requests[t].at)
<1> USE DEF Continue
<1>1. now \in 0..MaxTime  BY DEF TypeOK
<1>2. CASE Answer(t)
  <2>1. Step(Idle)  BY <1>2 DEF Answer, Request
  <2> QED BY <2>1
<1>3. CASE AskForCode(t)
  <2> DEFINE r == [kind |-> "code", at |-> now]
  <2>1. r \in CodeRequest /\ r.at = now  BY <1>1 DEF CodeRequest
  <2>2. requests' = [requests EXCEPT ![t] = r]  BY <1>3 DEF AskForCode
  <2> QED BY <2>1, <2>2 DEF Request
<1>4. ASSUME NEW h \in Hosts, TryCode(t, h)
      PROVE  \E r \in Request : Step(r)
  <2> DEFINE r == [kind |-> "pair", step |-> "arrived", host |-> h, at |-> now]
  <2>1. r \in PairRequest /\ r.at = now  BY <1>1 DEF PairRequest
  <2>2. requests' = [requests EXCEPT ![t] = r]  BY <1>4 DEF TryCode
  <2> QED BY <2>1, <2>2 DEF Request
<1>5. CASE Admit(t)
  <2>1. requests[t] \in PairRequest  BY <1>5, RequestKind DEF Admit
  <2>2. Step([requests[t] EXCEPT !.step = "admitted"])
    BY <1>5, <2>1 DEF Admit, Request, PairRequest, Idle
  <2> QED BY <2>2
<1>6. CASE ReadPairingTime(t)
  <2>1. requests[t] \in PairRequest  BY <1>6, RequestKind DEF ReadPairingTime
  <2> DEFINE r == [requests[t] EXCEPT !.step = "timed", !.at = now]
  <2>2. r \in PairRequest /\ r.at = now  BY <1>1, <2>1 DEF PairRequest
  <2>3. requests' = [requests EXCEPT ![t] = r]  BY <1>6 DEF ReadPairingTime
  <2> QED BY <2>2, <2>3 DEF Request
<1>7. ASSUME NEW d \in {0} \cup DOMAIN enrolled, PhoneCalls(t, d)
      PROVE  \E r \in Request : Step(r)
  <2>1. d \in Nat  BY DEF TypeOK, GatewayTypeOK
  <2> DEFINE r == [kind |-> "phone", step |-> "arrived", device |-> d,
                   session |-> NoOne, action |-> NoAction, at |-> now]
  <2>2. r \in PhoneRequest /\ r.at = now  BY <1>1, <2>1 DEF PhoneRequest
  <2>3. requests' = [requests EXCEPT ![t] = r]  BY <1>7 DEF PhoneCalls
  <2> QED BY <2>2, <2>3 DEF Request
<1>8. CASE Identify(t)
  <2>1. requests[t] \in PhoneRequest  BY <1>8, RequestKind DEF Identify, At
  <2>2. enrolled[requests[t].device] \in Device
    BY <1>8, ElementType DEF Identify, Authentic, TypeOK, GatewayTypeOK
  <2>3. enrolled[requests[t].device].session \in Sessions  BY <2>2 DEF Device
  <2>4. Step([requests[t] EXCEPT !.step = "identified",
                                 !.session = enrolled[requests[t].device].session])
    BY <1>8, <2>1, <2>3 DEF Identify, Request, PhoneRequest, Idle
  <2> QED BY <2>4
<1>9. ASSUME NEW a \in Actions, GrantByPhone(t, a)
      PROVE  \E r \in Request : Step(r)
  <2>1. requests[t] \in PhoneRequest  BY <1>9, RequestKind DEF GrantByPhone, Served, At
  <2>2. Step([requests[t] EXCEPT !.step = "executing", !.action = a])
    BY <1>9, <2>1 DEF GrantByPhone, Request, PhoneRequest, Idle
  <2> QED BY <2>2
<1> QED
  BY <1>2, <1>3, <1>4, <1>5, <1>6, <1>7, <1>8, <1>9
     DEF Pairings, Phones, IssueCode, Throttle, FinishPairing, RefusePhone, AnswerOnly,
         DeclineByPhone, FinishDecision

(* All steps but those of codes and phones leave requests, limiter and     *)
(* gateway alone.                                                          *)
LEMMA RequestsOther ==
  ASSUME Next, ~(\E t \in Threads : Pairings(t) \/ Phones(t))
  PROVE  UNCHANGED <<requests, attempts, admitted, issued, pairings, enrolled>>
  BY DEF Next, Tick, Desktop, Submit, DesktopRejects, RevokePhone, Revoke, gateway, limiter

(* Time goes forward and requests keep their type.                         *)
LEMMA RequestsTyped ==
  ASSUME TypeOK, Next
  PROVE  /\ now' \in 0..MaxTime /\ now <= now'
         /\ requests' \in [Threads -> Request]
<1>1. now' \in 0..MaxTime /\ now <= now'
  <2>1. now \in 0..MaxTime  BY DEF TypeOK
  <2>2. now' = now \/ (now < MaxTime /\ now' = now + 1)
    BY DEF Next, Tick, Desktop, Submit, DesktopRejects, RevokePhone, Pairings, Phones,
           AskForCode, IssueCode, TryCode, Admit, Throttle, ReadPairingTime, FinishPairing,
           PhoneCalls, Identify, RefusePhone, AnswerOnly, DeclineByPhone, GrantByPhone,
           FinishDecision
  <2> QED BY <2>1, <2>2, ApiAssumption
<1>2. requests \in [Threads -> Request]  BY DEF TypeOK, Request
<1>3. requests' \in [Threads -> Request]  BY <1>2, RequestStep, RequestsOther
<1> QED BY <1>1, <1>3

(* Every step of the API is one of the gateway, or leaves it alone.        *)
LEMMA GatewayStep ==
  ASSUME TypeOK, CodePairsOnePhone, Next
  PROVE  GatewayInv' /\ Grows
<1>1. GatewayInv  BY DEF TypeOK, GatewayInv
<1>2. CASE UNCHANGED gateway
  BY <1>1, <1>2 DEF gateway, GatewayInv, GatewayTypeOK, CodePairsOnePhone, Grows
<1>3. ASSUME NEW t \in Threads, IssueCode(t)
      PROVE  GatewayInv' /\ Grows
  <2>1. requests[t].at \in Nat  BY <1>3, RequestKind DEF IssueCode
  <2> QED BY <1>1, <1>3, <2>1, CreateKeeps, NoCodeKeeps DEF IssueCode
<1>4. ASSUME NEW t \in Threads, NEW c \in Codes, FinishPairing(t, c)
      PROVE  GatewayInv' /\ Grows
  <2>1. requests[t].at \in Nat  BY <1>4, RequestKind DEF FinishPairing
  <2> QED BY <1>1, <1>2, <1>4, <2>1, PairKeeps DEF FinishPairing
<1>5. ASSUME NEW t \in Threads, NEW genuine \in BOOLEAN, RefusePhone(t, genuine)
      PROVE  GatewayInv' /\ Grows
  BY <1>1, <1>5, ForgetKeeps DEF RefusePhone, RefuseDevice
<1>6. ASSUME NEW d \in devices, RevokePhone(d)
      PROVE  GatewayInv' /\ Grows
  BY <1>1, <1>6, ForgetKeeps DEF RevokePhone, Revoke
<1> QED
  BY <1>2, <1>3, <1>4, <1>5, <1>6
     DEF Next, Tick, Desktop, Submit, DesktopRejects, Pairings, Phones, AskForCode, TryCode,
         Admit, Throttle, ReadPairingTime, PhoneCalls, Identify, AnswerOnly,
         DeclineByPhone, GrantByPhone, FinishDecision

(* What the limiter keeps of some stamps: all but the first ones, which    *)
(* have left the window by now.                                            *)
Rest(stamps, kept) ==
  \E k \in 0..Len(stamps) :
    /\ Len(kept) = Len(stamps) - k
    /\ \A i \in 1..(Len(stamps) - k) : kept[i] = stamps[i + k]
    /\ \A j \in 1..k : stamps[j] + AttemptWindow <= now

(* The limiter takes the request's stamp as the clock.                     *)
LEMMA RecentOf ==
  ASSUME TypeOK, IdentitiesHold, NEW t \in Threads, NEW r, r = requests[t], r.kind = "pair",
         NEW recent, recent = Recent(attempts[r.host], r.at)
  PROVE  /\ r.host \in Hosts /\ r.at \in 0..MaxTime
         /\ attempts[r.host] \in Seq(0..MaxTime) /\ recent \in Seq(0..MaxTime)
         /\ Rest(attempts[r.host], recent)
<1>1. r \in PairRequest /\ r.at \in 0..MaxTime /\ r.at \in Nat /\ r # Idle
  BY RequestKind DEF Idle
<1>2. r.host \in Hosts  BY <1>1 DEF PairRequest
<1>3. attempts[r.host] \in Seq(0..MaxTime)  BY <1>2 DEF TypeOK
<1>4. 0..MaxTime \in SUBSET Nat  BY ApiAssumption
<1>5. r.at <= now /\ now \in Nat  BY <1>1, <1>4 DEF IdentitiesHold, TypeOK
<1> DEFINE A == attempts[r.host]
           S == 0..MaxTime
<1>6. A \in Seq(S) /\ S \in SUBSET Nat /\ recent = Recent(A, r.at)  BY <1>3, <1>4
<1> HIDE DEF A, S
<1>7. \A j \in 1..Len(A) : A[j] \in Nat
  <2>1. \A j \in DOMAIN A : A[j] \in S  BY <1>6, ElementType
  <2>2. DOMAIN A = 1..Len(A) /\ \A i \in S : i \in Nat  BY <1>6
  <2> QED BY ONLY <2>1, <2>2
<1>8. PICK k \in 0..Len(A) :
        /\ recent \in Seq(S) /\ Len(recent) = Len(A) - k
        /\ \A i \in 1..(Len(A) - k) : recent[i] = A[i + k]
        /\ \A j \in 1..k : A[j] + AttemptWindow <= r.at
  <2> DEFINE R == Recent(A, r.at)
  <2>1. \E k \in 0..Len(A) : /\ R \in Seq(S) /\ Len(R) = Len(A) - k
                             /\ \A i \in 1..(Len(A) - k) : R[i] = A[i + k]
                             /\ \A j \in 1..k : A[j] + AttemptWindow <= r.at
    BY <1>1, <1>6, RecentKeeps
  <2>2. recent = R  BY <1>6
  <2> HIDE DEF R
  <2> QED BY <2>1, <2>2
<1>9. Len(A) \in Nat  BY <1>6
<1>10. \A j \in 1..k : A[j] + AttemptWindow <= now
  <2> SUFFICES ASSUME NEW j \in 1..k PROVE A[j] + AttemptWindow <= now
    OBVIOUS
  <2>1. A[j] + AttemptWindow <= r.at  BY ONLY <1>8, j \in 1..k, Zenon
  <2>2. j \in 1..Len(A)  BY ONLY <1>9, k \in 0..Len(A), j \in 1..k
  <2>3. A[j] \in Nat  BY ONLY <1>7, <2>2, Zenon
  <2>4. AttemptWindow \in Nat  BY ApiAssumption
  <2>5. r.at \in Nat  BY ONLY <1>1
  <2>6. PICK a \in Nat : a = A[j]  BY ONLY <2>3, Zenon
  <2>7. PICK b \in Nat : b = r.at  BY ONLY <2>5, Zenon
  <2>8. a + AttemptWindow <= b /\ b <= now  BY ONLY <1>5, <2>1, <2>6, <2>7
  <2>9. a + AttemptWindow <= now  BY ONLY <1>5, <2>4, <2>8
  <2> QED BY ONLY <2>6, <2>9
<1>11. Rest(A, recent)  BY ONLY k \in 0..Len(A), <1>8, <1>10 DEF Rest
<1> QED BY <1>1, <1>2, <1>3, <1>8, <1>11 DEF A, S

(* The limiter's stamps and the attempts it let through keep their types.  *)
LEMMA LimiterTyped ==
  ASSUME TypeOK, IdentitiesHold, Next
  PROVE  /\ attempts' \in [Hosts -> Seq(0..MaxTime)]
         /\ admitted' \in Seq([host : Hosts, stamp : 0..MaxTime, at : 0..MaxTime])
<1>1. CASE UNCHANGED limiter  BY <1>1 DEF TypeOK, limiter
<1>2. ASSUME NEW t \in Threads, Admit(t)
      PROVE  /\ attempts' \in [Hosts -> Seq(0..MaxTime)]
             /\ admitted' \in Seq([host : Hosts, stamp : 0..MaxTime, at : 0..MaxTime])
  <2> DEFINE r == requests[t]
             recent == Recent(attempts[r.host], r.at)
             e == [host |-> r.host, stamp |-> r.at, at |-> now]
             S == [host : Hosts, stamp : 0..MaxTime, at : 0..MaxTime]
  <2>1. r.host \in Hosts /\ r.at \in 0..MaxTime /\ recent \in Seq(0..MaxTime)
    BY <1>2, RecentOf DEF Admit
  <2>2. e \in S /\ admitted \in Seq(S)  BY <2>1 DEF TypeOK
  <2>3. attempts' = [attempts EXCEPT ![r.host] = Append(recent, r.at)]
        /\ admitted' = Append(admitted, e)
    BY <1>2 DEF Admit
  <2> HIDE DEF e, S, recent
  <2>4. admitted' \in Seq(S)  BY <2>2, <2>3, Appended
  <2>5. Append(recent, r.at) \in Seq(0..MaxTime)  BY <2>1, Appended
  <2>6. attempts' \in [Hosts -> Seq(0..MaxTime)]  BY <2>1, <2>3, <2>5 DEF TypeOK
  <2> QED BY <2>4, <2>6 DEF S
<1>3. ASSUME NEW t \in Threads, Throttle(t)
      PROVE  /\ attempts' \in [Hosts -> Seq(0..MaxTime)]
             /\ admitted' \in Seq([host : Hosts, stamp : 0..MaxTime, at : 0..MaxTime])
  <2> DEFINE r == requests[t]
             recent == Recent(attempts[r.host], r.at)
  <2>1. r.host \in Hosts /\ recent \in Seq(0..MaxTime)
    BY <1>3, RecentOf DEF Throttle
  <2>2. attempts' = [attempts EXCEPT ![r.host] = recent] /\ admitted' = admitted
    BY <1>3 DEF Throttle
  <2> HIDE DEF recent
  <2> QED BY <2>1, <2>2 DEF TypeOK
<1> QED
  BY <1>1, <1>2, <1>3, RequestsOther
     DEF Pairings, Phones, AskForCode, IssueCode, TryCode, ReadPairingTime, FinishPairing,
         PhoneCalls, Identify, RefusePhone, AnswerOnly, DeclineByPhone, GrantByPhone,
         FinishDecision, limiter

(* The phases of the actions and their owners keep their types.            *)
LEMMA ServiceTyped ==
  ASSUME TypeOK, Next
  PROVE  /\ phase' \in [Actions -> {"absent", "waiting", "acting", "refused", "done", "failed"}]
         /\ owner' \in [Actions -> Sessions \cup {NoOne}]
<1> USE DEF Service!Move
<1>1. CASE UNCHANGED service  BY <1>1 DEF TypeOK, service
<1>2. CASE Desktop
  <2>1. CASE \E a \in Actions, s \in Sessions : Submit(a, s)
    BY <2>1 DEF Submit, Service!Ask, TypeOK
  <2>2. CASE \E a \in Actions : DesktopRejects(a)
    BY <2>2 DEF DesktopRejects, Service!Decline, TypeOK
  <2> QED BY <1>2, <2>1, <2>2 DEF Desktop
<1>3. ASSUME NEW t \in Threads, Phones(t)
      PROVE  /\ phase' \in [Actions -> {"absent", "waiting", "acting", "refused", "done", "failed"}]
             /\ owner' = owner
  <2>1. CASE FinishDecision(t)
    BY <2>1 DEF FinishDecision, Service!Succeed, Service!Fail, Service!Abort, TypeOK
  <2>2. CASE ~FinishDecision(t)
    BY <1>3, <2>2 DEF Phones, PhoneCalls, Identify, RefusePhone, AnswerOnly, DeclineByPhone,
        GrantByPhone, Service!Decline, Service!Grant, TypeOK, service
  <2> QED BY <2>1, <2>2
<1> QED
  BY <1>1, <1>2, <1>3
     DEF Next, Tick, RevokePhone, Pairings, AskForCode, IssueCode, TryCode, Admit, Throttle,
         ReadPairingTime, FinishPairing, TypeOK

(* A request stays as it is, or its own thread has taken the step.         *)
LEMMA OthersWait ==
  ASSUME TypeOK, Next, NEW u \in Threads
  PROVE  \/ requests'[u] = requests[u]
         \/ /\ Pairings(u) \/ Phones(u)
            /\ requests'[u] \in Request
            /\ requests'[u] # Idle =>
                 \/ requests'[u].at = now
                 \/ requests[u] # Idle /\ requests'[u].at = requests[u].at
<1>1. requests \in [Threads -> Request]  BY DEF TypeOK, Request
<1>2. ASSUME NEW t \in Threads, Pairings(t) \/ Phones(t)
      PROVE  /\ requests'[t] \in Request
             /\ requests'[t] # Idle =>
                  \/ requests'[t].at = now
                  \/ requests[t] # Idle /\ requests'[t].at = requests[t].at
             /\ u # t => requests'[u] = requests[u]
  <2>1. PICK r \in Request :
          /\ requests' = [requests EXCEPT ![t] = r]
          /\ r # Idle => r.at = now \/ (requests[t] # Idle /\ r.at = requests[t].at)
    BY <1>2, RequestStep
  <2>2. requests'[t] = r /\ (u # t => requests'[u] = requests[u])
    BY <1>1, <2>1
  <2> QED BY <2>1, <2>2
<1> QED BY <1>2, RequestsOther

(* An identity is given by the gateway, and goes with the request.         *)
LEMMA IdentityStep ==
  ASSUME TypeOK, CodePairsOnePhone, IdentitiesHold, Next
  PROVE  IdentitiesHold'
<1> DEFINE Held(req) == /\ req.device \in DOMAIN enrolled
                        /\ req.at < enrolled[req.device].expiresAt
                        /\ req.session = enrolled[req.device].session
<1>1. Grows  BY GatewayStep
<1>2. now \in Nat /\ now' \in Nat /\ now <= now'
  BY RequestsTyped, ApiAssumption DEF TypeOK
<1>3. ASSUME NEW t \in Threads
      PROVE  requests'[t] # Idle => requests'[t].at <= now'
  <2>1. requests[t] # Idle => requests[t].at <= now /\ requests[t].at \in Nat
    BY RequestKind DEF IdentitiesHold
  <2> QED BY <1>2, <2>1, OthersWait
<1>4. ASSUME NEW t \in Threads, At(t, "identified")' \/ At(t, "executing")'
      PROVE  Held(requests'[t])
  <2>1. CASE requests'[t] = requests[t]
    BY <1>4, <2>1 DEF IdentitiesHold, At
  <2>2. ASSUME Identify(t)
        PROVE  Held(requests'[t])
    <3>1. requests[t] \in PhoneRequest  BY <2>2, RequestKind DEF Identify, At
    <3>2. requests[t].device \in DOMAIN enrolled /\ requests[t].at < enrolled[requests[t].device].expiresAt
      BY <2>2 DEF Identify, Authentic, TypeOK, GatewayTypeOK
    <3>3. requests'[t] = [requests[t] EXCEPT !.step = "identified",
                                             !.session = enrolled[requests[t].device].session]
      BY <2>2 DEF Identify, Continue, TypeOK
    <3> QED BY <3>1, <3>2, <3>3 DEF PhoneRequest
  <2>3. ASSUME NEW a \in Actions, GrantByPhone(t, a)
        PROVE  Held(requests'[t])
    <3>1. requests[t] \in PhoneRequest  BY <2>3, RequestKind DEF GrantByPhone, Served, At
    <3>2. Held(requests[t])  BY <2>3 DEF GrantByPhone, Served, IdentitiesHold
    <3>3. requests'[t] = [requests[t] EXCEPT !.step = "executing", !.action = a]
      BY <2>3 DEF GrantByPhone, Continue, TypeOK
    <3> QED BY <3>1, <3>2, <3>3 DEF PhoneRequest
  <2>4. ASSUME Pairings(t) \/ Phones(t), ~Identify(t), ~\E a \in Actions : GrantByPhone(t, a)
        PROVE  FALSE
    <3>1. requests \in [Threads -> Request]  BY DEF TypeOK, Request
    <3>2. \/ Answer(t) \/ AskForCode(t) \/ (\E h \in Hosts : TryCode(t, h))
          \/ Admit(t) \/ ReadPairingTime(t) \/ (\E d \in Nat : PhoneCalls(t, d))
      BY <2>4 DEF Pairings, Phones, IssueCode, Throttle, FinishPairing, RefusePhone, AnswerOnly,
          DeclineByPhone, FinishDecision, TypeOK, GatewayTypeOK
    <3>3. CASE Admit(t) \/ ReadPairingTime(t)
      <4>1. requests[t] \in PairRequest  BY <3>3, RequestKind DEF Admit, ReadPairingTime
      <4>2. requests'[t].kind = "pair"
        BY <3>1, <3>3, <4>1 DEF Admit, ReadPairingTime, Continue, PairRequest
      <4> QED BY <1>4, <4>2 DEF At
    <3>4. CASE ~(Admit(t) \/ ReadPairingTime(t))
      BY <1>4, <3>1, <3>2, <3>4 DEF Answer, AskForCode, TryCode, PhoneCalls, Continue, At, Idle
    <3> QED BY <3>3, <3>4
  <2> QED BY <2>1, <2>2, <2>3, <2>4, OthersWait
<1>5. \A t \in Threads : At(t, "identified")' \/ At(t, "executing")' =>
        /\ requests'[t].device \in DOMAIN enrolled'
        /\ requests'[t].at < enrolled'[requests'[t].device].expiresAt
        /\ requests'[t].session = enrolled'[requests'[t].device].session
  BY <1>1, <1>4 DEF Grows
<1> QED BY <1>3, <1>5 DEF IdentitiesHold

(* A phone whose session ended is forgotten, and new phones are new.       *)
LEMMA EndedStep ==
  ASSUME TypeOK, CodePairsOnePhone, ended \cap devices = {}, Next
  PROVE  ended' \subseteq DOMAIN enrolled' /\ ended' \cap devices' = {}
<1>1. /\ Grows /\ ended \subseteq DOMAIN enrolled /\ devices \subseteq DOMAIN enrolled
      /\ enrolled \in Seq(Device)
  BY GatewayStep DEF TypeOK, GatewayTypeOK
<1>2. CASE UNCHANGED ended  BY <1>1, <1>2 DEF Grows
<1>3. ASSUME NEW d \in devices, RevokePhone(d)
      PROVE  ended' \subseteq DOMAIN enrolled' /\ ended' \cap devices' = {}
  BY <1>1, <1>3 DEF RevokePhone, Revoke
<1>4. ASSUME NEW t \in Threads, NEW genuine \in BOOLEAN, RefusePhone(t, genuine)
      PROVE  ended' \subseteq DOMAIN enrolled' /\ ended' \cap devices' = {}
  <2> DEFINE r == requests[t]
  <2>1. r.at \in Nat  BY <1>4, RequestKind DEF RefusePhone, At
  <2>2. \A d \in devices : enrolled[d].expiresAt \in Nat
    <3>1. \A d \in DOMAIN enrolled : enrolled[d] \in Device  BY <1>1, ElementType
    <3> QED BY <1>1, <3>1 DEF Device
  <2>3. /\ devices' = {e \in devices : e = r.device => r.at < enrolled[e].expiresAt}
        /\ ended' = ended \cup {d \in devices \cap {r.device} : r.at >= enrolled[d].expiresAt}
        /\ enrolled' = enrolled
    BY <1>4 DEF RefusePhone, RefuseDevice
  <2> QED BY <1>1, <2>1, <2>2, <2>3
<1> QED
  BY <1>2, <1>3, <1>4
     DEF Next, Tick, Desktop, Submit, DesktopRejects, Pairings, Phones, AskForCode, IssueCode,
         TryCode, Admit, Throttle, ReadPairingTime, FinishPairing, PhoneCalls, Identify,
         AnswerOnly, DeclineByPhone, GrantByPhone, FinishDecision

(* Who executes has the consent until the execution is over; who decides   *)
(* next speaks for the owner.                                              *)
LEMMA ConsentStep ==
  ASSUME TypeOK, CodePairsOnePhone, IdentitiesHold, ConsentByOwnersPhone, Next
  PROVE  ConsentByOwnersPhone'
<1> DEFINE Consents(t, a) ==
             /\ At(t, "executing") /\ requests[t].action = a
             /\ requests[t].at < enrolled[requests[t].device].expiresAt
             /\ issued[enrolled[requests[t].device].pairing].session = owner[a]
<1> SUFFICES ASSUME NEW a \in Actions, phase'[a] = "acting"
             PROVE  \E t \in Threads : Consents(t, a)'
  BY DEF ConsentByOwnersPhone
<1>1. Grows /\ GatewayTypeOK  BY GatewayStep DEF TypeOK
<1>2. phase \in [Actions -> {"absent", "waiting", "acting", "refused", "done", "failed"}]
      /\ owner \in [Actions -> Sessions \cup {NoOne}]
  BY DEF TypeOK
<1>3. ASSUME NEW t \in Threads, Consents(t, a), requests'[t] = requests[t], owner'[a] = owner[a]
      PROVE  Consents(t, a)'
  <2>1. At(t, "executing")  BY <1>3
  <2>2. requests[t].device \in DOMAIN enrolled  BY <2>1 DEF IdentitiesHold
  <2>3. enrolled[requests[t].device].pairing \in DOMAIN issued  BY <1>1, <2>2 DEF GatewayTypeOK
  <2> QED BY <1>1, <1>3, <2>2, <2>3 DEF Grows, At
<1>4. CASE phase[a] = "acting"
  <2>1. PICK t \in Threads : Consents(t, a)  BY <1>4 DEF ConsentByOwnersPhone
  <2>2. owner'[a] = owner[a]
    BY <1>2, <1>4 DEF Next, Tick, Desktop, Submit, Service!Ask, Service!Move, DesktopRejects,
        RevokePhone, Pairings, Phones, AskForCode, IssueCode, TryCode, Admit, Throttle,
        ReadPairingTime, FinishPairing, PhoneCalls, Identify, RefusePhone, AnswerOnly,
        DeclineByPhone, GrantByPhone, FinishDecision, service
  <2>3. requests[t].kind = "phone" /\ requests[t].step = "executing" /\ requests[t].action = a
    BY <2>1 DEF At
  <2>4. requests'[t] = requests[t]
    <3>1. CASE FinishDecision(t)
      BY <1>2, <1>4, <2>3, <3>1
         DEF FinishDecision, Service!Succeed, Service!Fail, Service!Abort, Service!Move
    <3>2. requests[t] # Idle  BY <2>3 DEF Idle
    <3>3. ~FinishDecision(t) => ~(Pairings(t) \/ Phones(t))
      BY <2>3, <3>2
         DEF Pairings, Phones, AskForCode, IssueCode, TryCode, Admit, Throttle,
             ReadPairingTime, FinishPairing, PhoneCalls, Identify, RefusePhone, AnswerOnly,
             DeclineByPhone, GrantByPhone, Served, At
    <3> QED BY <3>1, <3>3, OthersWait
  <2> QED BY <1>3, <2>1, <2>2, <2>4
<1>5. CASE phase[a] # "acting"
  <2>1. PICK t \in Threads : GrantByPhone(t, a)
    <3>1. ~Desktop
      BY <1>2, <1>5 DEF Desktop, Submit, DesktopRejects, Service!Ask, Service!Decline, Service!Move
    <3>2. \A t \in Threads : ~FinishDecision(t)
      BY <1>2, <1>5 DEF FinishDecision, Service!Succeed, Service!Fail, Service!Abort, Service!Move
    <3>3. \A t \in Threads, b \in Actions : ~DeclineByPhone(t, b)
      BY <1>2, <1>5 DEF DeclineByPhone, Service!Decline, Service!Move
    <3>4. \A t \in Threads, b \in Actions : GrantByPhone(t, b) => b = a
      BY <1>2, <1>5 DEF GrantByPhone, Service!Grant, Service!Move
    <3> QED
      BY <1>5, <3>1, <3>2, <3>3, <3>4
         DEF Next, Tick, RevokePhone, Pairings, Phones, AskForCode, IssueCode, TryCode, Admit,
             Throttle, ReadPairingTime, FinishPairing, PhoneCalls, Identify, RefusePhone,
             AnswerOnly, service
  <2> DEFINE r == requests[t]
  <2>2. /\ r \in PhoneRequest /\ At(t, "identified") /\ r.session = owner[a]
        /\ requests' = [requests EXCEPT ![t] = [r EXCEPT !.step = "executing", !.action = a]]
        /\ UNCHANGED <<issued, enrolled, owner>>
    BY <2>1, RequestKind DEF GrantByPhone, Served, At, MayDecide, Continue, gateway
  <2>3. /\ requests'[t].kind = "phone" /\ requests'[t].step = "executing"
        /\ requests'[t].action = a /\ requests'[t].device = r.device /\ requests'[t].at = r.at
    BY <2>2 DEF PhoneRequest, TypeOK
  <2>4. r.at < enrolled[r.device].expiresAt /\ r.device \in DOMAIN enrolled
        /\ enrolled[r.device].session = owner[a]
    BY <2>2 DEF IdentitiesHold
  <2>5. issued[enrolled[r.device].pairing].session = owner[a]
    BY <2>4 DEF CodePairsOnePhone
  <2> QED BY <2>2, <2>3, <2>4, <2>5 DEF At
<1> QED BY <1>4, <1>5

(* What is known of the attempts let through.                              *)
LEMMA AdmittedType ==
  ASSUME TypeOK
  PROVE  /\ \A i \in DOMAIN admitted : admitted[i].stamp \in Nat /\ admitted[i].at \in Nat
         /\ DOMAIN admitted = 1..Len(admitted) /\ Len(admitted) \in Nat
         /\ now \in Nat
<1> DEFINE S == [host : Hosts, stamp : 0..MaxTime, at : 0..MaxTime]
<1>1. admitted \in Seq(S)  BY DEF TypeOK
<1>2. \A i \in 0..MaxTime : i \in Nat  BY ApiAssumption
<1>3. \A e \in S : e.stamp \in Nat /\ e.at \in Nat  BY <1>2
<1> HIDE DEF S
<1>4. \A i \in DOMAIN admitted : admitted[i] \in S  BY <1>1, ElementType
<1>5. DOMAIN admitted = 1..Len(admitted) /\ Len(admitted) \in Nat  BY <1>1
<1>6. now \in Nat  BY <1>2 DEF TypeOK
<1> QED BY ONLY <1>3, <1>4, <1>5, <1>6

(* Some stamps kept hold one of its own for each attempt of h that counts. *)
Covers(h, kept) ==
  \E g \in [Counting(h) -> DOMAIN kept] :
    /\ \A i, j \in Counting(h) : g[i] = g[j] => i = j
    /\ \A i \in Counting(h) : kept[g[i]] = admitted[i].stamp

(* The limiter: what it drops cannot count any more.                       *)
LEMMA RecentRemembers ==
  ASSUME TypeOK, IdentitiesHold, StampsKept, NEW t \in Threads,
         NEW r, r = requests[t], r.kind = "pair",
         NEW recent, recent = Recent(attempts[r.host], r.at)
  PROVE  Covers(r.host, recent)
<1> DEFINE A == attempts[r.host]
           C == Counting(r.host)
<1>1. /\ r.host \in Hosts /\ A \in Seq(0..MaxTime) /\ recent \in Seq(0..MaxTime)
  BY RecentOf
<1>2. PICK k \in 0..Len(A) :
        /\ Len(recent) = Len(A) - k
        /\ \A i \in 1..(Len(A) - k) : recent[i] = A[i + k]
        /\ \A j \in 1..k : A[j] + AttemptWindow <= now
  <2>1. Rest(A, recent)  BY RecentOf
  <2> HIDE DEF A
  <2> QED BY ONLY <2>1 DEF Rest
<1>3. PICK f \in [C -> DOMAIN A] : /\ \A i, j \in C : f[i] = f[j] => i = j
                                  /\ \A i \in C : A[f[i]] = admitted[i].stamp
  BY <1>1 DEF StampsKept
<1>4. \A i \in C : f[i] \notin 1..k
  <2> SUFFICES ASSUME NEW i \in C, f[i] \in 1..k PROVE FALSE
    OBVIOUS
  <2>1. i \in DOMAIN admitted /\ admitted[i].stamp + AttemptWindow > now  BY DEF Counting
  <2>2. admitted[i].stamp + AttemptWindow <= now  BY <1>2, <1>3
  <2>3. admitted[i].stamp \in Nat /\ now \in Nat  BY <2>1, AdmittedType
  <2> QED BY <2>1, <2>2, <2>3, ApiAssumption
<1>5. /\ Len(A) \in Nat /\ DOMAIN A = 1..Len(A) /\ DOMAIN recent = 1..Len(recent)
  BY <1>1
<1> DEFINE g == [i \in C |-> f[i] - k]
<1> HIDE DEF A, C
<1>6. \A i \in C : f[i] \in Nat /\ f[i] - k \in 1..(Len(A) - k) /\ (f[i] - k) + k = f[i]
  <2> TAKE i \in C
  <2>1. f[i] \in 1..Len(A) /\ f[i] \notin 1..k  BY <1>4, <1>5
  <2> QED BY <1>5, <2>1
<1>7. g \in [C -> DOMAIN recent]  BY <1>2, <1>5, <1>6
<1>8. \A i, j \in C : g[i] = g[j] => i = j  BY <1>3, <1>5, <1>6
<1>9. \A i \in C : recent[g[i]] = admitted[i].stamp  BY <1>2, <1>3, <1>6
<1> HIDE DEF g
<1>10. \E u \in [C -> DOMAIN recent] : /\ \A i, j \in C : u[i] = u[j] => i = j
                                     /\ \A i \in C : recent[u[i]] = admitted[i].stamp
  BY ONLY <1>7, <1>8, <1>9, Zenon
<1> QED BY ONLY <1>10 DEF C, Covers

(* As long as nothing is admitted there is nothing more to count.          *)
LEMMA CountingShrinks ==
  ASSUME TypeOK, now' \in Nat, now <= now', UNCHANGED admitted, NEW h \in Hosts
  PROVE  Counting(h)' \subseteq Counting(h)
<1>1. \A i \in DOMAIN admitted : admitted[i].stamp \in Nat /\ now \in Nat  BY AdmittedType
<1> QED BY <1>1, ApiAssumption DEF Counting

(* What is counted after a step.                                           *)
CountingNext(h) == {i \in DOMAIN admitted' : admitted'[i].host = h
                                             /\ admitted'[i].stamp + AttemptWindow > now'}

(* The k-th attempt is let through for h, stamped s, with kept before it. *)
LetThrough(h, s, kept, k) ==
  /\ h \in Hosts /\ kept \in Seq(0..MaxTime) /\ Len(kept) < AttemptLimit
  /\ attempts' = [attempts EXCEPT ![h] = Append(kept, s)]
  /\ DOMAIN Append(kept, s) = 1..(Len(kept) + 1)
  /\ k = Len(admitted') /\ k \in Nat /\ k \notin DOMAIN admitted
  /\ DOMAIN admitted' = DOMAIN admitted \cup {k}
  /\ admitted'[k].host = h /\ admitted'[k].at = now
  /\ \A i \in DOMAIN admitted : admitted'[i] = admitted[i]
  /\ now' = now
  /\ \E g \in [CountingNext(h) -> 1..(Len(kept) + 1)] :
       /\ \A i, j \in CountingNext(h) : g[i] = g[j] => i = j
       /\ \A i \in CountingNext(h) : Append(kept, s)[g[i]] = admitted'[i].stamp

(* One attempt more is counted when one is let through, the last; and it   *)
(* has a stamp of its own, the last as well.                               *)
LEMMA AdmitRemembers ==
  ASSUME TypeOK, IdentitiesHold, StampsKept, NEW t \in Threads, Admit(t)
  PROVE  \E h, s, kept, k : LetThrough(h, s, kept, k)
<1>a. PICK r : r = requests[t]  OBVIOUS
<1>b. PICK recent : recent = Recent(attempts[r.host], r.at)  OBVIOUS
<1>c. PICK h : h = r.host  OBVIOUS
<1>d. PICK s : s = r.at  OBVIOUS
<1>e. PICK n : n = Len(admitted')  OBVIOUS
<1> DEFINE e == [host |-> h, stamp |-> s, at |-> now]
           S == [host : Hosts, stamp : 0..MaxTime, at : 0..MaxTime]
<1>1. /\ r.kind = "pair" /\ Len(recent) < AttemptLimit
      /\ attempts' = [attempts EXCEPT ![h] = Append(recent, s)]
      /\ admitted' = Append(admitted, e) /\ now' = now
  BY <1>a, <1>b, <1>c, <1>d DEF Admit, WithinLimit
<1>2. h \in Hosts /\ s \in 0..MaxTime /\ recent \in Seq(0..MaxTime)
  BY <1>1, <1>a, <1>b, <1>c, <1>d, RecentOf
<1>3. e \in S /\ e.stamp = s /\ e.host = h /\ e.at = now /\ admitted \in Seq(S)
  BY <1>2 DEF TypeOK
<1> HIDE DEF e, S
<1>4. /\ DOMAIN admitted' = DOMAIN admitted \cup {n} /\ n \notin DOMAIN admitted /\ n \in Nat
      /\ admitted'[n] = e /\ \A i \in DOMAIN admitted : admitted'[i] = admitted[i]
  BY <1>1, <1>3, <1>e, Appended
<1>5. \A i \in DOMAIN admitted \cap Counting(h)' : i \in Counting(h)
  BY <1>1, <1>4 DEF Counting
<1>6. Counting(h)' \subseteq Counting(h) \cup {n}
  BY <1>4, <1>5 DEF Counting
<1> DEFINE C == Counting(h)
           m == Len(recent) + 1
           q == Append(recent, s)
<1>7. PICK f \in [C -> DOMAIN recent] : /\ \A i, j \in C : f[i] = f[j] => i = j
                                       /\ \A i \in C : recent[f[i]] = admitted[i].stamp
  <2>1. r.kind = "pair" /\ r = requests[t] /\ recent = Recent(attempts[r.host], r.at)
    BY <1>1, <1>a, <1>b, <1>c, <1>d
  <2>2. Covers(r.host, recent)
    BY ONLY <2>1, TypeOK, IdentitiesHold, StampsKept, t \in Threads, RecentRemembers
  <2>3. h = r.host  BY <1>c
  <2>4. Covers(h, recent)  BY ONLY <2>2, <2>3
  <2> QED BY ONLY <2>4 DEF Covers
<1>8. /\ DOMAIN recent = 1..Len(recent) /\ Len(recent) \in Nat
      /\ m \notin DOMAIN recent /\ DOMAIN recent \subseteq 1..m /\ m \in 1..m
      /\ q[m] = s /\ \A i \in DOMAIN recent : q[i] = recent[i]
  BY <1>2
<1> DEFINE D == Counting(h)'
           g == [i \in D |-> IF i = n THEN m ELSE f[i]]
<1>9. D \subseteq C \cup {n} /\ n \notin C /\ \A i \in C : i \in DOMAIN admitted
  BY <1>4, <1>6 DEF Counting
<1> HIDE DEF C, D, m, q
<1>10. \A i \in D \ {n} : i \in C /\ g[i] = f[i] /\ g[i] \in DOMAIN recent /\ g[i] # m
  BY <1>8, <1>9
<1>11. n \in D => g[n] = m  OBVIOUS
<1>12. g \in [D -> 1..m]  BY <1>8, <1>10
<1>13. \A i, j \in D : g[i] = g[j] => i = j
  BY <1>7, <1>10, <1>11
<1>14. \A i \in D : q[g[i]] = admitted'[i].stamp
  BY <1>3, <1>4, <1>7, <1>8, <1>9, <1>10, <1>11
<1> HIDE DEF g
<1>15. \E u \in [D -> 1..m] : /\ \A i, j \in D : u[i] = u[j] => i = j
                             /\ \A i \in D : q[u[i]] = admitted'[i].stamp
  BY <1>12, <1>13, <1>14
<1>16. LetThrough(h, s, recent, n)
  <2>1. DOMAIN q = 1..m  BY <1>2 DEF q, m
  <2> QED BY <1>1, <1>2, <1>3, <1>4, <1>15, <2>1, <1>e DEF D, m, q, Counting, CountingNext, LetThrough
<1> QED BY <1>16, Zenon

(* The limiter changes in two steps only.                                  *)
LEMMA LimiterSteps ==
  ASSUME Next, ~UNCHANGED limiter
  PROVE  \E t \in Threads : Admit(t) \/ Throttle(t)
  BY RequestsOther
     DEF Pairings, Phones, AskForCode, IssueCode, TryCode, ReadPairingTime, FinishPairing,
         PhoneCalls, Identify, RefusePhone, AnswerOnly, DeclineByPhone, GrantByPhone,
         FinishDecision, limiter

(* Every step keeps a stamp for each attempt that still counts.            *)
LEMMA StampsStep ==
  ASSUME TypeOK, IdentitiesHold, StampsKept, Next
  PROVE  StampsKept'
<1> DEFINE Kept(A, h) == \E f \in [Counting(h)' -> DOMAIN A] :
                           /\ \A i, j \in Counting(h)' : f[i] = f[j] => i = j
                           /\ \A i \in Counting(h)' : A[f[i]] = admitted'[i].stamp
<1> SUFFICES ASSUME NEW h \in Hosts
             PROVE  Kept(attempts'[h], h)
  BY DEF StampsKept
<1>1. now' \in Nat /\ now <= now'  BY RequestsTyped, ApiAssumption
<1>2. ASSUME attempts'[h] = attempts[h], UNCHANGED admitted
      PROVE  Kept(attempts'[h], h)
  <2>1. Counting(h)' \subseteq Counting(h)  BY <1>1, <1>2, CountingShrinks
  <2>2. PICK f \in [Counting(h) -> DOMAIN attempts[h]] :
          /\ \A i, j \in Counting(h) : f[i] = f[j] => i = j
          /\ \A i \in Counting(h) : attempts[h][f[i]] = admitted[i].stamp
    BY DEF StampsKept
  <2>3. \E g \in [Counting(h)' -> DOMAIN attempts[h]] :
          /\ \A i, j \in Counting(h)' : g[i] = g[j] => i = j
          /\ \A i \in Counting(h)' : attempts[h][g[i]] = admitted[i].stamp
    <3> DEFINE g == [i \in Counting(h)' |-> f[i]]
    <3>1. g \in [Counting(h)' -> DOMAIN attempts[h]] /\ \A i \in Counting(h)' : g[i] = f[i]
      BY <2>1
    <3> HIDE DEF g
    <3> QED BY <2>1, <2>2, <3>1
  <2> QED BY <1>2, <2>3
<1>3. ASSUME NEW t \in Threads, Throttle(t)
      PROVE  Kept(attempts'[h], h)
  <2>1. PICK r : r = requests[t]  OBVIOUS
  <2>2. PICK recent : recent = Recent(attempts[r.host], r.at)  OBVIOUS
  <2>3. r.kind = "pair" /\ attempts' = [attempts EXCEPT ![r.host] = recent] /\ admitted' = admitted
    BY <1>3, <2>1, <2>2 DEF Throttle
  <2>4. CASE h # r.host
    BY <1>2, <2>3, <2>4 DEF TypeOK
  <2>5. CASE h = r.host
    <3>1. attempts'[h] = recent  BY <2>3, <2>5 DEF TypeOK
    <3>2. Counting(h)' \subseteq Counting(h)  BY <1>1, <2>3, CountingShrinks
    <3>3. PICK f \in [Counting(h) -> DOMAIN recent] :
            /\ \A i, j \in Counting(h) : f[i] = f[j] => i = j
            /\ \A i \in Counting(h) : recent[f[i]] = admitted[i].stamp
      <4>1. Covers(r.host, recent)
        BY ONLY <2>1, <2>2, <2>3, TypeOK, IdentitiesHold, StampsKept, t \in Threads,
                RecentRemembers
      <4>2. Covers(h, recent)  BY ONLY <2>5, <4>1
      <4> QED BY ONLY <4>2 DEF Covers
    <3>4. \E g \in [Counting(h)' -> DOMAIN recent] :
            /\ \A i, j \in Counting(h)' : g[i] = g[j] => i = j
            /\ \A i \in Counting(h)' : recent[g[i]] = admitted[i].stamp
      <4> DEFINE g == [i \in Counting(h)' |-> f[i]]
      <4>1. g \in [Counting(h)' -> DOMAIN recent] /\ \A i \in Counting(h)' : g[i] = f[i]
        BY <3>2
      <4> HIDE DEF g
      <4> QED BY <3>2, <3>3, <4>1
    <3> QED BY <2>3, <3>1, <3>4
  <2> QED BY <2>4, <2>5
<1>4. ASSUME NEW t \in Threads, Admit(t)
      PROVE  Kept(attempts'[h], h)
  <2>30. PICK k, s, recent, n : LetThrough(k, s, recent, n)  BY <1>4, AdmitRemembers
  <2>3. /\ k \in Hosts /\ recent \in Seq(0..MaxTime) /\ Len(recent) < AttemptLimit
        /\ attempts' = [attempts EXCEPT ![k] = Append(recent, s)]
        /\ DOMAIN Append(recent, s) = 1..(Len(recent) + 1)
        /\ n = Len(admitted') /\ n \in Nat /\ n \notin DOMAIN admitted
        /\ DOMAIN admitted' = DOMAIN admitted \cup {n}
        /\ admitted'[n].host = k /\ admitted'[n].at = now
        /\ \A i \in DOMAIN admitted : admitted'[i] = admitted[i]
        /\ now' = now
        /\ \E g \in [CountingNext(k) -> 1..(Len(recent) + 1)] :
             /\ \A i, j \in CountingNext(k) : g[i] = g[j] => i = j
             /\ \A i \in CountingNext(k) : Append(recent, s)[g[i]] = admitted'[i].stamp
    BY <2>30 DEF LetThrough
  <2>31. CountingNext(k) = Counting(k)'  BY DEF Counting, CountingNext
  <2>4. CASE h # k
    <3>1. admitted'[n].host # h  BY <2>3, <2>4
    <3>11. DOMAIN admitted' = DOMAIN admitted \cup {n}  BY <2>3
    <3>2. Counting(h)' \subseteq Counting(h) /\ \A i \in Counting(h)' : admitted'[i] = admitted[i]
      BY <2>3, <3>1, <3>11 DEF Counting
    <3>3. attempts'[h] = attempts[h]  BY <2>3, <2>4 DEF TypeOK
    <3>4. PICK f \in [Counting(h) -> DOMAIN attempts[h]] :
            /\ \A i, j \in Counting(h) : f[i] = f[j] => i = j
            /\ \A i \in Counting(h) : attempts[h][f[i]] = admitted[i].stamp
      BY DEF StampsKept
    <3>5. \E g \in [Counting(h)' -> DOMAIN attempts[h]] :
            /\ \A i, j \in Counting(h)' : g[i] = g[j] => i = j
            /\ \A i \in Counting(h)' : attempts[h][g[i]] = admitted[i].stamp
      <4> DEFINE g == [i \in Counting(h)' |-> f[i]]
      <4>1. g \in [Counting(h)' -> DOMAIN attempts[h]] /\ \A i \in Counting(h)' : g[i] = f[i]
        BY <3>2
      <4> HIDE DEF g
      <4> QED BY <3>2, <3>4, <4>1
    <3> QED BY <3>2, <3>3, <3>5
  <2>5. CASE h = k
    <3>1. attempts'[h] = Append(recent, s)  BY <2>3, <2>5 DEF TypeOK
    <3> QED BY <2>3, <2>31, <2>5, <3>1
  <2> QED BY <2>4, <2>5
<1>5. CASE UNCHANGED limiter  BY <1>2, <1>5 DEF limiter
<1> QED BY <1>3, <1>4, <1>5, LimiterSteps

(* The attempt that is let through finds room among the stamps, and as     *)
(* many attempts are counted as there are stamps for them.                 *)
LEMMA LimitStep ==
  ASSUME TypeOK, IdentitiesHold, StampsKept, AttemptsLimited, Next
  PROVE  AttemptsLimited'
<1> DEFINE Counted(log, n) == {i \in 1..n : /\ log[i].host = log[n].host
                                           /\ log[i].stamp + AttemptWindow > log[n].at}
<1>1. CASE UNCHANGED admitted  BY <1>1 DEF AttemptsLimited
<1>2. ASSUME NEW t \in Threads, Admit(t)
      PROVE  AttemptsLimited'
  <2>3. PICK h, s, recent, n : LetThrough(h, s, recent, n)  BY <1>2, AdmitRemembers
  <2>4. /\ h \in Hosts /\ recent \in Seq(0..MaxTime) /\ Len(recent) < AttemptLimit
        /\ attempts' = [attempts EXCEPT ![h] = Append(recent, s)]
        /\ DOMAIN Append(recent, s) = 1..(Len(recent) + 1)
        /\ n = Len(admitted') /\ n \in Nat /\ n \notin DOMAIN admitted
        /\ DOMAIN admitted' = DOMAIN admitted \cup {n}
        /\ admitted'[n].host = h /\ admitted'[n].at = now
        /\ \A i \in DOMAIN admitted : admitted'[i] = admitted[i]
        /\ now' = now
        /\ \E g \in [CountingNext(h) -> 1..(Len(recent) + 1)] :
             /\ \A i, j \in CountingNext(h) : g[i] = g[j] => i = j
             /\ \A i \in CountingNext(h) : Append(recent, s)[g[i]] = admitted'[i].stamp
    BY <2>3 DEF LetThrough
  <2>5. ASSUME NEW m \in DOMAIN admitted
        PROVE  Cardinality(Counted(admitted', m)) <= AttemptLimit
    <3>1. \A i \in 1..m : i \in DOMAIN admitted  BY AdmittedType
    <3>2. Counted(admitted', m) = Counted(admitted, m)  BY <2>4, <3>1
    <3>3. Cardinality(Counted(admitted, m)) <= AttemptLimit  BY DEF AttemptsLimited
    <3> QED BY <3>2, <3>3
  <2>6. Cardinality(Counted(admitted', n)) <= AttemptLimit
    <3> DEFINE C == CountingNext(h)
               T == 1..(Len(recent) + 1)
    <3>1. DOMAIN admitted' = 1..n
      <4>1. admitted' \in Seq([host : Hosts, stamp : 0..MaxTime, at : 0..MaxTime])
        BY LimiterTyped
      <4>2. n = Len(admitted')  BY <2>4
      <4>3. DOMAIN admitted' = 1..Len(admitted')  BY ONLY <4>1
      <4> QED BY ONLY <4>2, <4>3
    <3>2. Counted(admitted', n) = C
      BY <2>4, <3>1 DEF CountingNext
    <3>3. Len(recent) \in Nat  BY <2>4
    <3>4. IsFiniteSet(T) /\ Cardinality(T) = Len(recent) + 1
      BY <3>3, FS_Interval
    <3>5. \E g \in [C -> T] : \A i, j \in C : g[i] = g[j] => i = j  BY <2>4
    <3> HIDE DEF C, T
    <3>6. PICK g \in [C -> T] : \A i, j \in C : g[i] = g[j] => i = j  BY <3>5
    <3>7. g \in Injection(C, T)  BY <3>6 DEF Injection, IsInjective
    <3>8. Cardinality(C) <= Cardinality(T) /\ IsFiniteSet(C)  BY <3>4, <3>7, FS_Injection
    <3>9. Cardinality(C) \in Nat  BY <3>8, FS_CardinalityType
    <3>10. Len(recent) < AttemptLimit /\ AttemptLimit \in Nat  BY <2>4, ApiAssumption
    <3>11. Cardinality(C) <= AttemptLimit  BY ONLY <3>3, <3>4, <3>8, <3>9, <3>10
    <3> QED BY <3>2, <3>11
  <2>7. \A m \in DOMAIN admitted' : Cardinality(Counted(admitted', m)) <= AttemptLimit
    <3> HIDE DEF Counted
    <3> QED BY <2>4, <2>5, <2>6
  <2> QED BY <2>7 DEF AttemptsLimited
<1> QED BY <1>1, <1>2, LimiterSteps DEF Throttle, limiter

-----------------------------------------------------------------------------
(* The invariant.                                                          *)

(* It holds of an empty gateway and a service without tasks.               *)
LEMMA InitInv ==
  ASSUME Init
  PROVE  ApiInv
<1> USE DEF Init, GatewayInit
<1>1. TypeOK
  <2>1. now \in 0..MaxTime /\ attempts \in [Hosts -> Seq(0..MaxTime)]  BY ApiAssumption
  <2>2. GatewayTypeOK  BY DEF GatewayTypeOK
  <2>3. /\ requests \in [Threads -> Request]
        /\ owner \in [Actions -> Sessions \cup {NoOne}]
        /\ phase \in [Actions -> {"absent", "waiting", "acting", "refused", "done", "failed"}]
    BY DEF Request, Service!Init
  <2>4. admitted \in Seq([host : Hosts, stamp : 0..MaxTime, at : 0..MaxTime])  OBVIOUS
  <2> QED BY <2>1, <2>2, <2>3, <2>4 DEF TypeOK, Request
<1>2. CodePairsOnePhone  BY DEF CodePairsOnePhone
<1>3. IdentitiesHold /\ ConsentByOwnersPhone
  BY DEF IdentitiesHold, ConsentByOwnersPhone, At, Idle, Service!Init
<1>4. ended \cap devices = {}  OBVIOUS
<1>5. StampsKept
  <2>1. \A h \in Hosts : Counting(h) = {}  BY DEF Counting
  <2> SUFFICES ASSUME NEW h \in Hosts
               PROVE  \E f \in [{} -> DOMAIN attempts[h]] : TRUE
    BY <2>1 DEF StampsKept
  <2>2. [i \in {} |-> i] \in [{} -> DOMAIN attempts[h]]  OBVIOUS
  <2> QED BY <2>2
<1>6. AttemptsLimited  BY DEF AttemptsLimited
<1> QED BY <1>1, <1>2, <1>3, <1>4, <1>5, <1>6 DEF ApiInv

(* It is inductive: each part from the parts before it.                    *)
LEMMA NextInv ==
  ASSUME ApiInv, [Next]_vars
  PROVE  ApiInv'
<1> USE DEF ApiInv
<1>1. CASE UNCHANGED vars
  <2> USE <1>1 DEF vars, gateway, limiter, service
  <2>1. TypeOK'  BY DEF TypeOK, GatewayTypeOK
  <2>2. CodePairsOnePhone'  BY DEF CodePairsOnePhone
  <2>3. IdentitiesHold' /\ ConsentByOwnersPhone'
    BY DEF IdentitiesHold, ConsentByOwnersPhone, At
  <2>4. (ended \cap devices = {})'  OBVIOUS
  <2>5. StampsKept'
    <3> SUFFICES ASSUME NEW h \in Hosts
                 PROVE  (\E f \in [Counting(h) -> DOMAIN attempts[h]] :
                           /\ \A i, j \in Counting(h) : f[i] = f[j] => i = j
                           /\ \A i \in Counting(h) : attempts[h][f[i]] = admitted[i].stamp)'
      BY DEF StampsKept
    <3>1. Counting(h)' = Counting(h)  BY DEF Counting
    <3> QED BY <3>1 DEF StampsKept
  <2>6. AttemptsLimited'  BY DEF AttemptsLimited
  <2> QED BY <2>1, <2>2, <2>3, <2>4, <2>5, <2>6
<1>2. CASE Next
  <2>1. TypeOK'
    <3>1. GatewayTypeOK'  BY <1>2, GatewayStep DEF GatewayInv
    <3> QED
      BY <1>2, <3>1, RequestsTyped, LimiterTyped, ServiceTyped, EndedStep DEF TypeOK, Request
  <2>2. CodePairsOnePhone'  BY <1>2, GatewayStep DEF GatewayInv
  <2>3. IdentitiesHold'  BY <1>2, IdentityStep
  <2>4. ConsentByOwnersPhone'  BY <1>2, ConsentStep
  <2>5. (ended \cap devices = {})'  BY <1>2, EndedStep
  <2>6. StampsKept'  BY <1>2, StampsStep
  <2>7. AttemptsLimited'  BY <1>2, LimitStep
  <2> QED BY <2>1, <2>2, <2>3, <2>4, <2>5, <2>6, <2>7
<1> QED BY <1>1, <1>2

(* The invariant of the phone's side of the API.                           *)
THEOREM ApiInvariant == Spec => []ApiInv
BY InitInv, NextInv, PTL DEF Spec

(* No code pairs two phones, whoever asks for codes and tries them, in any *)
(* order and with clocks read early, and a phone works for the session that*)
(* its code was shown to (create_pairing, pair).                           *)
THEOREM OnePhonePerCode == Spec => []CodePairsOnePhone
<1>1. ApiInv => CodePairsOnePhone  BY DEF ApiInv
<1> QED BY <1>1, ApiInvariant, PTL

(* A command that needs the phone runs only while a phone of its owner's   *)
(* session, not expired when it called, is deciding it                     *)
(* (decide_mobile_approval).                                               *)
THEOREM OwnersPhoneConsents == Spec => []ConsentByOwnersPhone
<1>1. ApiInv => ConsentByOwnersPhone  BY DEF ApiInv
<1> QED BY <1>1, ApiInvariant, PTL

(* The limiter of pairing attempts keeps its limit, for any limit and      *)
(* window, although threads read the clock before they hold its lock and   *)
(* stamps are dropped from the head only (_enforce_pair_rate_limit).       *)
THEOREM LimiterLimits == Spec => []AttemptsLimited
<1>1. ApiInv => AttemptsLimited  BY DEF ApiInv
<1> QED BY <1>1, ApiInvariant, PTL

(* A phone that was revoked, or told that its session is over, is never    *)
(* identified again (authenticate, revoke).                                *)
THEOREM EndedNeverReturns == Spec => EndedStaysOut
<1> DEFINE Out(t) == At(t, "arrived") /\ At(t, "identified")' => requests[t].device \notin ended
<1>1. ASSUME ApiInv, [Next]_vars
      PROVE  [\A t \in Threads : Out(t)]_vars
  <2> SUFFICES ASSUME Next, NEW t \in Threads, At(t, "arrived"), At(t, "identified")'
               PROVE  requests[t].device \notin ended
    BY <1>1
  <2>1. Identify(t)
    <3>1. requests'[t] # requests[t] /\ requests[t].kind = "phone" /\ requests[t].step = "arrived"
          /\ requests'[t].kind = "phone" /\ requests'[t].step = "identified"
      BY DEF At
    <3>2. Pairings(t) \/ Phones(t)  BY <1>1, <3>1, OthersWait DEF ApiInv
    <3>3. requests \in [Threads -> Request]  BY <1>1 DEF ApiInv, TypeOK, Request
    <3>6. /\ requests[t] # Idle /\ requests[t].kind # "code" /\ requests[t].kind # "pair"
          /\ ~At(t, "identified") /\ ~At(t, "executing")
      BY <3>1 DEF Idle, At
    <3>4. ~Pairings(t)
      BY <3>6, Zenon
         DEF Pairings, AskForCode, IssueCode, TryCode, Admit, Throttle, ReadPairingTime,
             FinishPairing
    <3>5. ~Answer(t)  BY <3>1, <3>3 DEF Answer, Idle
    <3> QED
      BY <3>2, <3>4, <3>5, <3>6, Zenon
         DEF Phones, PhoneCalls, RefusePhone, AnswerOnly, DeclineByPhone, GrantByPhone,
             FinishDecision, Served
  <2>2. requests[t].device \in devices  BY <2>1 DEF Identify, Authentic
  <2> QED BY <1>1, <2>2 DEF ApiInv
<1>2. ApiInv /\ [Next]_vars => [\A t \in Threads : Out(t)]_vars  BY <1>1
<1> QED BY <1>2, ApiInvariant, PTL DEF Spec, EndedStaysOut
=============================================================================
