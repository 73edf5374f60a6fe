---------------------------- MODULE PhoneGateway ----------------------------
(***************************************************************************)
(* MobileApprovalGateway (mobile/gateway.py): pairing codes and the device *)
(* sessions phones get for them, behind one RLock.                         *)
(*                                                                         *)
(* Every operation takes the time "at" that its caller read before the     *)
(* lock was his, so an operation may work with an older time than the one  *)
(* before it.  The operations below are what happens under the lock;       *)
(* PhoneApi says when they are called.                                     *)
(***************************************************************************)
EXTENDS Naturals, Sequences, FiniteSets

CONSTANTS
  Sessions,         \* user session ids
  Codes,            \* the pairing codes that can be drawn
  PairingLifetime,  \* _PAIRING_LIFETIME
  SessionLifetime   \* _DEVICE_SESSION_LIFETIME

ASSUME GatewayAssumption ==
  /\ PairingLifetime \in Nat \ {0}
  /\ SessionLifetime \in Nat \ {0}

(* Records are immutable and keyed by ids nobody else has (uuid5 over a    *)
(* code, a token and a time), so a pairing and a device are named by their *)
(* place in the order in which they were made.                             *)
VARIABLES
  issued,    \* every pairing made so far: [code, session, expiresAt]
  pairings,  \* _pairings: the pairing of a code and whether it is consumed
  enrolled,  \* every device so far: [pairing, session, expiresAt]
  devices    \* _devices

gateway == <<issued, pairings, enrolled, devices>>

Pairing == [code : Codes, session : Sessions, expiresAt : Nat]
Device  == [pairing : Nat, session : Sessions, expiresAt : Nat]

GatewayInit ==
  /\ issued = << >>
  /\ pairings = << >>
  /\ enrolled = << >>
  /\ devices = {}

-----------------------------------------------------------------------------
(* create_pairing.                                                         *)

(* The codes that are not dropped as expired.                              *)
Live(at) == {c \in DOMAIN pairings : issued[pairings[c].id].expiresAt > at}

FreeCodes(at) == Codes \ Live(at)

(* Mutant: the record of the pairing before.                               *)
CreatePairingMisfiled(s, at) ==
  /\ \E code \in FreeCodes(at) :
       /\ issued' = Append(issued, [code |-> code, session |-> s,
                                    expiresAt |-> at + PairingLifetime])
       /\ pairings' = [c \in Live(at) \cup {code} |->
                         IF c = code THEN [id |-> Len(issued), consumed |-> FALSE]
                                     ELSE pairings[c]]
  /\ UNCHANGED <<enrolled, devices>>

CreatePairing(s, at) ==
  /\ \E code \in FreeCodes(at) :
       /\ issued' = Append(issued, [code |-> code, session |-> s,
                                    expiresAt |-> at + PairingLifetime])
       /\ pairings' = [c \in Live(at) \cup {code} |->
                         IF c = code THEN [id |-> Len(issued'), consumed |-> FALSE]
                                     ELSE pairings[c]]
  /\ UNCHANGED <<enrolled, devices>>

(* PAIRING_CODE_GENERATION_FAILED: twenty draws hit codes that are taken.  *)
NoCodeDrawn(at) ==
  /\ Live(at) # {}
  /\ pairings' = [c \in Live(at) |-> pairings[c]]
  /\ UNCHANGED <<issued, enrolled, devices>>

-----------------------------------------------------------------------------
(* pair.                                                                   *)

PairError(code, at) ==
  IF code \notin DOMAIN pairings THEN "invalid"
  ELSE IF pairings[code].consumed THEN "used"
  ELSE IF at >= issued[pairings[code].id].expiresAt THEN "expired"
  ELSE "none"

(* Mutant: the code is left as it was.                                     *)
PairKeepingCode(code, at) ==
  /\ PairError(code, at) = "none"
  /\ enrolled' = Append(enrolled, [pairing   |-> pairings[code].id,
                                   session   |-> issued[pairings[code].id].session,
                                   expiresAt |-> at + SessionLifetime])
  /\ devices' = devices \cup {Len(enrolled')}
  /\ UNCHANGED <<issued, pairings>>

(* Mutant: the session that asked for a code last.                         *)
PairWithLatest(code, at) ==
  /\ PairError(code, at) = "none"
  /\ enrolled' = Append(enrolled, [pairing   |-> pairings[code].id,
                                   session   |-> issued[Len(issued)].session,
                                   expiresAt |-> at + SessionLifetime])
  /\ devices' = devices \cup {Len(enrolled')}
  /\ pairings' = [pairings EXCEPT ![code].consumed = TRUE]
  /\ UNCHANGED issued

Pair(code, at) ==
  /\ PairError(code, at) = "none"
  /\ enrolled' = Append(enrolled, [pairing   |-> pairings[code].id,
                                   session   |-> issued[pairings[code].id].session,
                                   expiresAt |-> at + SessionLifetime])
  /\ devices' = devices \cup {Len(enrolled')}
  /\ pairings' = [pairings EXCEPT ![code].consumed = TRUE]
  /\ UNCHANGED issued

-----------------------------------------------------------------------------
(* authenticate.  genuine: the presented token is the one the device got.  *)

Authentic(d, genuine, at) ==
  /\ d \in devices
  /\ at < enrolled[d].expiresAt
  /\ genuine

(* Mutant: an expired device is refused but not forgotten.                 *)
RefuseKeepingDevice(d, genuine, at) ==
  /\ ~Authentic(d, genuine, at)
  /\ UNCHANGED gateway

(* Not paired, wrong token, or expired: then the device is forgotten.      *)
RefuseDevice(d, genuine, at) ==
  /\ ~Authentic(d, genuine, at)
  /\ devices' = {e \in devices : e = d => at < enrolled[e].expiresAt}
  /\ UNCHANGED <<issued, pairings, enrolled>>

(* revoke.                                                                 *)
Revoke(d) ==
  /\ devices' = devices \ {d}
  /\ UNCHANGED <<issued, pairings, enrolled>>

-----------------------------------------------------------------------------
(* Properties.                                                             *)

(* Every variable has its type; a code in use names the pairing it was     *)
(* drawn for, a device the pairing it was made with.                       *)
GatewayTypeOK ==
  /\ issued \in Seq(Pairing)
  /\ DOMAIN pairings \subseteq Codes
  /\ \A c \in DOMAIN pairings :
       /\ pairings[c] \in [id : DOMAIN issued, consumed : BOOLEAN]
       /\ issued[pairings[c].id].code = c
  /\ enrolled \in Seq(Device)
  /\ \A d \in DOMAIN enrolled : enrolled[d].pairing \in DOMAIN issued
  /\ devices \subseteq DOMAIN enrolled

(* A pairing code is single-use and session-bound (P4 requirement 4): no   *)
(* two phones were ever paired by one code that was shown, a number that   *)
(* is drawn again included; a phone works for the session whose desktop    *)
(* showed the code; and a code that has paired one is marked, or gone.     *)
CodePairsOnePhone ==
  /\ \A d, e \in DOMAIN enrolled : enrolled[d].pairing = enrolled[e].pairing => d = e
  /\ \A d \in DOMAIN enrolled :
       enrolled[d].session = issued[enrolled[d].pairing].session
  /\ \A c \in DOMAIN pairings, d \in DOMAIN enrolled :
       enrolled[d].pairing = pairings[c].id => pairings[c].consumed
=============================================================================
