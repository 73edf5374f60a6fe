-------------------------- MODULE DeviceNodeProofs --------------------------
(***************************************************************************)
(* Theorems about DeviceNode, for every set of tasks, any lifetime of an   *)
(* envelope, and however often requests are sent and delivered, and core   *)
(* and node are restarted.                                                 *)
(***************************************************************************)
EXTENDS DeviceNode, TLAPS

USE DEF Idle, NoProcess, Nonces

-----------------------------------------------------------------------------
(* What the parts of the steps do.                                         *)

(* An element of a sequence.                                               *)
LEMMA ElementType ==
  ASSUME NEW S, NEW s \in Seq(S), NEW i \in DOMAIN s
  PROVE  s[i] \in S
  OBVIOUS

(* A sequence with one element replaced.                                   *)
LEMMA ElementReplaced ==
  ASSUME NEW S, NEW s \in Seq(S), NEW i \in DOMAIN s, NEW e \in S,
         NEW r, r = [s EXCEPT ![i] = e]
  PROVE  /\ r \in Seq(S) /\ DOMAIN r = DOMAIN s /\ Len(r) = Len(s)
         /\ r[i] = e /\ \A j \in DOMAIN s \ {i} : r[j] = s[j]
<1>1. /\ DOMAIN r = DOMAIN s /\ r[i] = e /\ \A j \in DOMAIN s \ {i} : r[j] = s[j]
      /\ r \in [1..Len(s) -> S] /\ Len(s) \in Nat
  OBVIOUS
<1>2. r \in Seq(S) /\ Len(r) = Len(s)  BY <1>1
<1> QED BY <1>1, <1>2

(* What is known of an envelope and of a handler.                          *)
LEMMA EnvelopeType ==
  ASSUME TypeOK, NEW n \in Nonces
  PROVE  /\ wire[n].kind \in {"launch", "rollback"} /\ wire[n].task \in Tasks
         /\ wire[n].expiresAt \in Nat /\ n \in Nat \ {0}
         /\ admissions[n] \in Nat /\ deliveries[n] \in 0..MaxDeliveries
<1>1. wire[n] \in Envelope /\ n \in Nat \ {0}  BY DEF TypeOK
<1>2. n \in DOMAIN admissions /\ n \in DOMAIN deliveries  BY DEF TypeOK
<1>4. admissions[n] \in Nat /\ deliveries[n] \in 0..MaxDeliveries
  BY <1>2, ElementType DEF TypeOK
<1>3. \A i \in 0..(MaxTime + Lifetime) : i \in Nat  BY DeviceAssumption
<1> QED BY <1>1, <1>3, <1>4 DEF Envelope

(* A handler is at work on a request that was sent.                        *)
LEMMA HandlerType ==
  ASSUME TypeOK, NEW h \in handlers
  PROVE  h.nonce \in Nonces /\ h.at \in {"checked", "admitted"} /\ h \in Handler
  BY DEF TypeOK, Handler

(* A reply ends the call it answers, with an outcome or, when it cannot be *)
(* read, without one; or it reaches nobody.                                *)
LEMMA ReplyEffect ==
  ASSUME TypeOK, NEW n \in Nonces, NEW copy, NEW reply, Reply(n, copy, reply)
  PROVE  \/ UNCHANGED <<call, outcome>>
         \/ /\ call # Idle /\ call.nonce = n /\ call.task = wire[n].task
            /\ call' = Idle
            /\ \/ /\ OutcomeOf(reply) \in {"completed", "rolled_back", "failed"}
                  /\ outcome' = [outcome EXCEPT ![wire[n].task] = OutcomeOf(reply)]
               \/ wire[n].kind = "launch" /\ reply # "error" /\ UNCHANGED outcome
<1>1. CASE call.nonce = n /\ copy = 1
  <2>1. call # Idle  BY <1>1, EnvelopeType
  <2>2. call.task = wire[n].task  BY <1>1, <2>1 DEF TypeOK
  <2>3. OutcomeOf(reply) \in {"completed", "rolled_back", "failed"}  BY DEF OutcomeOf
  <2> QED BY <1>1, <2>1, <2>2, <2>3 DEF Reply, Unreadable
<1>2. CASE ~(call.nonce = n /\ copy = 1)
  BY <1>2 DEF Reply
<1> QED BY <1>1, <1>2

(* The call and what is known of the tasks stay well typed.                *)
LEMMA ReplyType ==
  ASSUME TypeOK, NEW n \in Nonces, NEW copy, NEW reply, Reply(n, copy, reply)
  PROVE  /\ call' = call \/ call' = Idle
         /\ outcome' \in [Tasks -> Outcome]
<1>1. wire[n].task \in Tasks  BY EnvelopeType
<1>2. outcome \in [Tasks -> Outcome]  BY DEF TypeOK
<1> QED BY <1>1, <1>2, ReplyEffect DEF Outcome

(* Initially nothing was sent, and nothing runs.                           *)
LEMMA InitInv == Init => DeviceInv
<1> SUFFICES ASSUME Init PROVE DeviceInv
  OBVIOUS
<1>1. TypeOK  BY DeviceAssumption DEF Init, TypeOK, Outcome, Bound
<1>2. NoncesSuffice /\ AdmittedOnce  BY DEF Init, NoncesSuffice, AdmittedOnce
<1>3. \A t \in Tasks : Running(t) = {}  BY DEF Init, Running
<1>4. NothingOutOfReach  BY <1>3 DEF NothingOutOfReach, RunningOfThisLife
<1>5. ServedOnce /\ OneAtATime /\ EffectsKnown
  BY <1>3 DEF Init, ServedOnce, OneAtATime, EffectsKnown
<1> QED BY <1>1, <1>2, <1>4, <1>5 DEF DeviceInv

-----------------------------------------------------------------------------
(* The core's steps.                                                       *)

(* Time passes, which nothing that is known depends on: a handler goes by  *)
(* its own reading of the clock.                                           *)
LEMMA TickStep ==
  ASSUME DeviceInv, Tick
  PROVE  DeviceInv'
<1>1. /\ now < MaxTime /\ now' = now + 1
      /\ UNCHANGED <<deliveries, wire, call, outcome, coreRestarts, handlers, seen, admissions,
                     purgedAt, launched, processes, nodeRestarts>>
  BY DEF Tick, core, node, cache
<1>2. TypeOK /\ NoncesSuffice /\ AdmittedOnce /\ NothingOutOfReach  BY DEF DeviceInv
<1>3. now \in Nat /\ now' \in 0..MaxTime  BY <1>1, <1>2, DeviceAssumption DEF TypeOK
<1>4. TypeOK'
  <2>1. \A t \in Tasks : Bound(t)' => launched'[t] \in DOMAIN processes'
                                     /\ processes'[launched'[t]].task = t
    BY <1>1, <1>2 DEF TypeOK, Bound
  <2>2. Handler' = Handler /\ Nonces' = Nonces  BY <1>1 DEF Handler
  <2> QED BY <1>1, <1>2, <1>3, <2>1, <2>2 DEF TypeOK
<1>5. NoncesSuffice' /\ AdmittedOnce'  BY <1>1, <1>2 DEF NoncesSuffice, AdmittedOnce
<1>6. NothingOutOfReach'  BY <1>1, <1>2 DEF NothingOutOfReach, RunningOfThisLife, Running
<1>7. (Undisturbed => ServedOnce /\ OneAtATime /\ EffectsKnown)'
  BY <1>1 DEF DeviceInv, Undisturbed, ServedOnce, OneAtATime, EffectsKnown, Spent, Running, Bound,
              Replayed
<1> QED BY <1>4, <1>5, <1>6, <1>7 DEF DeviceInv

(* A new request gets a new nonce, and all others keep theirs.             *)
LEMMA SendEffect ==
  ASSUME TypeOK, NEW kind \in {"launch", "rollback"}, NEW t \in Tasks, Send(kind, t)
  PROVE  /\ wire' \in Seq(Envelope) /\ Len(wire') = Len(wire) + 1
         /\ wire'[Len(wire')].kind = kind /\ wire'[Len(wire')].task = t
         /\ \A n \in Nonces : wire'[n] = wire[n] /\ admissions'[n] = admissions[n]
         /\ admissions' \in Seq(Nat) /\ Len(admissions') = Len(wire')
         /\ admissions'[Len(wire')] = 0
         /\ deliveries' \in Seq(0..MaxDeliveries) /\ Len(deliveries') = Len(wire')
         /\ Nonces \subseteq Nonces' /\ Nonces' = Nonces \cup {Len(wire')}
         /\ Len(wire') \notin Nonces
         /\ call' = [task |-> t, nonce |-> Len(wire')]
<1> DEFINE e == [kind |-> kind, task |-> t, issuedAt |-> now, expiresAt |-> now + Lifetime]
<1>1. e \in Envelope  BY DeviceAssumption DEF TypeOK, Envelope
<1>2. wire \in Seq(Envelope) /\ admissions \in Seq(Nat) /\ deliveries \in Seq(0..MaxDeliveries)
      /\ Len(admissions) = Len(wire) /\ Len(deliveries) = Len(wire)
  BY DEF TypeOK
<1>3. 0 \in 0..MaxDeliveries  BY DeviceAssumption
<1>4. wire' = Append(wire, e) /\ admissions' = Append(admissions, 0)
      /\ deliveries' = Append(deliveries, 0) /\ call' = [task |-> t, nonce |-> Len(wire')]
  BY DEF Send
<1>5. e.kind = kind /\ e.task = t  OBVIOUS
<1> HIDE DEF e
<1> QED BY <1>1, <1>2, <1>3, <1>4, <1>5

(* The client sends a launch or an undo, under a nonce of its own.         *)
LEMMA SendStep ==
  ASSUME DeviceInv, NEW t \in Tasks, LaunchNotepad(t) \/ RollbackCommand(t)
  PROVE  DeviceInv'
<1>1. PICK kind \in {"launch", "rollback"} :
        /\ Send(kind, t)
        /\ outcome[t] = IF kind = "launch" THEN "unsent" ELSE "completed"
  BY DEF LaunchNotepad, RollbackCommand
<1>2. /\ wire' \in Seq(Envelope) /\ Len(wire') = Len(wire) + 1
      /\ wire'[Len(wire')].kind = kind /\ wire'[Len(wire')].task = t
      /\ \A n \in Nonces : wire'[n] = wire[n] /\ admissions'[n] = admissions[n]
      /\ admissions' \in Seq(Nat) /\ Len(admissions') = Len(wire')
      /\ admissions'[Len(wire')] = 0
      /\ deliveries' \in Seq(0..MaxDeliveries) /\ Len(deliveries') = Len(wire')
      /\ Nonces \subseteq Nonces' /\ Nonces' = Nonces \cup {Len(wire')}
      /\ Len(wire') \notin Nonces
      /\ call' = [task |-> t, nonce |-> Len(wire')]
  BY <1>1, SendEffect DEF DeviceInv
<1>3. /\ call = Idle
      /\ UNCHANGED <<now, outcome, coreRestarts, handlers, seen, purgedAt, launched, processes,
                     nodeRestarts>>
  BY <1>1 DEF Send
<1> HIDE DEF Nonces
<1>4. TypeOK'
  <2>1. handlers' \subseteq Handler'  BY <1>2, <1>3 DEF DeviceInv, TypeOK, Handler
  <2>2. Len(wire') \in Nonces'  BY <1>2
  <2> QED BY <1>2, <1>3, <2>1, <2>2 DEF DeviceInv, TypeOK, Bound
<1>5. \A h \in handlers : h.nonce \in Nonces  BY HandlerType DEF DeviceInv
<1>6. nodeRestarts \in Nat  BY DEF DeviceInv, TypeOK
<1>7. NoncesSuffice' /\ AdmittedOnce'
  <2>1. \A n \in Nonces' : n \in Nonces \/ admissions'[n] = 0  BY <1>2
  <2>2. 0 # 1 + nodeRestarts /\ 0 <= 1 + nodeRestarts  BY <1>6
  <2>3. \A n \in Nonces : wire'[n] = wire[n] /\ admissions'[n] = admissions[n]  BY <1>2
  <2>4. AdmittedOnce'
    BY <1>3, <2>1, <2>2, <2>3 DEF DeviceInv, AdmittedOnce
  <2> QED BY <1>3, <1>5, <2>1, <2>2, <2>3, <2>4 DEF DeviceInv, NoncesSuffice
<1>8. NothingOutOfReach'
  BY <1>3 DEF DeviceInv, NothingOutOfReach, RunningOfThisLife, Running
<1>9. ASSUME Undisturbed'
      PROVE  ServedOnce' /\ OneAtATime' /\ EffectsKnown'
  <2>1. ServedOnce /\ OneAtATime /\ EffectsKnown
    BY <1>3, <1>9 DEF Undisturbed, DeviceInv
  <2>2. ServedOnce'  BY <1>2, <1>3, <1>5, <2>1 DEF ServedOnce
  <2>3. \A n \in Nonces : Spent(n) => Spent(n)'  BY <1>2, <1>3 DEF Spent
  <2>4. \A n \in Nonces : n # 0  BY EnvelopeType DEF DeviceInv
  <2>5. OneAtATime'
    <3>1. wire'[Len(wire')].kind = kind /\ wire'[Len(wire')].task = t /\ call'.nonce = Len(wire')
          /\ call'.task = t /\ \A n \in Nonces : wire'[n] = wire[n]
      BY <1>2
    <3>2. outcome'[call'.task] = IF wire'[call'.nonce].kind = "launch" THEN "unsent" ELSE "completed"
      BY <1>1, <1>3, <3>1
    <3>3. ASSUME NEW n \in Nonces
          PROVE  LET known == outcome'[wire'[n].task]
                 IN  /\ wire'[n].kind = "launch" /\ known # "failed" => Spent(n)'
                     /\ wire'[n].kind = "rollback" => known \in {"rolled_back", "failed"}
      BY <1>3, <2>1, <2>3, <2>4, <3>1 DEF OneAtATime
    <3> QED BY <1>2, <3>1, <3>2, <3>3 DEF OneAtATime
  <2>6. \A u : Replayed(u) => Replayed(u)'  BY <1>2 DEF Replayed
  <2>7. EffectsKnown'
    BY <1>2, <1>3, <2>1, <2>6 DEF EffectsKnown, Running, Bound
  <2> QED BY <2>2, <2>5, <2>7
<1> QED BY <1>4, <1>7, <1>8, <1>9 DEF DeviceInv

(* The client gives up a call: the task has failed.                        *)
LEMMA CallTimesOutStep ==
  ASSUME DeviceInv, CallTimesOut
  PROVE  DeviceInv'
<1> USE DEF DeviceInv, CallTimesOut, node, cache
<1>1. TypeOK'
  BY DEF TypeOK, Bound, Outcome, Handler
<1>2. NoncesSuffice' /\ AdmittedOnce' /\ NothingOutOfReach'
  BY DEF NoncesSuffice, AdmittedOnce, NothingOutOfReach, RunningOfThisLife, Running
<1>3. ASSUME Undisturbed'
      PROVE  ServedOnce' /\ OneAtATime' /\ EffectsKnown'
  <2>1. ServedOnce /\ OneAtATime /\ EffectsKnown  BY <1>3 DEF Undisturbed
  <2>2. call.nonce \in Nonces /\ call.task = wire[call.nonce].task /\ call.task \in Tasks
    BY DEF TypeOK
  <2>3. ServedOnce'  BY <2>1 DEF ServedOnce
  <2>4. OneAtATime'
    <3>1. /\ UNCHANGED <<wire, handlers, admissions>> /\ call' = Idle
          /\ outcome'[call.task] = "failed"
          /\ \A t \in Tasks \ {call.task} : outcome'[t] = outcome[t]
      BY <2>2 DEF TypeOK
    <3>2. \A n \in Nonces : wire[n].task \in Tasks  BY EnvelopeType
    <3>3. ASSUME NEW n \in Nonces
          PROVE  LET known == outcome'[wire[n].task]
                 IN  /\ wire[n].kind = "launch" /\ known # "failed" => Spent(n)
                     /\ wire[n].kind = "rollback" => known \in {"rolled_back", "failed"}
      <4>1. CASE wire[n].task = call.task  BY ONLY <3>1, <4>1
      <4>2. CASE wire[n].task # call.task
        <5>1. outcome'[wire[n].task] = outcome[wire[n].task]  BY <3>1, <3>2, <4>2
        <5>2. call.nonce # n  BY <2>2, <4>2
        <5> QED BY <2>1, <5>1, <5>2 DEF OneAtATime
      <4> QED BY <4>1, <4>2
    <3>4. \A n \in Nonces : Spent(n)' <=> Spent(n)  BY <3>1 DEF Spent
    <3> QED BY ONLY <3>1, <3>3, <3>4 DEF OneAtATime
  <2>5. EffectsKnown'
    <3>1. call' = Idle /\ outcome'[call.task] = "failed"
          /\ \A t \in Tasks \ {call.task} : outcome'[t] = outcome[t]
      BY <2>2 DEF TypeOK
    <3> QED BY <2>1, <3>1 DEF EffectsKnown, Running, Bound, Replayed
  <2> QED BY <2>3, <2>4, <2>5
<1> QED BY <1>1, <1>2, <1>3

(* A core that starts anew knows of no call and no outcome.                *)
LEMMA RestartCoreStep ==
  ASSUME DeviceInv, RestartCore
  PROVE  DeviceInv'
<1> USE DEF DeviceInv, RestartCore, node, cache
<1>1. TypeOK'  BY DEF TypeOK, Bound, Outcome, Handler
<1>2. NoncesSuffice' /\ AdmittedOnce' /\ NothingOutOfReach'
  BY DEF NoncesSuffice, AdmittedOnce, NothingOutOfReach, RunningOfThisLife, Running
<1>3. ~Undisturbed'  BY DEF TypeOK, Undisturbed
<1> QED BY <1>1, <1>2, <1>3

-----------------------------------------------------------------------------
(* The node: what its steps have in common.                                *)

(* A new process is the only new one that runs.                            *)
LEMMA ProcessStarts ==
  ASSUME TypeOK, NEW t \in Tasks, NEW running \in BOOLEAN, UNCHANGED nodeRestarts,
         processes' = Append(processes, [task |-> t, running |-> running, life |-> nodeRestarts])
  PROVE  /\ processes' \in Seq(Process)
         /\ \A p \in DOMAIN processes' : processes'[p].life <= nodeRestarts'
         /\ DOMAIN processes' = DOMAIN processes \cup {Len(processes')}
         /\ Len(processes') \in Nat \ {0}
         /\ \A p \in DOMAIN processes : processes'[p] = processes[p]
         /\ processes'[Len(processes')].task = t
         /\ \A u \in Tasks \ {t} : /\ Running(u)' = Running(u)
                                  /\ RunningOfThisLife(u)' = RunningOfThisLife(u)
         /\ RunningOfThisLife(t)' \subseteq RunningOfThisLife(t) \cup {Len(processes')}
<1> DEFINE P == [task |-> t, running |-> running, life |-> nodeRestarts]
<1>1. /\ processes \in Seq(Process) /\ nodeRestarts \in Nat
      /\ \A p \in DOMAIN processes : processes[p].life <= nodeRestarts
  BY DEF TypeOK
<1>2. P \in Process /\ P.task = t /\ P.life = nodeRestarts  BY <1>1 DEF Process
<1>3. processes' = Append(processes, P)  OBVIOUS
<1> HIDE DEF P
<1>4. /\ processes' \in Seq(Process)
      /\ DOMAIN processes' = DOMAIN processes \cup {Len(processes')}
      /\ Len(processes') \in Nat \ {0}
      /\ \A p \in DOMAIN processes : processes'[p] = processes[p]
      /\ processes'[Len(processes')] = P
  BY <1>1, <1>2, <1>3
<1>5. \A p \in DOMAIN processes' : processes'[p].life <= nodeRestarts'
  <2>1. nodeRestarts <= nodeRestarts  BY <1>1
  <2> QED BY <1>1, <1>2, <1>4, <2>1
<1>6. \A u \in Tasks \ {t} : Running(u)' = Running(u)  BY <1>2, <1>4 DEF Running
<1>7. Running(t)' \subseteq Running(t) \cup {Len(processes')}  BY <1>4 DEF Running
<1>8. \A p \in DOMAIN processes : processes'[p].life = processes[p].life  BY <1>4
<1>9. \A u \in Tasks \ {t} : RunningOfThisLife(u)' = RunningOfThisLife(u)
  BY <1>6, <1>8 DEF RunningOfThisLife, Running
<1>10. RunningOfThisLife(t)' \subseteq RunningOfThisLife(t) \cup {Len(processes')}
  BY <1>7, <1>8 DEF RunningOfThisLife, Running
<1> QED BY <1>2, <1>4, <1>5, <1>6, <1>9, <1>10

(* A process that ends is the only one that does.                          *)
LEMMA ProcessEnds ==
  ASSUME TypeOK, NEW p \in DOMAIN processes, UNCHANGED nodeRestarts,
         processes' = [processes EXCEPT ![p].running = FALSE]
  PROVE  /\ processes' \in Seq(Process)
         /\ \A q \in DOMAIN processes' : processes'[q].life <= nodeRestarts'
         /\ DOMAIN processes' = DOMAIN processes
         /\ \A q \in DOMAIN processes : processes'[q].task = processes[q].task
         /\ \A t \in Tasks : /\ Running(t)' = Running(t) \ {p}
                            /\ RunningOfThisLife(t)' = RunningOfThisLife(t) \ {p}
<1>1. /\ processes \in Seq(Process)
      /\ \A q \in DOMAIN processes : processes[q].life <= nodeRestarts
  BY DEF TypeOK
<1>2. processes[p] \in Process  BY <1>1, ElementType
<1> DEFINE P == [processes[p] EXCEPT !.running = FALSE]
<1>3. /\ P \in Process /\ P.task = processes[p].task /\ P.running = FALSE
      /\ P.life = processes[p].life
  BY <1>2 DEF Process
<1>4. processes' = [processes EXCEPT ![p] = P]  OBVIOUS
<1> HIDE DEF P
<1>5. /\ processes' \in Seq(Process)
      /\ DOMAIN processes' = DOMAIN processes
      /\ processes'[p] = P
      /\ \A q \in DOMAIN processes \ {p} : processes'[q] = processes[q]
  BY ONLY <1>1, <1>3, <1>4, ElementReplaced, Zenon, p \in DOMAIN processes
<1>6. \A q \in DOMAIN processes : /\ processes'[q].task = processes[q].task
                                 /\ processes'[q].life = processes[q].life
  BY <1>3, <1>5
<1>7. \A t \in Tasks : Running(t)' = Running(t) \ {p}
  BY <1>3, <1>5, <1>6 DEF Running
<1>8. \A t \in Tasks : RunningOfThisLife(t)' = RunningOfThisLife(t) \ {p}
  BY <1>6, <1>7 DEF RunningOfThisLife, Running
<1>9. \A q \in DOMAIN processes' : processes'[q].life <= nodeRestarts'
  BY <1>1, <1>5, <1>6
<1> QED BY <1>5, <1>6, <1>7, <1>8, <1>9

(* Until the node is restarted, all its processes are of its first life.   *)
LEMMA FirstLife ==
  ASSUME TypeOK, nodeRestarts = 0, NEW t \in Tasks
  PROVE  Running(t) = RunningOfThisLife(t)
<1> SUFFICES ASSUME NEW p \in Running(t) PROVE processes[p].life = 0
  BY DEF RunningOfThisLife
<1>1. p \in DOMAIN processes /\ processes \in Seq(Process) /\ processes[p].life <= 0
  BY DEF Running, TypeOK
<1>2. processes[p] \in Process  BY <1>1, ElementType
<1> QED BY <1>1, <1>2 DEF Process

(* A reply keeps what the core may conclude from the requests it sent: a   *)
(* launch is answered with anything but an error only once it is spent.    *)
LEMMA ReplyKeepsOrder ==
  ASSUME TypeOK, OneAtATime, NEW n \in Nonces, NEW copy, NEW reply, Reply(n, copy, reply),
         UNCHANGED wire,
         \A m \in Nonces : Spent(m) => Spent(m)',
         reply = "error" \/ Spent(n)',
         OutcomeOf(reply) = "completed" => wire[n].kind = "launch"
  PROVE  OneAtATime'
<1>1. CASE UNCHANGED <<call, outcome>>
  BY <1>1 DEF OneAtATime
<1>2. ASSUME call # Idle, call.nonce = n, call.task = wire[n].task, call' = Idle
      PROVE  /\ outcome[wire[n].task] \in {"unsent", "completed"}
             /\ \A m \in Nonces :
                  LET known == outcome[wire[m].task]
                  IN  /\ wire[m].kind = "launch" /\ known # "failed" => Spent(m)' \/ m = n
                      /\ wire[m].kind = "rollback" => known \in {"rolled_back", "failed"} \/ m = n
  BY <1>2 DEF OneAtATime
<1>3. CASE /\ call # Idle /\ call.nonce = n /\ call.task = wire[n].task
           /\ call' = Idle
           /\ OutcomeOf(reply) \in {"completed", "rolled_back", "failed"}
           /\ outcome' = [outcome EXCEPT ![wire[n].task] = OutcomeOf(reply)]
  <2> DEFINE t == wire[n].task
             o == OutcomeOf(reply)
  <2>1. t \in Tasks /\ outcome'[t] = o /\ \A u \in Tasks \ {t} : outcome'[u] = outcome[u]
    BY <1>3, EnvelopeType DEF TypeOK
  <2>2. o = "failed" \/ Spent(n)'  BY DEF OutcomeOf
  <2>3. ASSUME NEW m \in Nonces
        PROVE  LET known == outcome'[wire[m].task]
               IN  /\ wire[m].kind = "launch" /\ known # "failed" => Spent(m)'
                   /\ wire[m].kind = "rollback" => known \in {"rolled_back", "failed"}
    <3>1. wire[m].task \in Tasks /\ wire[n].kind \in {"launch", "rollback"}  BY EnvelopeType
    <3>2. CASE m = n
      BY <1>3, <2>1, <2>2, <3>1, <3>2
    <3>3. CASE m # n /\ wire[m].task = t
      <4>1. outcome[wire[m].task] \in {"unsent", "completed"}  BY <1>2, <1>3, <3>3
      <4> QED BY <1>2, <1>3, <3>3, <4>1
    <3>4. CASE m # n /\ wire[m].task # t
      BY <1>2, <1>3, <2>1, <3>1, <3>4
    <3> QED BY <3>2, <3>3, <3>4
  <2> HIDE DEF t, o
  <2> QED BY <1>3, <2>3 DEF OneAtATime
<1>4. CASE /\ call # Idle /\ call.nonce = n /\ call.task = wire[n].task
           /\ call' = Idle
           /\ wire[n].kind = "launch" /\ reply # "error" /\ UNCHANGED outcome
  BY <1>2, <1>4 DEF OneAtATime
<1> QED BY <1>1, <1>3, <1>4, ReplyEffect

(* A reply that leaves the node's processes alone keeps what the core      *)
(* knows true.                                                             *)
LEMMA ReplyKeepsEffects ==
  ASSUME TypeOK, OneAtATime, EffectsKnown,
         NEW n \in Nonces, NEW copy, NEW reply, Reply(n, copy, reply),
         UNCHANGED <<wire, admissions, launched, processes>>,
         \/ OutcomeOf(reply) = "failed"
         \/ OutcomeOf(reply) = "completed" /\ Bound(wire[n].task)
  PROVE  EffectsKnown'
<1> DEFINE Undone(t) == Running(t) = {} \/ Replayed(t)
<1>1. \A t \in Tasks : Undone(t)' = Undone(t)
  BY DEF Undone, Running, Replayed
<1>2. \A t \in Tasks : Bound(t)' = Bound(t)
  BY DEF Bound
<1>3. \A t \in Tasks :
        /\ outcome[t] = "rolled_back" => Undone(t)
        /\ outcome[t] = "completed" /\ ~(call # Idle /\ call.task = t) => Bound(t)
  BY DEF EffectsKnown, Undone
<1>4. SUFFICES ASSUME NEW t \in Tasks
               PROVE  /\ outcome'[t] = "rolled_back" => Undone(t)'
                      /\ outcome'[t] = "completed" /\ ~(call' # Idle /\ call'.task = t) => Bound(t)'
  BY DEF EffectsKnown, Undone
<1> HIDE DEF Undone
<1>5. CASE UNCHANGED <<call, outcome>>
  BY <1>1, <1>2, <1>3, <1>5
<1>6. CASE /\ call # Idle /\ call.nonce = n /\ call.task = wire[n].task
           /\ call' = Idle
           /\ OutcomeOf(reply) \in {"completed", "rolled_back", "failed"}
           /\ outcome' = [outcome EXCEPT ![wire[n].task] = OutcomeOf(reply)]
  <2>1. CASE t = wire[n].task
    <3>1. outcome'[t] = OutcomeOf(reply)  BY <1>6, <2>1 DEF TypeOK
    <3> QED BY <1>2, <2>1, <3>1
  <2>2. CASE t # wire[n].task
    <3>1. outcome'[t] = outcome[t]  BY <1>6, <2>2 DEF TypeOK
    <3> QED BY <1>1, <1>2, <1>3, <1>6, <2>2, <3>1
  <2> QED BY <2>1, <2>2
<1>7. CASE /\ call # Idle /\ call.nonce = n /\ call.task = wire[n].task
           /\ call' = Idle
           /\ wire[n].kind = "launch" /\ UNCHANGED outcome
  <2>1. outcome[call.task] = "unsent"  BY <1>7 DEF OneAtATime
  <2> QED BY <1>1, <1>2, <1>3, <1>7, <2>1
<1> QED BY <1>5, <1>6, <1>7, ReplyEffect

(* The latest reading the cache was purged with.                           *)
LEMMA PurgeEffect ==
  ASSUME TypeOK, NEW time \in Nat, Purge(time)
  PROVE  purgedAt' \in Nat /\ purgedAt <= purgedAt' /\ time <= purgedAt'
  BY DEF Purge, TypeOK

(* A purge leaves what is not out of time at its reading of the clock.     *)
LEMMA PurgeKeeps ==
  ASSUME TypeOK, NEW time \in Nat, Purge(time), NEW n \in Nonces, purgedAt' < wire[n].expiresAt
  PROVE  purgedAt < wire[n].expiresAt /\ (n \in seen => n \in Remaining(time))
<1>1. purgedAt' \in Nat /\ purgedAt \in Nat /\ purgedAt <= purgedAt' /\ time <= purgedAt'
  BY PurgeEffect DEF TypeOK
<1>2. PICK e \in Nat : e = wire[n].expiresAt  BY EnvelopeType
<1>3. time \in Nat /\ purgedAt' < e  BY <1>2
<1>4. purgedAt < e /\ e > time  BY ONLY <1>1, <1>2, <1>3
<1> QED BY <1>2, <1>4 DEF Remaining

(* What a step keeps that lets a request go unadmitted and changes nothing *)
(* but the handlers and, perhaps, how far the nonces are purged.           *)
LEMMA NoncesKept ==
  ASSUME TypeOK, NoncesSuffice, AdmittedOnce, handlers' \subseteq handlers,
         UNCHANGED <<wire, admissions, nodeRestarts>>, NEW time \in Nat,
         \/ UNCHANGED <<seen, purgedAt>>
         \/ seen' = Remaining(time) /\ Purge(time)
  PROVE  NoncesSuffice' /\ AdmittedOnce'
<1>1. ASSUME NEW n \in Nonces, purgedAt' < wire[n].expiresAt
      PROVE  purgedAt < wire[n].expiresAt /\ (n \in seen => n \in seen')
  BY <1>1, PurgeKeeps
<1>2. AdmittedOnce'  BY <1>1 DEF AdmittedOnce
<1>3. NoncesSuffice'
  <2>1. \A h \in handlers' : h.at = "checked" => h.checkedAt < wire'[h.nonce].expiresAt
    BY DEF NoncesSuffice
  <2> QED BY <1>1, <2>1 DEF NoncesSuffice
<1> QED BY <1>2, <1>3

(* What Finish leaves of the invariant to the step it belongs to.          *)
LEMMA FinishKeeps ==
  ASSUME DeviceInv, NEW h \in handlers, h.at = "admitted", NEW reply, Finish(h, reply),
         processes' \in Seq(Process),
         \A p \in DOMAIN processes' : processes'[p].life <= nodeRestarts',
         launched' \in [Tasks -> Nat],
         \A t \in Tasks : Bound(t)' => /\ launched'[t] \in DOMAIN processes'
                                        /\ processes'[launched'[t]].task = t,
         OutcomeOf(reply) = "completed" => wire[h.nonce].kind = "launch"
  PROVE  /\ TypeOK' /\ NoncesSuffice' /\ AdmittedOnce'
         /\ Undisturbed' => ServedOnce' /\ OneAtATime'
<1> USE DEF Finish, cache
<1>0. TypeOK  BY DEF DeviceInv
<1>1. h.nonce \in Nonces  BY <1>0, HandlerType
<1>2. (call' = call \/ call' = Idle) /\ outcome' \in [Tasks -> Outcome]
  BY <1>0, <1>1, ReplyType
<1>3. TypeOK'
  <2>1. handlers' \subseteq Handler'  BY <1>0 DEF TypeOK, Handler
  <2> QED BY <1>0, <1>2, <2>1 DEF TypeOK
<1>4. NoncesSuffice' /\ AdmittedOnce'
  <2>1. 0 \in Nat /\ UNCHANGED <<seen, purgedAt, wire, admissions, nodeRestarts>>  OBVIOUS
  <2> QED BY <1>0, <2>1, NoncesKept DEF DeviceInv
<1>5. ASSUME Undisturbed'
      PROVE  ServedOnce' /\ OneAtATime'
  <2>1. ServedOnce /\ OneAtATime  BY <1>5 DEF DeviceInv, Undisturbed
  <2>2. ServedOnce'  BY <2>1 DEF ServedOnce
  <2>3. Spent(h.nonce)'
    <3>1. admissions[h.nonce] \in Nat /\ admissions[h.nonce] >= 1
      BY <1>0, <1>1, <2>1, EnvelopeType DEF ServedOnce
    <3>2. admissions[h.nonce] > 1 \/ admissions[h.nonce] = 1  BY <3>1
    <3>3. admissions[h.nonce] = 1 =>
            \A g \in handlers' : ~(g.at = "admitted" /\ g.nonce = h.nonce)
      BY <2>1 DEF ServedOnce
    <3> QED BY <3>2, <3>3 DEF Spent
  <2>4. \A m \in Nonces : Spent(m) => Spent(m)'  BY DEF Spent
  <2>5. Reply(h.nonce, h.copy, reply) /\ UNCHANGED wire  OBVIOUS
  <2>6. OneAtATime'  BY <1>0, <1>1, <2>1, <2>3, <2>4, <2>5, ReplyKeepsOrder
  <2> QED BY <2>2, <2>6
<1> QED BY <1>3, <1>4, <1>5

-----------------------------------------------------------------------------
(* The node's steps.                                                       *)

(* A copy of a request arrives in time, and a handler takes it on.         *)
LEMMA ReceiveStep ==
  ASSUME DeviceInv, NEW n \in Nonces, Receive(n)
  PROVE  DeviceInv'
<1> DEFINE h == [nonce |-> n, copy |-> deliveries'[n], at |-> "checked", checkedAt |-> now]
<1> USE DEF DeviceInv
<1>1. /\ handlers' = handlers \cup {h}
      /\ deliveries' = [deliveries EXCEPT ![n] = @ + 1]
      /\ deliveries[n] < MaxDeliveries /\ now < wire[n].expiresAt
      /\ UNCHANGED <<now, core, seen, admissions, purgedAt, launched, processes, nodeRestarts>>
  BY DEF Receive, Fresh, cache
<1>2. deliveries[n] \in 0..MaxDeliveries  BY EnvelopeType
<1>3. deliveries[n] + 1 \in 0..MaxDeliveries /\ deliveries[n] + 1 \in 1..MaxDeliveries
  BY <1>1, <1>2, DeviceAssumption
<1>4. /\ deliveries \in Seq(0..MaxDeliveries) /\ n \in DOMAIN deliveries
      /\ deliveries' = [deliveries EXCEPT ![n] = deliveries[n] + 1]
  BY <1>1 DEF TypeOK
<1>5. /\ deliveries' \in Seq(0..MaxDeliveries) /\ Len(deliveries') = Len(deliveries)
      /\ deliveries'[n] \in 1..MaxDeliveries
  <2> DEFINE S == 0..MaxDeliveries
             d == deliveries[n] + 1
  <2>1. deliveries \in Seq(S) /\ n \in DOMAIN deliveries /\ d \in S  BY <1>3, <1>4
  <2>2. deliveries' = [deliveries EXCEPT ![n] = d]  BY <1>4
  <2> HIDE DEF S, d
  <2>3. deliveries' \in Seq(S) /\ Len(deliveries') = Len(deliveries) /\ deliveries'[n] = d
    BY ONLY <2>1, <2>2, ElementReplaced
  <2> QED BY <1>3, <2>3 DEF S, d
<1>6. h \in Handler  BY <1>5 DEF Handler, TypeOK
<1>7. h.nonce = n /\ h.at = "checked" /\ h.checkedAt = now  OBVIOUS
<1> HIDE DEF h
<1>8. TypeOK'
  <2>1. handlers' \subseteq Handler'  BY <1>1, <1>6 DEF TypeOK, Handler, core
  <2> QED BY <1>1, <1>5, <2>1 DEF TypeOK, core, Bound
<1>9. NoncesSuffice' /\ AdmittedOnce' /\ NothingOutOfReach'
  BY <1>1, <1>7 DEF NoncesSuffice, AdmittedOnce, NothingOutOfReach, RunningOfThisLife, Running,
                    core
<1>10. ASSUME Undisturbed'
       PROVE  ServedOnce' /\ OneAtATime' /\ EffectsKnown'
  <2>1. ServedOnce /\ OneAtATime /\ EffectsKnown  BY <1>1, <1>10 DEF Undisturbed, core
  <2>2. ServedOnce'  BY <1>1, <1>7, <2>1 DEF ServedOnce
  <2>3. \A m : Spent(m) => Spent(m)'  BY <1>1, <1>7 DEF Spent
  <2>4. OneAtATime'  BY <1>1, <2>1, <2>3 DEF OneAtATime, core
  <2>5. EffectsKnown'  BY <1>1, <2>1 DEF EffectsKnown, Running, Bound, Replayed, core
  <2> QED BY <2>2, <2>4, <2>5
<1> QED BY <1>8, <1>9, <1>10

(* A copy arrives out of time and is answered with an error.               *)
LEMMA ReceiveExpiredStep ==
  ASSUME DeviceInv, NEW n \in Nonces, ReceiveExpired(n)
  PROVE  DeviceInv'
<1> USE DEF DeviceInv, cache
<1>1. /\ Reply(n, deliveries'[n], "error")
      /\ deliveries' = [deliveries EXCEPT ![n] = @ + 1]
      /\ deliveries[n] < MaxDeliveries
      /\ UNCHANGED <<now, wire, coreRestarts, node>>
  BY DEF ReceiveExpired
<1>2. deliveries[n] \in 0..MaxDeliveries  BY EnvelopeType
<1>3. deliveries[n] + 1 \in 0..MaxDeliveries  BY <1>1, <1>2, DeviceAssumption
<1>4. deliveries \in Seq(0..MaxDeliveries) /\ n \in DOMAIN deliveries
  BY DEF TypeOK
<1>5. deliveries' \in Seq(0..MaxDeliveries) /\ Len(deliveries') = Len(deliveries)
  <2> DEFINE S == 0..MaxDeliveries
             d == deliveries[n] + 1
  <2>1. deliveries \in Seq(S) /\ n \in DOMAIN deliveries /\ d \in S  BY <1>3, <1>4
  <2>2. deliveries' = [deliveries EXCEPT ![n] = d]  BY <1>1
  <2> HIDE DEF S, d
  <2>3. deliveries' \in Seq(S) /\ Len(deliveries') = Len(deliveries)
    BY ONLY <2>1, <2>2, ElementReplaced
  <2> QED BY <2>3 DEF S
<1>6. (call' = call \/ call' = Idle) /\ outcome' \in [Tasks -> Outcome]
  BY <1>1, ReplyType
<1>7. TypeOK'
  <2>1. handlers' \subseteq Handler'  BY <1>1 DEF TypeOK, Handler, node
  <2> QED BY <1>1, <1>5, <1>6, <2>1 DEF TypeOK, Bound, node
<1>8. NoncesSuffice' /\ AdmittedOnce' /\ NothingOutOfReach'
  BY <1>1 DEF NoncesSuffice, AdmittedOnce, NothingOutOfReach, RunningOfThisLife, Running, node
<1>9. ASSUME Undisturbed'
      PROVE  ServedOnce' /\ OneAtATime' /\ EffectsKnown'
  <2>1. ServedOnce /\ OneAtATime /\ EffectsKnown  BY <1>1, <1>9 DEF Undisturbed, node
  <2>2. ServedOnce'  BY <1>1, <2>1 DEF ServedOnce, node
  <2>3. \A m \in Nonces : Spent(m) => Spent(m)'  BY <1>1 DEF Spent, node
  <2>4. OutcomeOf("error") = "failed"  BY DEF OutcomeOf
  <2>5. OneAtATime'  BY <1>1, <2>1, <2>3, <2>4, ReplyKeepsOrder
  <2>6. EffectsKnown'  BY <1>1, <2>1, <2>4, ReplyKeepsEffects DEF node
  <2> QED BY <2>2, <2>5, <2>6
<1> QED BY <1>7, <1>8, <1>9

(* What the cache still holds of a request is enough.                      *)
LEMMA AdmitStep ==
  ASSUME DeviceInv, NEW h \in handlers, Admit(h)
  PROVE  DeviceInv'
<1> DEFINE n == h.nonce
           g == [h EXCEPT !.at = "admitted"]
           time == h.checkedAt
<1> USE DEF DeviceInv
<1>1. /\ h.at = "checked" /\ n \notin Remaining(time) /\ Purge(time)
      /\ seen' = Remaining(time) \cup {n}
      /\ admissions' = [admissions EXCEPT ![n] = @ + 1]
      /\ handlers' = (handlers \ {h}) \cup {g}
      /\ UNCHANGED <<now, deliveries, core, launched, processes, nodeRestarts>>
  BY DEF Admit
<1>2. n \in Nonces /\ h \in Handler  BY HandlerType
<1>3. g.nonce = n /\ g.at = "admitted" /\ g \in Handler  BY <1>2 DEF Handler
<1> HIDE DEF g
<1>4. time < wire[n].expiresAt  BY <1>1 DEF NoncesSuffice
<1>5. admissions[n] \in Nat /\ nodeRestarts \in Nat /\ time \in Nat /\ wire[n].expiresAt \in Nat
  <2>1. h.checkedAt \in 0..MaxTime  BY <1>2 DEF Handler
  <2>2. h.checkedAt \in Nat  BY <2>1, DeviceAssumption
  <2>3. n \in DOMAIN admissions /\ admissions \in Seq(Nat)  BY <1>2 DEF TypeOK
  <2> QED BY <1>2, <2>2, <2>3, EnvelopeType, ElementType DEF TypeOK
<1> HIDE DEF time
<1>12. purgedAt' \in Nat  BY <1>1, <1>5, PurgeEffect
<1>6. purgedAt' < wire[n].expiresAt => admissions[n] < 1 + nodeRestarts
  <2> SUFFICES ASSUME purgedAt' < wire[n].expiresAt
               PROVE  admissions[n] < 1 + nodeRestarts
    OBVIOUS
  <2>1. purgedAt < wire[n].expiresAt /\ n \notin seen
    BY <1>1, <1>2, <1>5, PurgeKeeps
  <2>2. admissions[n] # 1 + nodeRestarts
    BY <1>2, <2>1 DEF NoncesSuffice
  <2> QED BY <1>2, <1>5, <2>1, <2>2 DEF AdmittedOnce
<1>7. /\ admissions' \in Seq(Nat) /\ Len(admissions') = Len(admissions)
      /\ admissions'[n] = admissions[n] + 1
      /\ \A m \in Nonces \ {n} : admissions'[m] = admissions[m]
  <2>1. admissions \in Seq(Nat) /\ n \in DOMAIN admissions /\ DOMAIN admissions = Nonces
    BY <1>2 DEF TypeOK
  <2> QED BY <1>1, <1>5, <2>1
<1>8. TypeOK'
  <2>1. handlers' \subseteq Handler'  BY <1>1, <1>3 DEF TypeOK, Handler, core
  <2>2. seen' \subseteq Nonces  BY <1>1, <1>2 DEF TypeOK, Remaining
  <2> QED BY <1>1, <1>7, <1>12, <2>1, <2>2 DEF TypeOK, Bound, core
<1>9. NoncesSuffice' /\ AdmittedOnce' /\ NothingOutOfReach'
  <2>0. wire' = wire /\ nodeRestarts' = nodeRestarts  BY <1>1 DEF core
  <2>1. \A m \in Nonces : purgedAt' < wire[m].expiresAt => admissions'[m] <= 1 + nodeRestarts
    <3> SUFFICES ASSUME NEW m \in Nonces, purgedAt' < wire[m].expiresAt
                 PROVE  admissions'[m] <= 1 + nodeRestarts
      OBVIOUS
    <3>1. CASE m = n
      <4>1. admissions[n] < 1 + nodeRestarts  BY <1>6, <3>1
      <4>2. admissions'[n] <= 1 + nodeRestarts  BY ONLY <1>5, <1>7, <4>1
      <4> QED BY <3>1, <4>2
    <3>2. CASE m # n
      <4>1. purgedAt < wire[m].expiresAt  BY <1>1, <1>5, PurgeKeeps
      <4> QED BY <1>7, <3>2, <4>1 DEF AdmittedOnce
    <3> QED BY <3>1, <3>2
  <2>2. \A m \in Nonces :
          purgedAt' < wire[m].expiresAt /\ admissions'[m] = 1 + nodeRestarts => m \in seen'
    <3> SUFFICES ASSUME NEW m \in Nonces, purgedAt' < wire[m].expiresAt,
                        admissions'[m] = 1 + nodeRestarts, m # n
                 PROVE  m \in Remaining(time)
      BY <1>1
    <3>1. purgedAt < wire[m].expiresAt /\ (m \in seen => m \in Remaining(time))
      BY <1>1, <1>5, PurgeKeeps
    <3> QED BY <1>7, <3>1 DEF NoncesSuffice
  <2>3. \A k \in handlers' : k.at = "checked" => k \in handlers  BY <1>1, <1>3
  <2>4. NoncesSuffice'  BY <2>0, <2>2, <2>3 DEF NoncesSuffice
  <2>5. AdmittedOnce'  BY <2>0, <2>1 DEF AdmittedOnce
  <2>6. NothingOutOfReach'  BY <1>1 DEF NothingOutOfReach, RunningOfThisLife, Running, core
  <2> QED BY <2>4, <2>5, <2>6
<1>10. ASSUME Undisturbed'
       PROVE  ServedOnce' /\ OneAtATime' /\ EffectsKnown'
  <2>1. ServedOnce /\ OneAtATime /\ EffectsKnown
    BY <1>1, <1>10 DEF Undisturbed, core
  <2>2. \A m \in Nonces : /\ admissions[m] \in Nat /\ admissions'[m] \in Nat
                         /\ admissions[m] <= admissions'[m]
    <3>0. \A m \in Nonces : admissions[m] \in Nat  BY EnvelopeType
    <3> SUFFICES ASSUME NEW m \in Nonces
                 PROVE  /\ admissions[m] \in Nat /\ admissions'[m] \in Nat
                        /\ admissions[m] <= admissions'[m]
      OBVIOUS
    <3>1. CASE m = n  BY <1>5, <1>7, <3>0, <3>1
    <3>2. CASE m # n  BY <1>5, <1>7, <3>0, <3>2
    <3> QED BY <3>1, <3>2
  <2>3. \A k \in handlers : k.nonce \in Nonces  BY HandlerType
  <2>4. admissions'[n] >= 1 /\ (admissions[n] >= 1 => admissions'[n] > 1)  BY <1>5, <1>7
  <2>5. \A k \in handlers' : k = g \/ k \in handlers  BY <1>1
  <2>6. ServedOnce'
    <3>1. ASSUME NEW k \in handlers', k.at = "admitted"
          PROVE  admissions'[k.nonce] >= 1
      <4>1. CASE k = g  BY <1>3, <2>4, <4>1
      <4>2. CASE k \in handlers
        <5>1. admissions[k.nonce] >= 1 /\ k.nonce \in Nonces
          BY <2>1, <2>3, <3>1, <4>2 DEF ServedOnce
        <5> QED BY ONLY <2>2, <5>1
      <4> QED BY <2>5, <4>1, <4>2
    <3>2. ASSUME NEW k \in handlers', k.at = "admitted",
                 NEW j \in handlers', j.at = "admitted", j.nonce = k.nonce, j # k
          PROVE  admissions'[k.nonce] > 1
      <4>1. CASE k = g \/ j = g
        <5>1. PICK i \in handlers : i.at = "admitted" /\ i.nonce = n
          BY <1>3, <2>5, <3>2, <4>1
        <5>2. admissions[n] >= 1  BY <2>1, <5>1 DEF ServedOnce
        <5>3. k.nonce = n  BY <1>3, <3>2, <4>1
        <5> QED BY <2>4, <5>2, <5>3
      <4>2. CASE k \in handlers /\ j \in handlers
        <5>1. admissions[k.nonce] > 1 /\ k.nonce \in Nonces
          BY <2>1, <2>3, <3>2, <4>2 DEF ServedOnce
        <5> QED BY ONLY <2>2, <5>1
      <4> QED BY <2>5, <4>1, <4>2
    <3> QED BY <3>1, <3>2 DEF ServedOnce
  <2>7. \A m \in Nonces : Spent(m) => Spent(m)'
    <3> SUFFICES ASSUME NEW m \in Nonces, Spent(m) PROVE Spent(m)'
      OBVIOUS
    <3>1. CASE m = n
      <4>1. admissions[n] >= 1  BY <1>5, <3>1 DEF Spent
      <4> QED BY <2>4, <3>1, <4>1 DEF Spent
    <3>2. CASE m # n
      BY <1>3, <1>7, <2>5, <3>2 DEF Spent
    <3> QED BY <3>1, <3>2
  <2>8. OneAtATime'  BY <1>1, <2>1, <2>7 DEF OneAtATime, core
  <2>9. ASSUME NEW t, Replayed(t) PROVE Replayed(t)'
    <3>1. PICK m \in Nonces : wire[m].kind = "launch" /\ wire[m].task = t /\ admissions[m] > 1
      BY <2>9 DEF Replayed
    <3>2. admissions'[m] > 1  BY ONLY <2>2, <3>1
    <3> QED BY <1>1, <3>1, <3>2 DEF Replayed, core
  <2>10. EffectsKnown'
    <3>1. \A t \in Tasks : Running(t)' = Running(t) /\ (Bound(t)' <=> Bound(t))
                          /\ outcome' = outcome /\ call' = call
      BY <1>1 DEF Running, Bound, core
    <3> QED BY <2>1, <2>9, <3>1 DEF EffectsKnown
  <2> QED BY <2>6, <2>8, <2>10
<1> QED BY <1>8, <1>9, <1>10

(* A handler finds the nonce remembered.                                   *)
LEMMA RefuseReplayStep ==
  ASSUME DeviceInv, NEW h \in handlers, RefuseReplay(h)
  PROVE  DeviceInv'
<1> USE DEF DeviceInv
<1>1. /\ h.at = "checked" /\ seen' = Remaining(h.checkedAt) /\ Purge(h.checkedAt)
      /\ handlers' = handlers \ {h} /\ Reply(h.nonce, h.copy, "error")
      /\ UNCHANGED <<now, wire, deliveries, coreRestarts,
                     admissions, launched, processes, nodeRestarts>>
  BY DEF RefuseReplay
<1>2. h.nonce \in Nonces /\ h.checkedAt \in Nat
  BY <1>1, HandlerType, DeviceAssumption DEF Handler
<1>8. purgedAt' \in Nat  BY <1>1, <1>2, PurgeEffect
<1>3. (call' = call \/ call' = Idle) /\ outcome' \in [Tasks -> Outcome]
  BY <1>1, <1>2, ReplyType
<1>4. TypeOK'
  <2>1. handlers' \subseteq Handler'  BY <1>1 DEF TypeOK, Handler
  <2>2. seen' \subseteq Nonces  BY <1>1 DEF TypeOK, Remaining
  <2> QED BY <1>1, <1>3, <1>8, <2>1, <2>2 DEF TypeOK, Bound
<1>5. NoncesSuffice' /\ AdmittedOnce'  BY <1>1, <1>2, NoncesKept
<1>6. NothingOutOfReach'  BY <1>1 DEF NothingOutOfReach, RunningOfThisLife, Running
<1>7. ASSUME Undisturbed'
      PROVE  ServedOnce' /\ OneAtATime' /\ EffectsKnown'
  <2>1. ServedOnce /\ OneAtATime /\ EffectsKnown  BY <1>1, <1>7 DEF Undisturbed
  <2>2. ServedOnce'  BY <1>1, <2>1 DEF ServedOnce
  <2>3. \A m \in Nonces : Spent(m) => Spent(m)'  BY <1>1 DEF Spent
  <2>4. OutcomeOf("error") = "failed"  BY DEF OutcomeOf
  <2>5. OneAtATime'  BY <1>1, <1>2, <2>1, <2>3, <2>4, ReplyKeepsOrder
  <2>6. EffectsKnown'  BY <1>1, <1>2, <2>1, <2>4, ReplyKeepsEffects
  <2> QED BY <2>2, <2>5, <2>6
<1> QED BY <1>4, <1>5, <1>6, <1>7

(* The executor answers and leaves its processes alone.                    *)
LEMMA AnswerStep ==
  ASSUME DeviceInv, NEW h \in handlers,
         \/ LaunchFails(h) \/ LaunchKnown(h) \/ RollbackUnknown(h) \/ RollbackStuck(h)
  PROVE  DeviceInv'
<1> USE DEF DeviceInv
<1>1. PICK reply :
        /\ h.at = "admitted" /\ Finish(h, reply) /\ UNCHANGED <<launched, processes>>
        /\ \/ OutcomeOf(reply) = "failed"
           \/ /\ OutcomeOf(reply) = "completed" /\ Bound(TaskOf(h))
              /\ wire[h.nonce].kind = "launch"
  BY DEF LaunchFails, LaunchKnown, RollbackUnknown, RollbackStuck, Serves, OutcomeOf
<1>2. h.nonce \in Nonces  BY HandlerType
<1>3. OutcomeOf(reply) = "completed" => wire[h.nonce].kind = "launch"  BY <1>1
<1>4. /\ processes' \in Seq(Process)
      /\ \A p \in DOMAIN processes' : processes'[p].life <= nodeRestarts'
      /\ launched' \in [Tasks -> Nat]
      /\ \A t \in Tasks : Bound(t)' => /\ launched'[t] \in DOMAIN processes'
                                        /\ processes'[launched'[t]].task = t
  BY <1>1 DEF TypeOK, Bound, Finish
<1>5. TypeOK' /\ NoncesSuffice' /\ AdmittedOnce' /\ (Undisturbed' => ServedOnce' /\ OneAtATime')
  BY <1>1, <1>3, <1>4, FinishKeeps
<1>6. NothingOutOfReach'
  BY <1>1 DEF NothingOutOfReach, RunningOfThisLife, Running, Finish
<1>7. Undisturbed' => EffectsKnown'
  <2>1. Reply(h.nonce, h.copy, reply)  BY <1>1 DEF Finish
  <2>2. Undisturbed' => Undisturbed  BY <1>1 DEF Finish, Undisturbed
  <2>3. UNCHANGED <<wire, admissions>>  BY <1>1 DEF Finish, cache
  <2> QED BY <1>1, <1>2, <2>1, <2>2, <2>3, ReplyKeepsEffects DEF TaskOf
<1> QED BY <1>5, <1>6, <1>7

(* The task has no process yet, since it is not bound to one.              *)
LEMMA LaunchNewStep ==
  ASSUME DeviceInv, NEW h \in handlers, LaunchNew(h)
  PROVE  DeviceInv'
<1> USE DEF DeviceInv
<1>0. PICK t \in Tasks : t = TaskOf(h)  BY HandlerType, EnvelopeType DEF TaskOf
<1>1. PICK running \in BOOLEAN, reply \in {"running", "notRunning"} :
        /\ h.at = "admitted" /\ wire[h.nonce].kind = "launch" /\ ~Bound(t)
        /\ processes' = Append(processes,
                               [task |-> t, running |-> running, life |-> nodeRestarts])
        /\ Finish(h, reply) /\ OutcomeOf(reply) \in {"completed", "failed"}
        /\ launched' = [launched EXCEPT ![t] = Len(processes')]
  BY <1>0 DEF LaunchNew, Serves, OutcomeOf, Started
<1>2. h.nonce \in Nonces  BY HandlerType
<1>3. /\ processes' \in Seq(Process)
      /\ \A p \in DOMAIN processes' : processes'[p].life <= nodeRestarts'
      /\ DOMAIN processes' = DOMAIN processes \cup {Len(processes')}
      /\ Len(processes') \in Nat \ {0}
      /\ \A p \in DOMAIN processes : processes'[p] = processes[p]
      /\ processes'[Len(processes')].task = t
      /\ \A u \in Tasks \ {t} : /\ Running(u)' = Running(u)
                               /\ RunningOfThisLife(u)' = RunningOfThisLife(u)
      /\ RunningOfThisLife(t)' \subseteq RunningOfThisLife(t) \cup {Len(processes')}
  BY <1>1, <1>2, ProcessStarts DEF Finish
<1>4. /\ launched' \in [Tasks -> Nat] /\ launched'[t] = Len(processes')
      /\ \A u \in Tasks \ {t} : launched'[u] = launched[u]
  BY <1>1, <1>2, <1>3 DEF TypeOK
<1>5. \A u \in Tasks : Bound(u)' => /\ launched'[u] \in DOMAIN processes'
                                    /\ processes'[launched'[u]].task = u
  <2> SUFFICES ASSUME NEW u \in Tasks, Bound(u)'
               PROVE  /\ launched'[u] \in DOMAIN processes'
                      /\ processes'[launched'[u]].task = u
    OBVIOUS
  <2>1. CASE u = t
    BY ONLY <1>3, <1>4, <2>1
  <2>2. CASE u # t
    <3>1. launched'[u] = launched[u]  BY <1>4, <2>2
    <3>2. Bound(u)  BY <3>1 DEF Bound
    <3>3. launched[u] \in DOMAIN processes /\ processes[launched[u]].task = u
      BY <3>2 DEF TypeOK
    <3> QED BY ONLY <1>3, <3>1, <3>3
  <2> QED BY <2>1, <2>2
<1>6. TypeOK' /\ NoncesSuffice' /\ AdmittedOnce' /\ (Undisturbed' => ServedOnce' /\ OneAtATime')
  BY <1>1, <1>3, <1>4, <1>5, FinishKeeps
<1>7. UNCHANGED <<wire, admissions, coreRestarts, nodeRestarts>> /\ Reply(h.nonce, h.copy, reply)
  BY <1>1 DEF Finish, cache
<1>8. NothingOutOfReach'
  <2> SUFFICES \A u \in Tasks : RunningOfThisLife(u)' \subseteq {launched'[u]}
    BY DEF NothingOutOfReach
  <2>1. RunningOfThisLife(t) = {}
    <3>1. RunningOfThisLife(t) \subseteq {launched[t]}  BY <1>2 DEF NothingOutOfReach
    <3>2. launched[t] \notin DOMAIN processes  BY <1>1 DEF Bound, TypeOK
    <3> QED BY <3>1, <3>2 DEF RunningOfThisLife, Running
  <2>2. RunningOfThisLife(t)' \subseteq {launched'[t]}  BY ONLY <1>3, <1>4, <2>1
  <2>3. \A u \in Tasks : RunningOfThisLife(u) \subseteq {launched[u]}
    BY DEF NothingOutOfReach
  <2>4. ASSUME NEW u \in Tasks \ {t} PROVE RunningOfThisLife(u)' \subseteq {launched'[u]}
    <3>1. RunningOfThisLife(u)' = RunningOfThisLife(u) /\ launched'[u] = launched[u]
      BY <1>3, <1>4
    <3> QED BY <2>3, <3>1
  <2> QED BY ONLY <2>2, <2>4
<1>9. ASSUME Undisturbed'
      PROVE  EffectsKnown'
  <2>1. ServedOnce /\ OneAtATime /\ EffectsKnown  BY <1>7, <1>9 DEF Undisturbed
  <2>2. Bound(t)' /\ \A u \in Tasks \ {t} : Bound(u)' <=> Bound(u)
    BY <1>3, <1>4 DEF Bound
  <2>3. outcome[t] = "rolled_back" => Replayed(t)'
    <3> SUFFICES ASSUME outcome[t] = "rolled_back" PROVE admissions[h.nonce] > 1
      BY <1>0, <1>1, <1>2, <1>7 DEF Replayed, TaskOf
    <3>1. call.nonce # h.nonce
      <4>1. call = Idle => call.nonce = 0 /\ h.nonce # 0  BY <1>2, EnvelopeType
      <4>2. ASSUME call # Idle, call.nonce = h.nonce PROVE FALSE
        <5>1. call.task = t  BY <1>0, <4>2 DEF TypeOK, TaskOf
        <5> QED BY <1>1, <2>1, <4>2, <5>1 DEF OneAtATime
      <4> QED BY <4>1, <4>2
    <3>2. Spent(h.nonce)  BY <1>0, <1>1, <1>2, <2>1, <3>1 DEF OneAtATime, TaskOf
    <3> QED BY <1>1, <3>2 DEF Spent
  <2>4. \A u \in Tasks : Replayed(u)' <=> Replayed(u)  BY <1>7 DEF Replayed
  <2>5. CASE UNCHANGED <<call, outcome>>
    BY <1>3, <2>1, <2>2, <2>3, <2>4, <2>5 DEF EffectsKnown
  <2>6. CASE /\ call # Idle /\ call.task = t /\ call' = Idle
             /\ outcome' = [outcome EXCEPT ![t] = OutcomeOf(reply)]
    <3>1. /\ outcome'[t] # "rolled_back"
          /\ \A u \in Tasks \ {t} : outcome'[u] = outcome[u]
      BY <1>1, <1>2, <2>6 DEF TypeOK
    <3> QED BY <1>3, <2>1, <2>2, <2>4, <2>6, <3>1 DEF EffectsKnown
  <2>7. CASE /\ call # Idle /\ call.task = t /\ call' = Idle /\ UNCHANGED outcome
    BY <1>3, <2>1, <2>2, <2>3, <2>4, <2>7 DEF EffectsKnown
  <2> QED BY <1>0, <1>2, <1>7, <2>5, <2>6, <2>7, ReplyEffect DEF TaskOf
<1> QED BY <1>6, <1>8, <1>9

(* The only process of the task ends; and nobody still relies on it.       *)
LEMMA RollbackEndsStep ==
  ASSUME DeviceInv, NEW h \in handlers, RollbackEnds(h)
  PROVE  DeviceInv'
<1> USE DEF DeviceInv
<1>0. PICK t \in Tasks : t = TaskOf(h)  BY HandlerType, EnvelopeType DEF TaskOf
<1>13. PICK p \in DOMAIN processes : p = launched[t] /\ processes[p].task = t
  BY <1>0 DEF RollbackEnds, TypeOK
<1>1. /\ h.at = "admitted" /\ wire[h.nonce].kind = "rollback" /\ Bound(t)
      /\ processes' = [processes EXCEPT ![p].running = FALSE]
      /\ launched' = [launched EXCEPT ![t] = NoProcess]
      /\ Finish(h, "absent")
  BY <1>0, <1>13 DEF RollbackEnds, Serves
<1>2. h.nonce \in Nonces  BY HandlerType
<1>4. /\ processes' \in Seq(Process)
      /\ \A q \in DOMAIN processes' : processes'[q].life <= nodeRestarts'
      /\ DOMAIN processes' = DOMAIN processes
      /\ \A q \in DOMAIN processes : processes'[q].task = processes[q].task
      /\ \A u \in Tasks : /\ Running(u)' = Running(u) \ {p}
                         /\ RunningOfThisLife(u)' = RunningOfThisLife(u) \ {p}
  BY <1>1, ProcessEnds DEF Finish
<1>5. /\ launched' \in [Tasks -> Nat] /\ launched'[t] = 0
      /\ \A u \in Tasks \ {t} : launched'[u] = launched[u]
  BY <1>1, <1>2 DEF TypeOK
<1>6. \A u \in Tasks : Bound(u)' => /\ launched'[u] \in DOMAIN processes'
                                    /\ processes'[launched'[u]].task = u
  <2> SUFFICES ASSUME NEW u \in Tasks, Bound(u)'
               PROVE  /\ launched'[u] \in DOMAIN processes'
                      /\ processes'[launched'[u]].task = u
    OBVIOUS
  <2>1. u # t  BY <1>5 DEF Bound, NoProcess
  <2>2. launched'[u] = launched[u]  BY ONLY <1>5, <2>1, u \in Tasks
  <2>3. Bound(u)  BY <2>2 DEF Bound
  <2>4. launched[u] \in DOMAIN processes /\ processes[launched[u]].task = u
    BY <2>3 DEF TypeOK
  <2> QED BY ONLY <1>4, <2>2, <2>4
<1>7. OutcomeOf("absent") = "rolled_back"  BY DEF OutcomeOf
<1>8. TypeOK' /\ NoncesSuffice' /\ AdmittedOnce' /\ (Undisturbed' => ServedOnce' /\ OneAtATime')
  BY <1>1, <1>4, <1>5, <1>6, <1>7, FinishKeeps
<1>9. /\ UNCHANGED <<wire, admissions, coreRestarts, nodeRestarts>>
      /\ Reply(h.nonce, h.copy, "absent")
  BY <1>1 DEF Finish, cache
<1>10. RunningOfThisLife(t)' = {}
  BY <1>4, <1>13 DEF NothingOutOfReach
<1>11. NothingOutOfReach'
  BY <1>4, <1>5, <1>9, <1>10 DEF NothingOutOfReach
<1>12. ASSUME Undisturbed'
       PROVE  EffectsKnown'
  <2>1. ServedOnce /\ OneAtATime /\ EffectsKnown /\ nodeRestarts = 0
    BY <1>9, <1>12 DEF Undisturbed
  <2>2. /\ \A u \in Tasks \ {t} : Bound(u)' <=> Bound(u)
        /\ \A u \in Tasks : Replayed(u)' <=> Replayed(u)
    BY <1>5, <1>9 DEF Bound, Replayed
  <2>6. Running(t)' = {}
    <3>1. Running(t) = RunningOfThisLife(t)  BY <2>1, FirstLife
    <3> QED BY <1>4, <1>10, <3>1
  <2>3. CASE UNCHANGED <<call, outcome>>
    <3>1. outcome[t] = "completed" => call.nonce = h.nonce
      BY <1>0, <1>1, <1>2, <2>1 DEF OneAtATime, TaskOf
    <3>2. h.nonce # 0  BY <1>2, EnvelopeType
    <3>3. outcome[t] = "completed" => call # Idle /\ call.task = t
      BY <1>0, <1>2, <3>1, <3>2 DEF TypeOK, TaskOf
    <3> QED BY <1>4, <2>1, <2>2, <2>3, <2>6, <3>3 DEF EffectsKnown
  <2>4. CASE /\ call # Idle /\ call.task = t /\ call' = Idle
             /\ outcome' = [outcome EXCEPT ![t] = OutcomeOf("absent")]
    <3>1. /\ outcome'[t] = "rolled_back"
          /\ \A u \in Tasks \ {t} : outcome'[u] = outcome[u]
      BY <1>2, <1>7, <2>4 DEF TypeOK
    <3> QED BY <1>4, <2>1, <2>2, <2>4, <2>6, <3>1 DEF EffectsKnown
  <2> QED BY <1>0, <1>1, <1>2, <1>9, <2>3, <2>4, ReplyEffect DEF TaskOf
<1> QED BY <1>8, <1>11, <1>12

(* The user closes a window.                                               *)
LEMMA CloseStep ==
  ASSUME DeviceInv, NEW p \in DOMAIN processes, Close(p)
  PROVE  DeviceInv'
<1> USE DEF DeviceInv
<1>1. /\ processes' = [processes EXCEPT ![p].running = FALSE]
      /\ UNCHANGED <<now, deliveries, core, handlers, seen, admissions, purgedAt, launched,
                     nodeRestarts>>
  BY DEF Close, cache
<1>2. /\ processes' \in Seq(Process)
      /\ \A q \in DOMAIN processes' : processes'[q].life <= nodeRestarts'
      /\ DOMAIN processes' = DOMAIN processes
      /\ \A q \in DOMAIN processes : processes'[q].task = processes[q].task
      /\ \A t \in Tasks : /\ Running(t)' = Running(t) \ {p}
                         /\ RunningOfThisLife(t)' = RunningOfThisLife(t) \ {p}
  BY <1>1, ProcessEnds
<1>3. TypeOK'
  <2>1. handlers' \subseteq Handler'  BY <1>1 DEF TypeOK, Handler, core
  <2> QED BY <1>1, <1>2, <2>1 DEF TypeOK, Bound, core
<1>4. NoncesSuffice' /\ AdmittedOnce'  BY <1>1 DEF NoncesSuffice, AdmittedOnce, core
<1>5. NothingOutOfReach'  BY <1>1, <1>2 DEF NothingOutOfReach
<1>6. ASSUME Undisturbed'
      PROVE  ServedOnce' /\ OneAtATime' /\ EffectsKnown'
  <2>1. ServedOnce /\ OneAtATime /\ EffectsKnown  BY <1>1, <1>6 DEF Undisturbed, core
  <2>2. ServedOnce'  BY <1>1, <2>1 DEF ServedOnce
  <2>3. OneAtATime'  BY <1>1, <2>1 DEF OneAtATime, Spent, core
  <2>4. EffectsKnown'  BY <1>1, <1>2, <2>1 DEF EffectsKnown, Bound, Replayed, core
  <2> QED BY <2>2, <2>3, <2>4
<1> QED BY <1>3, <1>4, <1>5, <1>6

(* A node that starts anew has forgotten nonces and bindings.              *)
LEMMA RestartNodeStep ==
  ASSUME DeviceInv, RestartNode
  PROVE  DeviceInv'
<1> USE DEF DeviceInv, RestartNode, core
<1>1. nodeRestarts \in Nat /\ nodeRestarts' = nodeRestarts + 1  BY DEF TypeOK
<1>2. \A n \in Nonces : purgedAt < wire[n].expiresAt => admissions[n] < 1 + nodeRestarts'
  BY <1>1, EnvelopeType DEF AdmittedOnce
<1>7. \A p \in DOMAIN processes : processes[p].life < nodeRestarts'
  <2> SUFFICES ASSUME NEW p \in DOMAIN processes PROVE processes[p].life < nodeRestarts'
    OBVIOUS
  <2>1. processes[p] \in Process /\ processes[p].life <= nodeRestarts
    BY ElementType DEF TypeOK
  <2>2. PICK life \in Nat : life = processes[p].life  BY <2>1 DEF Process
  <2> QED BY <1>1, <2>1, <2>2
<1>3. TypeOK'
  <2>1. \A p \in DOMAIN processes : processes[p].life <= nodeRestarts'
    <3> SUFFICES ASSUME NEW p \in DOMAIN processes PROVE processes[p].life <= nodeRestarts'
      OBVIOUS
    <3>1. processes[p] \in Process  BY ElementType DEF TypeOK
    <3>2. PICK life \in Nat : life = processes[p].life  BY <3>1 DEF Process
    <3> QED BY <1>1, <1>7, <3>2
  <2> QED BY <1>1, <2>1 DEF TypeOK, Bound, Handler
<1>4. AdmittedOnce'
  <2> SUFFICES ASSUME NEW n \in Nonces, purgedAt < wire[n].expiresAt
               PROVE  admissions[n] <= 1 + nodeRestarts'
    BY DEF AdmittedOnce
  <2>1. admissions[n] \in Nat /\ admissions[n] < 1 + nodeRestarts'  BY <1>2, EnvelopeType
  <2> QED BY <1>1, <2>1
<1>5. NoncesSuffice'
  <2> SUFFICES ASSUME NEW n \in Nonces, purgedAt < wire[n].expiresAt
               PROVE  admissions[n] # 1 + nodeRestarts'
    BY DEF NoncesSuffice
  <2>1. admissions[n] \in Nat /\ admissions[n] < 1 + nodeRestarts'  BY <1>2, EnvelopeType
  <2> QED BY <1>1, <2>1
<1>6. NothingOutOfReach' /\ ~Undisturbed'
  <2>1. ASSUME NEW t \in Tasks PROVE RunningOfThisLife(t)' = {}
    <3> SUFFICES ASSUME NEW p \in DOMAIN processes, processes[p].life = nodeRestarts'
                 PROVE  FALSE
      BY DEF RunningOfThisLife, Running
    <3>1. processes[p].life < nodeRestarts'  BY <1>7
    <3> QED BY <1>1, <3>1
  <2> QED BY <1>1, <2>1 DEF NothingOutOfReach, Undisturbed
<1> QED BY <1>3, <1>4, <1>5, <1>6

-----------------------------------------------------------------------------

(* Every step keeps the invariant.                                         *)
LEMMA NextInv ==
  ASSUME DeviceInv, [Next]_vars
  PROVE  DeviceInv'
<1>1. CASE Core
  BY <1>1, SendStep, CallTimesOutStep DEF Core
<1>2. CASE Arrive
  BY <1>2, ReceiveStep, ReceiveExpiredStep DEF Arrive
<1>3. CASE Serve
  BY <1>3, AdmitStep, RefuseReplayStep, LaunchNewStep, AnswerStep, RollbackEndsStep DEF Serve
<1>4. CASE UNCHANGED vars
  <2>1. UNCHANGED <<now, deliveries, wire, call, outcome, coreRestarts, handlers, seen, admissions,
                    purgedAt, launched, processes, nodeRestarts>>
    BY <1>4 DEF vars, core, node, cache
  <2>2. TypeOK'  BY <2>1 DEF DeviceInv, TypeOK, Bound, Handler
  <2>3. NoncesSuffice' /\ AdmittedOnce' /\ NothingOutOfReach'
    BY <2>1 DEF DeviceInv, NoncesSuffice, AdmittedOnce, NothingOutOfReach, RunningOfThisLife,
                Running
  <2>4. (Undisturbed => ServedOnce /\ OneAtATime /\ EffectsKnown)'
    BY <2>1 DEF DeviceInv, Undisturbed, ServedOnce, OneAtATime, Spent, EffectsKnown, Running, Bound,
                Replayed
  <2> QED BY <2>2, <2>3, <2>4 DEF DeviceInv
<1> QED
  BY <1>1, <1>2, <1>3, <1>4, TickStep, RestartCoreStep, RestartNodeStep, CloseStep DEF Next

(* The inductive invariant: types and bindings, why the nonces are enough, *)
(* and, until core or node is restarted, how the requests of a task follow *)
(* each other.                                                             *)
THEOREM DeviceInvariant == Spec => []DeviceInv
  BY InitInv, NextInv, PTL DEF Spec

-----------------------------------------------------------------------------
(* What the invariant says of requests and processes.                      *)

(* A request is served at most once, and once more for each restart of the *)
(* node, until its nonce may have been purged.                             *)
THEOREM ServedAtMostOnce == Spec => []AdmittedOnce
<1>1. DeviceInv => AdmittedOnce  BY DEF DeviceInv
<1> QED BY <1>1, DeviceInvariant, PTL

(* The node has at most one process of a task running that it started in   *)
(* its present life, and can terminate it.                                 *)
THEOREM OneProcess == Spec => []NothingOutOfReach
<1>1. DeviceInv => NothingOutOfReach  BY DEF DeviceInv
<1> QED BY <1>1, DeviceInvariant, PTL

(* After an undo nothing of the task is left, nor appears later but by a   *)
(* replay, as long as core and node are not restarted.                     *)
THEOREM UndoIsFinal == Spec => []UndoneStaysGone
<1>1. DeviceInv => UndoneStaysGone  BY DEF DeviceInv, UndoneStaysGone, EffectsKnown
<1> QED BY <1>1, DeviceInvariant, PTL

(* A completed launch can be undone, as long as core and node are not      *)
(* restarted.                                                              *)
THEOREM UndoReaches == Spec => []UndoCanReach
<1>1. DeviceInv => UndoCanReach  BY DEF DeviceInv, UndoCanReach, EffectsKnown
<1> QED BY <1>1, DeviceInvariant, PTL

(* The node terminates a process only for an undo of its task.             *)
THEOREM OnlyUndoTerminates == Spec => TerminatedByUndo
<1> DEFINE Asked == handlers' # handlers =>
                      \A p \in DOMAIN processes :
                        processes[p].running /\ ~processes'[p].running => UndoSent(processes[p].task)
<1>1. ASSUME DeviceInv, Next
      PROVE  Asked
  <2>1. CASE UNCHANGED processes \/ UNCHANGED handlers  BY <2>1
  <2>2. ASSUME NEW h \in handlers, LaunchNew(h)
        PROVE  \A p \in DOMAIN processes : processes'[p] = processes[p]
    <3>1. PICK t \in Tasks, running \in BOOLEAN :
            processes' = Append(processes,
                                [task |-> t, running |-> running, life |-> nodeRestarts])
      BY <1>1, <2>2, HandlerType, EnvelopeType DEF LaunchNew, TaskOf, DeviceInv, Started
    <3>2. UNCHANGED nodeRestarts  BY <2>2 DEF LaunchNew, Finish
    <3> QED BY <1>1, <3>1, <3>2, ProcessStarts DEF DeviceInv
  <2>3. ASSUME NEW h \in handlers, RollbackEnds(h)
        PROVE  Asked
    <3>1. PICK q \in DOMAIN processes : /\ processes' = [processes EXCEPT ![q].running = FALSE]
                                        /\ processes[q].task = TaskOf(h)
      BY <1>1, <2>3, HandlerType, EnvelopeType DEF RollbackEnds, TaskOf, DeviceInv, TypeOK
    <3>2. UndoSent(processes[q].task)
      BY <1>1, <2>3, <3>1, HandlerType DEF RollbackEnds, Serves, TaskOf, UndoSent, DeviceInv
    <3>3. \A p \in DOMAIN processes \ {q} : processes'[p] = processes[p]
      BY <3>1
    <3> QED BY <3>2, <3>3
  <2> QED
    BY <1>1, <2>1, <2>2, <2>3
       DEF Next, Tick, Core, LaunchNotepad, RollbackCommand, Send, CallTimesOut, RestartCore,
           Arrive, Receive, ReceiveExpired, Serve, Admit, RefuseReplay, LaunchFails, LaunchKnown,
           RollbackUnknown, RollbackStuck, RestartNode, Close, node, cache
<1>2. DeviceInv /\ [Next]_vars => [Asked]_vars
  BY <1>1
<1> QED BY <1>2, DeviceInvariant, PTL DEF Spec, TerminatedByUndo
=============================================================================
