------------------------ MODULE IntentPipelineProofs ------------------------
(***************************************************************************)
(* The properties of IntentPipeline, for utterances of any number of       *)
(* phrases.  The invariant says where the request stands; what it may run  *)
(* then follows from the decision tables: which kinds an utterance can be  *)
(* classified to, and which plans the policy lets run without an approval. *)
(***************************************************************************)
EXTENDS IntentPipeline, SequenceTheorems, TLAPS

(* Where a request stands: the plan is that of what the utterance was      *)
(* classified to, the state that of the verdict on the plan, and only      *)
(* steps of an allowed plan have been run.                                 *)
Executions    == {"executing", "completed", "failed", "raised"}
ResultsOfPlan == UNION {ResultsOf(plan[i].capability) : i \in DOMAIN plan}

PipelineInv ==
  /\ state \in {"received", "planned", "denied", "awaiting_approval"} \cup Executions
  /\ refused \in BOOLEAN /\ (refused => "note form" \in utterance)
  /\ ran \in Seq(ResultsOfPlan)
  /\ state = "received" => plan = << >>
  /\ state # "received" => kind = Classify(utterance) /\ plan = PlanFor(kind, refused)
  /\ state \notin Executions => ran = << >>
  /\ state = "denied" => VerdictFor(plan, refused) = "deny"
  /\ state = "awaiting_approval" => VerdictFor(plan, refused) = "require_approval"
  /\ state \in Executions => VerdictFor(plan, refused) = "allow"

-----------------------------------------------------------------------------
(* The classifier.                                                         *)

(* A set of the numbers of rules has a first.                              *)
LEMMA FirstRule ==
  ASSUME NEW S \in SUBSET (1..14), S # {}
  PROVE  Min(S) \in S /\ \A j \in S : Min(S) <= j
<1>1. \E i \in S : \A j \in S : i <= j
  <2> SUFFICES ASSUME \A i \in S : \E j \in S : j < i PROVE FALSE  OBVIOUS
  <2>1. \A i \in 1..4 : i \notin S  OBVIOUS
  <2>2. \A i \in 5..9 : i \notin S  BY <2>1
  <2>3. \A i \in 10..14 : i \notin S  BY <2>1, <2>2
  <2>4. PICK i \in S : i \in 1..14  OBVIOUS
  <2>5. i \in 1..4 \/ i \in 5..9 \/ i \in 10..14  BY <2>4
  <2> QED BY <2>1, <2>2, <2>3, <2>4, <2>5
<1> QED BY <1>1 DEF Min

(* The rules in the order of the branches.                                 *)
LEMMA RuleOrder ==
  /\ DOMAIN Rules = 1..14
  /\ \A i \in 1..5  : Rules[i] = Conversation[i]
  /\ \A i \in 6..8  : Rules[i] = Forbidden[i - 5]
  /\ \A i \in 9..14 : Rules[i] = Reads[i - 8]
<1>1. \E S : Conversation \in Seq(S) /\ Len(Conversation) = 5
  <2>1. \A a, b, c, d, e : <<a, b, c, d, e>> \in Seq({a, b, c, d, e}) /\ Len(<<a, b, c, d, e>>) = 5
    OBVIOUS
  <2> QED BY <2>1, Zenon DEF Conversation
<1>2. \E S : Forbidden \in Seq(S) /\ Len(Forbidden) = 3
  <2>1. \A a, b, c : <<a, b, c>> \in Seq({a, b, c}) /\ Len(<<a, b, c>>) = 3  OBVIOUS
  <2> QED BY <2>1, Zenon DEF Forbidden
<1>3. \E S : Reads \in Seq(S) /\ Len(Reads) = 6
  <2>1. \A a, b, c, d, e, f : /\ <<a, b, c, d, e, f>> \in Seq({a, b, c, d, e, f})
                              /\ Len(<<a, b, c, d, e, f>>) = 6
    OBVIOUS
  <2> QED BY <2>1, Zenon DEF Reads
<1> HIDE DEF Conversation, Forbidden, Reads
<1>4. PICK S, T, U : Conversation \in Seq(S) /\ Forbidden \in Seq(T) /\ Reads \in Seq(U)
  BY <1>1, <1>2, <1>3
<1>5. PICK A : A = S \cup T \cup U  OBVIOUS
<1>6. Conversation \in Seq(A) /\ Forbidden \in Seq(A) /\ Reads \in Seq(A)
  BY <1>4, <1>5
<1>7. PICK front : front = Conversation \o Forbidden  OBVIOUS
<1>8. /\ front \in Seq(A) /\ Len(front) = 8
      /\ \A i \in 1..8 : front[i] = IF i <= 5 THEN Conversation[i] ELSE Forbidden[i - 5]
  <2>1. /\ front \in Seq(A) /\ Len(front) = Len(Conversation) + Len(Forbidden)
        /\ \A i \in 1 .. Len(Conversation) + Len(Forbidden) :
             front[i] = IF i <= Len(Conversation) THEN Conversation[i]
                                                  ELSE Forbidden[i - Len(Conversation)]
    BY <1>6, <1>7, ConcatProperties
  <2> QED BY <1>1, <1>2, <2>1
<1>9. /\ Len(Rules) = 14 /\ Rules \in Seq(A)
      /\ \A i \in 1..14 : Rules[i] = IF i <= 8 THEN front[i] ELSE Reads[i - 8]
  <2>1. Rules = front \o Reads  BY <1>7 DEF Rules
  <2>2. /\ Rules \in Seq(A) /\ Len(Rules) = Len(front) + Len(Reads)
        /\ \A i \in 1 .. Len(front) + Len(Reads) :
             Rules[i] = IF i <= Len(front) THEN front[i] ELSE Reads[i - Len(front)]
    BY <1>6, <1>8, <2>1, ConcatProperties
  <2> QED BY <1>3, <1>8, <2>2
<1>10. DOMAIN Rules = 1..14  BY <1>9
<1>11. ASSUME NEW i \in 1..5 PROVE Rules[i] = Conversation[i]
  <2>1. i \in 1..8 /\ i \in 1..14 /\ i <= 5 /\ i <= 8  OBVIOUS
  <2>2. Rules[i] = front[i]  BY ONLY <1>9, <2>1
  <2> QED BY ONLY <1>8, <2>1, <2>2
<1>12. ASSUME NEW i \in 6..8 PROVE Rules[i] = Forbidden[i - 5]
  <2>1. i \in 1..8 /\ i \in 1..14 /\ ~(i <= 5) /\ i <= 8  OBVIOUS
  <2>2. Rules[i] = front[i]  BY ONLY <1>9, <2>1
  <2> QED BY ONLY <1>8, <2>1, <2>2
<1>13. ASSUME NEW i \in 9..14 PROVE Rules[i] = Reads[i - 8]  BY <1>9
<1> QED BY <1>10, <1>11, <1>12, <1>13

AnswerKinds    == {"assistant_identity", "assistant_capabilities", "assistant_help"}
ForbiddenKinds == {"financial_transfer", "social_publish", "ats_write"}

(* What the rules classify to: the first rule is that of notes, then come  *)
(* the three questions, Notepad, and the forbidden actions.                *)
LEMMA RuleIntents ==
  /\ \A i \in 1..14 : Rules[i].intent \in IntentKind
  /\ \A i \in 2..4 : Rules[i].intent \in AnswerKinds
  /\ Rules[1].intent = "create_note" /\ Rules[5].intent = "launch_notepad"
  /\ \A i \in 6..8 : Rules[i].intent \in ForbiddenKinds
<1>1. /\ Conversation[1].intent = "create_note"
      /\ Conversation[2].intent = "assistant_identity"
      /\ Conversation[3].intent = "assistant_capabilities"
      /\ Conversation[4].intent = "assistant_help"
      /\ Conversation[5].intent = "launch_notepad"
  BY DEF Conversation, Rule
<1>2. /\ Forbidden[1].intent = "financial_transfer"
      /\ Forbidden[2].intent = "social_publish"
      /\ Forbidden[3].intent = "ats_write"
  BY DEF Forbidden, Rule
<1>3. /\ Reads[1].intent = "local_workspace_status" /\ Reads[2].intent = "daily_briefing"
      /\ Reads[3].intent = "prepare_workspace" /\ Reads[4].intent = "ats_read"
      /\ Reads[5].intent = "system_health" /\ Reads[6].intent = "play_media"
  BY DEF Reads, Rule
<1> HIDE DEF Conversation, Forbidden, Reads
<1>4. ASSUME NEW i \in 1..5
      PROVE  Rules[i].intent \in IntentKind /\ (i \in 2..4 => Rules[i].intent \in AnswerKinds)
  BY <1>1, RuleOrder DEF IntentKind, AnswerKinds
<1>5. ASSUME NEW i \in 6..8
      PROVE  Rules[i].intent \in IntentKind /\ Rules[i].intent \in ForbiddenKinds
  <2>1. Rules[i] = Forbidden[i - 5] /\ i - 5 \in 1..3  BY RuleOrder
  <2> QED BY <1>2, <2>1 DEF IntentKind, ForbiddenKinds
<1>6. ASSUME NEW i \in 9..14
      PROVE  Rules[i].intent \in IntentKind
  <2>1. Rules[i] = Reads[i - 8] /\ i - 8 \in 1..6  BY RuleOrder
  <2> QED BY <1>3, <2>1 DEF IntentKind
<1>7. Rules[1].intent = "create_note" /\ Rules[5].intent = "launch_notepad"
  BY <1>1, RuleOrder
<1>8. \A i \in 1..14 : i \in 1..5 \/ i \in 6..8 \/ i \in 9..14  OBVIOUS
<1>9. \A i \in 2..4 : i \in 1..5  OBVIOUS
<1> QED BY <1>4, <1>5, <1>6, <1>7, <1>8, <1>9

(* The first rule that applies decides.                                    *)
LEMMA FirstDecides ==
  ASSUME NEW u, NEW n \in 1..14, Applies(Rules[n], u)
  PROVE  \E i \in 1..n : Applies(Rules[i], u) /\ Classify(u) = Rules[i].intent
<1>1. PICK hits : hits = {i \in DOMAIN Rules : Applies(Rules[i], u)}  OBVIOUS
<1>2. hits \in SUBSET (1..14) /\ n \in hits  BY <1>1, RuleOrder
<1>3. Min(hits) \in hits /\ Min(hits) <= n  BY <1>2, FirstRule
<1>4. Classify(u) = Rules[Min(hits)].intent  BY <1>1, <1>2 DEF Classify
<1>5. Min(hits) \in 1..14 /\ Min(hits) <= n  BY ONLY <1>2, <1>3
<1>6. Min(hits) \in 1..n  BY ONLY <1>5, n \in 1..14
<1> QED BY <1>1, <1>3, <1>4, <1>6

(* Every utterance is classified.                                          *)
LEMMA ClassifyKind ==
  ASSUME NEW u
  PROVE  Classify(u) \in IntentKind
<1>1. CASE \E n \in 1..14 : Applies(Rules[n], u)
  <2>1. PICK n \in 1..14 : Applies(Rules[n], u)  BY <1>1
  <2>2. PICK i \in 1..n : Classify(u) = Rules[i].intent  BY <2>1, FirstDecides
  <2>3. i \in 1..14  OBVIOUS
  <2> QED BY <2>2, <2>3, RuleIntents
<1>2. CASE ~\E n \in 1..14 : Applies(Rules[n], u)
  <2>1. Classify(u) = "unknown"  BY <1>2, RuleOrder DEF Classify
  <2> QED BY <2>1 DEF IntentKind
<1> QED BY <1>1, <1>2

(* When the rules of notes, questions, Notepad and forbidden actions apply. *)
LEMMA RuleGroups ==
  ASSUME NEW u
  PROVE  /\ Applies(Rules[1], u) <=> "note form" \in u
         /\ Applies(Rules[2], u) <=> "who are you" \in u
         /\ Applies(Rules[3], u) <=> "what can you do" \in u
         /\ Applies(Rules[4], u) <=> "help" \in u
         /\ Applies(Rules[5], u) <=> "open notepad" \in u
         /\ Applies(Rules[6], u) <=> "send money" \in u
         /\ Applies(Rules[7], u) <=> "publish" \in u
         /\ Applies(Rules[8], u) <=> {"ats", "buy or sell"} \subseteq u
<1>1. ASSUME NEW rule, NEW p, rule.groups = {{p}}
      PROVE  Applies(rule, u) <=> p \in u
  BY <1>1 DEF Applies
<1>2. ASSUME NEW rule, NEW p, NEW q, rule.groups = {{p}, {q}}
      PROVE  Applies(rule, u) <=> {p, q} \subseteq u
  BY <1>2 DEF Applies
<1>3. /\ Conversation[1].groups = {{"note form"}} /\ Conversation[2].groups = {{"who are you"}}
      /\ Conversation[3].groups = {{"what can you do"}} /\ Conversation[4].groups = {{"help"}}
      /\ Conversation[5].groups = {{"open notepad"}}
  BY DEF Conversation, Rule
<1>4. /\ Forbidden[1].groups = {{"send money"}} /\ Forbidden[2].groups = {{"publish"}}
      /\ Forbidden[3].groups = {{"ats"}, {"buy or sell"}}
  BY DEF Forbidden, Rule
<1> HIDE DEF Conversation, Forbidden
<1>5. /\ Rules[1] = Conversation[1] /\ Rules[2] = Conversation[2]
      /\ Rules[3] = Conversation[3] /\ Rules[4] = Conversation[4] /\ Rules[5] = Conversation[5]
      /\ Rules[6] = Forbidden[1] /\ Rules[7] = Forbidden[2] /\ Rules[8] = Forbidden[3]
  BY RuleOrder
<1>6. Applies(Rules[1], u) <=> "note form" \in u  BY <1>1, <1>3, <1>5
<1>7. Applies(Rules[2], u) <=> "who are you" \in u  BY <1>1, <1>3, <1>5
<1>8. Applies(Rules[3], u) <=> "what can you do" \in u  BY <1>1, <1>3, <1>5
<1>9. Applies(Rules[4], u) <=> "help" \in u  BY <1>1, <1>3, <1>5
<1>10. Applies(Rules[6], u) <=> "send money" \in u  BY <1>1, <1>4, <1>5
<1>11. Applies(Rules[7], u) <=> "publish" \in u  BY <1>1, <1>4, <1>5
<1>12. Applies(Rules[8], u) <=> {"ats", "buy or sell"} \subseteq u
  <2>1. Rules[8].groups = {{"ats"}, {"buy or sell"}}  BY <1>4, <1>5
  <2> QED BY <1>2, <2>1, Zenon
<1>13. Applies(Rules[5], u) <=> "open notepad" \in u  BY <1>1, <1>3, <1>5
<1> QED BY <1>6, <1>7, <1>8, <1>9, <1>10, <1>11, <1>12, <1>13

(* Nothing but a forbidden action is made of an utterance that mentions    *)
(* one, unless it also has a note form, a question or Notepad: then that.  *)
LEMMA ForbiddenClassified ==
  ASSUME NEW u, Mentions(u)
  PROVE  \/ Classify(u) \in ForbiddenKinds
         \/ Classify(u) \in AnswerKinds /\ u \cap Questions # {}
         \/ /\ Classify(u) \in {"create_note", "launch_notepad"}
            /\ u \cap {"note form", "open notepad"} # {}
<1>1. Applies(Rules[6], u) \/ Applies(Rules[7], u) \/ Applies(Rules[8], u)
  BY RuleGroups, Zenon DEF Mentions
<1>2. PICK n \in 6..8 : Applies(Rules[n], u)  BY ONLY <1>1
<1>3. n \in 1..14  BY ONLY n \in 6..8
<1>4. PICK i \in 1..n : Applies(Rules[i], u) /\ Classify(u) = Rules[i].intent
  BY <1>2, <1>3, FirstDecides, Zenon
<1>5. i = 1 \/ i \in 2..4 \/ i = 5 \/ i \in 6..8  BY ONLY n \in 6..8, i \in 1..n
<1>6. CASE i = 1
  <2>1. Classify(u) = "create_note"  BY ONLY <1>4, <1>6, RuleIntents
  <2>2. Applies(Rules[1], u)  BY ONLY <1>4, <1>6
  <2>3. "note form" \in u  BY <2>2, RuleGroups, Zenon
  <2> QED BY ONLY <2>1, <2>3
<1>7. CASE i = 5
  <2>1. Classify(u) = "launch_notepad"  BY ONLY <1>4, <1>7, RuleIntents
  <2>2. Applies(Rules[5], u)  BY ONLY <1>4, <1>7
  <2>3. "open notepad" \in u  BY <2>2, RuleGroups, Zenon
  <2> QED BY ONLY <2>1, <2>3
<1>8. CASE i \in 2..4
  <2>1. Classify(u) \in AnswerKinds  BY ONLY <1>4, <1>8, RuleIntents
  <2>2. i = 2 \/ i = 3 \/ i = 4  BY ONLY <1>8
  <2>3. Applies(Rules[2], u) \/ Applies(Rules[3], u) \/ Applies(Rules[4], u)
    BY ONLY <1>4, <2>2
  <2>4. "who are you" \in u \/ "what can you do" \in u \/ "help" \in u
    BY <2>3, RuleGroups, Zenon
  <2>5. u \cap Questions # {}  BY ONLY <2>4 DEF Questions
  <2> QED BY ONLY <2>1, <2>5
<1>9. CASE i \in 6..8  BY ONLY <1>4, <1>9, RuleIntents
<1> QED BY ONLY <1>5, <1>6, <1>7, <1>8, <1>9

(* A question about Nexuss without a note form is classified as one.       *)
LEMMA QuestionClassified ==
  ASSUME NEW u, "note form" \notin u,
         u \cap Questions # {}
  PROVE  Classify(u) \in AnswerKinds
<1>1. ~Applies(Rules[1], u)  BY RuleGroups, Zenon
<1>2. Applies(Rules[2], u) \/ Applies(Rules[3], u) \/ Applies(Rules[4], u)
  <2>1. "who are you" \in u \/ "what can you do" \in u \/ "help" \in u  BY DEF Questions
  <2> QED BY ONLY <2>1, RuleGroups, Zenon
<1>3. PICK n \in 2..4 : Applies(Rules[n], u)  BY ONLY <1>2
<1>4. n \in 1..14  BY ONLY n \in 2..4
<1>5. PICK i \in 1..n : Applies(Rules[i], u) /\ Classify(u) = Rules[i].intent
  BY <1>3, <1>4, FirstDecides, Zenon
<1>6. i # 1  BY <1>1, <1>5, Zenon
<1>7. i \in 2..4  BY ONLY <1>6, n \in 2..4, i \in 1..n
<1> QED BY ONLY <1>5, <1>7, RuleIntents

-----------------------------------------------------------------------------
(* The policy.                                                             *)

(* What the verdict says of every step.                                    *)
LEMMA VerdictOnSteps ==
  ASSUME NEW p, NEW k \in DOMAIN p
  PROVE  /\ Verdict(p) # "deny" => p[k].capability \in Registered
         /\ Verdict(p) = "allow" => ~NeedsApproval(p[k].capability)
<1>1. EvaluateStep(p[k]) \in Outcomes(p)  BY DEF Outcomes
<1>2. /\ EvaluateStep(p[k]) # "deny" => p[k].capability \in Registered
      /\ EvaluateStep(p[k]) = "allow" => ~NeedsApproval(p[k].capability)
      /\ EvaluateStep(p[k]) \in {"deny", "require_approval", "allow"}
  BY DEF EvaluateStep, NeedsApproval
<1> QED BY <1>1, <1>2 DEF Verdict

(* The verdict on a plan of one step is that on its step.                  *)
LEMMA OneStepVerdict ==
  ASSUME NEW c, NEW risk, NEW reversible, NEW p, p = << PlanStep(c, risk, reversible) >>
  PROVE  /\ DOMAIN p = {1} /\ Len(p) = 1 /\ p[1].capability = c
         /\ p[1].risk = risk /\ p[1].reversible = reversible
         /\ Verdict(p) = EvaluateStep(p[1])
<1>1. DOMAIN p = {1} /\ Len(p) = 1 /\ p[1] = PlanStep(c, risk, reversible)  OBVIOUS
<1>2. Outcomes(p) = {EvaluateStep(p[1])}  BY <1>1 DEF Outcomes
<1>3. EvaluateStep(p[1]) \in {"deny", "require_approval", "allow"}  BY DEF EvaluateStep
<1>4. Verdict(p) = EvaluateStep(p[1])  BY <1>2, <1>3 DEF Verdict
<1> QED BY <1>1, <1>4 DEF PlanStep

(* The plans, each of one step but the briefing's.                         *)
LEMMA PlanShapes ==
  ASSUME NEW k \in IntentKind, NEW bad \in BOOLEAN
  PROVE  /\ Len(PlanFor(k, bad)) \in {1, 4}
         /\ DOMAIN PlanFor(k, bad) = 1..Len(PlanFor(k, bad))
<1>1. \A a : Len(<<a>>) = 1 /\ DOMAIN <<a>> = 1..1  OBVIOUS
<1>2. \A a, b, c, d : Len(<<a, b, c, d>>) = 4 /\ DOMAIN <<a, b, c, d>> = 1..4  OBVIOUS
<1>3. PICK p : p = PlanFor(k, bad)  OBVIOUS
<1>4. (\E a : p = <<a>>) \/ (\E a, b, c, d : p = <<a, b, c, d>>)
  BY <1>3, Zenon DEF PlanFor, InvalidNotePlan, PlanOf, IntentKind
<1> QED BY <1>1, <1>2, <1>3, <1>4

(* What the policy says of the plan of each kind: three reads and the      *)
(* answers may run, the notes and Notepad need an approval.                *)
AllowedReads == {"daily_briefing", "local_workspace_status", "ats_read"}

(* The plan of an answer is allowed, and is the answer alone.              *)
LEMMA AnswerPlan ==
  ASSUME NEW k \in AnswerKinds
  PROVE  /\ DOMAIN PlanOf(k) = {1} /\ PlanOf(k)[1].capability = "assistant.respond"
         /\ PlanOf(k)[1].reversible = FALSE
         /\ Verdict(PlanOf(k)) = "allow"
<1>1. PlanOf(k) = << PlanStep("assistant.respond", "informational", FALSE) >>
  BY DEF PlanOf, AnswerKinds
<1>2. PICK p : p = PlanOf(k)  OBVIOUS
<1>3. /\ DOMAIN p = {1} /\ p[1].capability = "assistant.respond" /\ p[1].reversible = FALSE
      /\ Verdict(p) = EvaluateStep(p[1])
  <2>1. PICK no : no = FALSE  OBVIOUS
  <2>2. p = << PlanStep("assistant.respond", "informational", no) >>  BY <1>1, <1>2, <2>1
  <2>3. /\ DOMAIN p = {1} /\ p[1].capability = "assistant.respond" /\ p[1].reversible = no
        /\ Verdict(p) = EvaluateStep(p[1])
    BY <2>2, OneStepVerdict
  <2> QED BY <2>1, <2>3
<1>4. EvaluateStep(p[1]) = "allow"
  BY <1>3 DEF EvaluateStep, ProhibitedCapabilities, Registry, Registered, NoteCapabilities,
              DeviceCapabilities, SimulatedReads
<1> QED BY <1>2, <1>3, <1>4

(* The plans that need an approval, and nothing else, are these two.       *)
LEMMA ApprovalPlan ==
  ASSUME NEW k \in {"create_note", "launch_notepad"}
  PROVE  \E c \in {"workspace.create_note", "device.launch_notepad"} :
           LET p == PlanOf(k)
           IN  /\ DOMAIN p = {1} /\ Len(p) = 1 /\ NeedsApproval(p[1].capability)
               /\ p[1].capability = c /\ p[1].reversible = TRUE
               /\ p[1].risk = Registry[c].risk /\ Registry[c].reversible = TRUE
               /\ Verdict(p) = "require_approval"
<1>1. PICK c, risk : /\ PlanOf(k) = << PlanStep(c, risk, TRUE) >>
                     /\ \/ c = "workspace.create_note" /\ risk = "medium"
                        \/ c = "device.launch_notepad" /\ risk = "high"
  <2>1. CASE k = "create_note"
    <3>1. PlanOf(k) = << PlanStep("workspace.create_note", "medium", TRUE) >>
      BY <2>1 DEF PlanOf
    <3> QED BY <3>1
  <2>2. CASE k = "launch_notepad"
    <3>1. PlanOf(k) = << PlanStep("device.launch_notepad", "high", TRUE) >>
      BY <2>2 DEF PlanOf
    <3> QED BY <3>1
  <2> QED BY <2>1, <2>2
<1>2. PICK p : p = PlanOf(k)  OBVIOUS
<1>3. p = << PlanStep(c, risk, TRUE) >>  BY <1>1, <1>2
<1>4. /\ DOMAIN p = {1} /\ Len(p) = 1 /\ p[1].capability = c /\ p[1].reversible = TRUE
      /\ p[1].risk = risk /\ Verdict(p) = EvaluateStep(p[1])
  <2>1. PICK yes : yes = TRUE  OBVIOUS
  <2>2. p = << PlanStep(c, risk, yes) >>  BY <1>3, <2>1
  <2>3. /\ DOMAIN p = {1} /\ Len(p) = 1 /\ p[1].capability = c /\ p[1].reversible = yes
        /\ p[1].risk = risk /\ Verdict(p) = EvaluateStep(p[1])
    BY <2>2, OneStepVerdict
  <2> QED BY <2>1, <2>3
<1>5. c \in Registered /\ c \notin ProhibitedCapabilities
  BY <1>1 DEF Registered, NoteCapabilities, ProhibitedCapabilities, DeviceCapabilities
<1>6. /\ Registry[c].policy = "explicit" /\ Registry[c].status = "active"
      /\ Registry[c].risk = risk /\ Registry[c].reversible = TRUE
  BY <1>1, <1>5 DEF Registry, NoteCapabilities, DeviceCapabilities, SimulatedReads
<1>7. NeedsApproval(p[1].capability)  BY <1>4, <1>5, <1>6 DEF NeedsApproval
<1>8. EvaluateStep(p[1]) = "require_approval"
  BY <1>4, <1>5, <1>6 DEF EvaluateStep
<1> QED BY <1>1, <1>2, <1>4, <1>6, <1>7, <1>8

(* The plan of a kind that is none of these is denied.                     *)
LEMMA DeniedPlan ==
  ASSUME NEW k \in IntentKind \ (AnswerKinds \cup AllowedReads \cup {"create_note", "launch_notepad"})
  PROVE  Verdict(PlanOf(k)) = "deny"
<1>1. PICK c, risk, reversible :
        /\ PlanOf(k) = << PlanStep(c, risk, reversible) >>
        /\ c \in {"nexuss.read_health", "device.workspace.prepare", "media.prepare_playback",
                  "ats.write_order", "finance.transfer", "social.publish", "nexuss.unsupported"}
  BY DEF IntentKind, AnswerKinds, AllowedReads, PlanOf
<1>2. PICK p : p = PlanOf(k)  OBVIOUS
<1>3. p = << PlanStep(c, risk, reversible) >>  BY <1>1, <1>2
<1>4. p[1].capability = c /\ Verdict(p) = EvaluateStep(p[1])
  BY <1>3, OneStepVerdict
<1>5. EvaluateStep(p[1]) = "deny"
  BY <1>1, <1>4 DEF EvaluateStep, ProhibitedCapabilities, Registered, NoteCapabilities,
                    DeviceCapabilities, SimulatedReads
<1> QED BY <1>2, <1>4, <1>5

(* The reads that may run: of one step each, or the four of the briefing.  *)
LEMMA ReadPlan ==
  ASSUME NEW k \in AllowedReads, NEW i \in DOMAIN PlanOf(k)
  PROVE  /\ PlanOf(k)[i].capability \in SimulatedReads \cup {"workspace.read_status"}
         /\ PlanOf(k)[i].reversible = FALSE
<1>1. PICK p : p = PlanOf(k)  OBVIOUS
<1>2. CASE k = "daily_briefing"
  <2>1. p = << PlanStep("calendar.read_summary", "low", FALSE),
               PlanStep("email.read_summary", "low", FALSE),
               PlanStep("github.read_summary", "low", FALSE),
               PlanStep("ats.read_health", "low", FALSE) >>
    BY <1>1, <1>2 DEF PlanOf
  <2>2. i \in 1..4  BY <1>1, <2>1
  <2>3. p[i] \in {PlanStep(c, "low", FALSE) : c \in SimulatedReads}
    <3>1. /\ p[1] = PlanStep("calendar.read_summary", "low", FALSE)
          /\ p[2] = PlanStep("email.read_summary", "low", FALSE)
          /\ p[3] = PlanStep("github.read_summary", "low", FALSE)
          /\ p[4] = PlanStep("ats.read_health", "low", FALSE)
      BY <2>1
    <3>2. i = 1 \/ i = 2 \/ i = 3 \/ i = 4  BY <2>2
    <3> QED BY <3>1, <3>2 DEF SimulatedReads
  <2> QED BY <1>1, <2>3 DEF PlanStep
<1>3. CASE k \in {"local_workspace_status", "ats_read"}
  <2>1. PICK c \in SimulatedReads \cup {"workspace.read_status"} : p = << PlanStep(c, "low", FALSE) >>
    BY <1>1, <1>3 DEF PlanOf, SimulatedReads
  <2>2. DOMAIN p = {1} /\ p[1].capability = c /\ p[1].reversible = FALSE
    <3>1. PICK no : no = FALSE  OBVIOUS
    <3>2. p = << PlanStep(c, "low", no) >>  BY <2>1, <3>1
    <3>3. DOMAIN p = {1} /\ p[1].capability = c /\ p[1].reversible = no
      BY <3>2, OneStepVerdict
    <3> QED BY <3>1, <3>3
  <2> QED BY <1>1, <2>2
<1> QED BY <1>2, <1>3 DEF AllowedReads

(* So what runs, or waits for an approval, is of these kinds.              *)
LEMMA VerdictKinds ==
  ASSUME NEW k \in IntentKind, NEW bad \in BOOLEAN, NEW p, p = PlanFor(k, bad)
  PROVE  /\ VerdictFor(p, bad) = "allow"
              => k \in AnswerKinds \cup AllowedReads /\ p = PlanOf(k) /\ Verdict(p) = "allow"
         /\ VerdictFor(p, bad) = "require_approval"
              => k \in {"create_note", "launch_notepad"} /\ p = PlanOf(k)
<1>1. VerdictFor(p, bad) # "deny" => p = PlanOf(k) /\ VerdictFor(p, bad) = Verdict(PlanOf(k))
  BY DEF VerdictFor, PlanFor
<1>2. k \in {"create_note", "launch_notepad"} => Verdict(PlanOf(k)) = "require_approval"
  BY ApprovalPlan
<1>3. k \notin AnswerKinds \cup AllowedReads \cup {"create_note", "launch_notepad"}
        => Verdict(PlanOf(k)) = "deny"
  BY DeniedPlan
<1>4. k \in AnswerKinds \cup AllowedReads => Verdict(PlanOf(k)) # "require_approval"
  <2>1. CASE k \in AnswerKinds  BY <2>1, AnswerPlan
  <2>2. CASE k \in AllowedReads
    <3>1. ASSUME NEW i \in DOMAIN PlanOf(k) PROVE EvaluateStep(PlanOf(k)[i]) # "require_approval"
      BY <2>2, ReadPlan
         DEF EvaluateStep, Registry, NoteCapabilities, DeviceCapabilities, SimulatedReads, Registered
    <3> QED BY <3>1 DEF Verdict, Outcomes
  <2> QED BY <2>1, <2>2
<1> QED BY <1>1, <1>2, <1>3, <1>4

-----------------------------------------------------------------------------
(* The invariant.                                                          *)

(* What PipelineInv says of a request that has been interpreted.           *)
LEMMA Interpreted ==
  ASSUME PipelineInv, state # "received"
  PROVE  /\ kind = Classify(utterance) /\ kind \in IntentKind /\ refused \in BOOLEAN
         /\ plan = PlanFor(kind, refused)
         /\ Len(plan) \in Nat /\ DOMAIN plan = 1..Len(plan)
<1>1. kind = Classify(utterance) /\ refused \in BOOLEAN /\ plan = PlanFor(kind, refused)
  BY DEF PipelineInv
<1>2. kind \in IntentKind  BY <1>1, ClassifyKind
<1>3. Len(PlanFor(kind, refused)) \in {1, 4} /\ DOMAIN PlanFor(kind, refused) = 1..Len(PlanFor(kind, refused))
  BY <1>1, <1>2, PlanShapes
<1> QED BY <1>1, <1>2, <1>3

(* Every step keeps the invariant.                                         *)
LEMMA PipelineStep ==
  ASSUME PipelineInv, [Next]_vars
  PROVE  PipelineInv'
<1>1. CASE Interpret
  <2>1. /\ state' = "planned" /\ ran' = << >> /\ UNCHANGED <<utterance, refused>>
        /\ kind' = Classify(utterance) /\ plan' = PlanFor(kind', refused)
    BY <1>1 DEF Interpret, PipelineInv, Executions
  <2>2. ran' \in Seq(ResultsOfPlan')  BY <2>1
  <2> QED BY <2>1, <2>2 DEF PipelineInv, Executions
<1>2. CASE Gate
  <2>1. /\ state = "planned" /\ UNCHANGED <<utterance, refused, kind, plan, ran>>
        /\ state' = CASE VerdictFor(plan, refused) = "deny"             -> "denied"
                      [] VerdictFor(plan, refused) = "require_approval" -> "awaiting_approval"
                      [] OTHER                                          -> "executing"
    BY <1>2 DEF Gate
  <2>2. VerdictFor(plan, refused) \in {"deny", "require_approval", "allow"}
    BY DEF VerdictFor, Verdict
  <2>3. UNCHANGED ResultsOfPlan  BY <2>1 DEF ResultsOfPlan
  <2> QED BY <2>1, <2>2, <2>3 DEF PipelineInv, Executions
<1>3. CASE Run
  <2>1. /\ state = "executing" /\ Len(ran) < Len(plan)
        /\ \E result \in ResultsOf(plan[Len(ran) + 1].capability) : ran' = Append(ran, result)
        /\ UNCHANGED <<utterance, refused, state, kind, plan>>
    BY <1>3 DEF Run, StepDue, Capability
  <2>2. Len(plan) \in Nat /\ DOMAIN plan = 1..Len(plan)  BY <2>1, Interpreted
  <2>3. PICK R : R = ResultsOfPlan  OBVIOUS
  <2>4. ran \in Seq(R)  BY <2>3 DEF PipelineInv
  <2>5. Len(ran) + 1 \in DOMAIN plan  BY <2>1, <2>2, <2>4
  <2>6. PICK result \in R : ran' = Append(ran, result)
    BY <2>1, <2>3, <2>5 DEF ResultsOfPlan
  <2>7. ran' \in Seq(R)  BY <2>4, <2>6
  <2>8. ResultsOfPlan' = R  BY <2>1, <2>3 DEF ResultsOfPlan
  <2> QED BY <2>1, <2>7, <2>8 DEF PipelineInv, Executions
<1>4. CASE Finish \/ Raise
  <2>1. /\ state = "executing" /\ state' \in {"completed", "failed", "raised"}
        /\ UNCHANGED <<utterance, refused, kind, plan, ran>>
    BY <1>4 DEF Finish, Raise, StepDue
  <2>2. UNCHANGED ResultsOfPlan  BY <2>1 DEF ResultsOfPlan
  <2> QED BY <2>1, <2>2 DEF PipelineInv, Executions
<1>5. CASE UNCHANGED vars
  <2>1. UNCHANGED ResultsOfPlan  BY <1>5 DEF vars, ResultsOfPlan
  <2> QED BY <1>5, <2>1 DEF vars, PipelineInv
<1> QED BY <1>1, <1>2, <1>3, <1>4, <1>5 DEF Next

(* A request is where its plan and the verdict on it have brought it.      *)
THEOREM PipelineInvariant == Spec => []PipelineInv
<1>1. Init => PipelineInv
  <2> SUFFICES ASSUME Init PROVE PipelineInv  OBVIOUS
  <2>1. PICK R : R = ResultsOfPlan  OBVIOUS
  <2>2. << >> \in Seq(R)  OBVIOUS
  <2>3. ran = << >>  BY DEF Init
  <2> QED BY <2>1, <2>2, <2>3 DEF Init, PipelineInv, Executions
<1>2. PipelineInv /\ [Next]_vars => PipelineInv'  BY PipelineStep
<1> QED BY <1>1, <1>2, PTL DEF Spec

-----------------------------------------------------------------------------
(* What the request may run.                                               *)

(* A result names the capability it is of.                                 *)
LEMMA ResultNamed ==
  ASSUME NEW c, NEW x \in ResultsOf(c)
  PROVE  x.capability = c
<1>1. x \in {Verified(c), FailedNoEvidence(c), FailedEvidence(c)}  BY DEF ResultsOf
<1> QED BY <1>1 DEF Verified, FailedNoEvidence, FailedEvidence, StepResult

(* Whatever was run is a step of a plan the policy allows.                 *)
LEMMA ExecutedAllowed ==
  ASSUME PipelineInv, NEW c \in Executed
  PROVE  /\ VerdictFor(plan, refused) = "allow" /\ state # "received"
         /\ \E i \in DOMAIN plan : c = plan[i].capability
<1>1. PICK R : R = ResultsOfPlan  OBVIOUS
<1>2. ran \in Seq(R)  BY <1>1 DEF PipelineInv
<1>3. PICK result \in R : c = result.capability /\ ran # << >>  BY <1>2 DEF Executed
<1>4. state \in Executions  BY <1>3 DEF PipelineInv
<1>5. PICK i \in DOMAIN plan : result \in ResultsOf(plan[i].capability)
  BY <1>1 DEF ResultsOfPlan
<1>6. c = plan[i].capability  BY <1>3, <1>5, ResultNamed
<1> QED BY <1>4, <1>6 DEF PipelineInv, Executions

(* create_task runs nothing that needs an approval or that the registry    *)
(* does not know, whatever the words of the request.                       *)
THEOREM NoEffectUngated == Spec => []EffectsAreGated
<1>1. PipelineInv => EffectsAreGated
  <2> SUFFICES ASSUME PipelineInv, NEW c \in Executed
               PROVE  c \in Registered /\ ~NeedsApproval(c)
    BY DEF EffectsAreGated
  <2>1. /\ VerdictFor(plan, refused) = "allow" /\ state # "received"
        /\ \E i \in DOMAIN plan : c = plan[i].capability
    BY ExecutedAllowed
  <2>2. Verdict(plan) = "allow"  BY <2>1 DEF VerdictFor
  <2> QED BY <2>1, <2>2, VerdictOnSteps
<1> QED BY <1>1, PipelineInvariant, PTL

(* A request for a transfer, a publication or a trade executes nothing     *)
(* before an approval but the answer to a question about Nexuss that is    *)
(* also in it, and waits for an approval only of a note or of Notepad that *)
(* it also asks for (the order of the branches of classify_intent).        *)
THEOREM ForbiddenRunsNothing == Spec => []ForbiddenRequestsRunNothing
<1>1. PipelineInv => ForbiddenRequestsRunNothing
  <2> SUFFICES ASSUME PipelineInv, Mentions(utterance)
               PROVE  /\ Executed \subseteq {"assistant.respond"}
                      /\ Executed # {} => utterance \cap Questions # {}
                      /\ state = "awaiting_approval"
                           => utterance \cap {"note form", "open notepad"} # {}
    BY DEF ForbiddenRequestsRunNothing
  <2>1. \/ Classify(utterance) \in ForbiddenKinds
        \/ Classify(utterance) \in AnswerKinds /\ utterance \cap Questions # {}
        \/ /\ Classify(utterance) \in {"create_note", "launch_notepad"}
           /\ utterance \cap {"note form", "open notepad"} # {}
    BY ForbiddenClassified
  <2>2. ASSUME NEW c \in Executed
        PROVE  c = "assistant.respond" /\ utterance \cap Questions # {}
    <3>1. /\ VerdictFor(plan, refused) = "allow" /\ state # "received"
          /\ \E i \in DOMAIN plan : c = plan[i].capability
      BY ExecutedAllowed
    <3>2. /\ kind = Classify(utterance) /\ kind \in IntentKind /\ refused \in BOOLEAN
          /\ plan = PlanFor(kind, refused)
      BY <3>1, Interpreted
    <3>3. kind \in AnswerKinds \cup AllowedReads /\ plan = PlanOf(kind)
      BY <3>1, <3>2, VerdictKinds
    <3>4. kind \in AnswerKinds /\ utterance \cap Questions # {}
      BY <2>1, <3>2, <3>3 DEF AnswerKinds, AllowedReads, ForbiddenKinds
    <3>5. DOMAIN plan = {1} /\ plan[1].capability = "assistant.respond"  BY <3>3, <3>4, AnswerPlan
    <3> QED BY <3>1, <3>4, <3>5
  <2>3. ASSUME state = "awaiting_approval"
        PROVE  utterance \cap {"note form", "open notepad"} # {}
    <3>1. /\ kind = Classify(utterance) /\ kind \in IntentKind /\ refused \in BOOLEAN
          /\ plan = PlanFor(kind, refused) /\ VerdictFor(plan, refused) = "require_approval"
      BY <2>3, Interpreted DEF PipelineInv
    <3>2. kind \in {"create_note", "launch_notepad"}  BY <3>1, VerdictKinds
    <3> QED BY <2>1, <3>1, <3>2 DEF AnswerKinds, ForbiddenKinds
  <2> QED BY <2>2, <2>3
<1> QED BY <1>1, PipelineInvariant, PTL

(* A question about Nexuss that is not a note is never denied.             *)
THEOREM QuestionsGetAnswers == Spec => []QuestionsAreAnswered
<1>1. PipelineInv => QuestionsAreAnswered
  <2> SUFFICES ASSUME PipelineInv, "note form" \notin utterance,
                      utterance \cap Questions # {},
                      state = "denied"
               PROVE  FALSE
    BY DEF QuestionsAreAnswered
  <2>1. kind = Classify(utterance) /\ plan = PlanFor(kind, refused)  BY Interpreted
  <2>2. kind \in AnswerKinds  BY <2>1, QuestionClassified
  <2>3. ~refused  BY DEF PipelineInv
  <2>4. plan = PlanOf(kind)  BY <2>1, <2>3 DEF PlanFor
  <2>5. Verdict(plan) = "allow"  BY <2>2, <2>4, AnswerPlan
  <2>6. VerdictFor(plan, refused) = "deny"  BY DEF PipelineInv
  <2> QED BY <2>3, <2>5, <2>6 DEF VerdictFor
<1> QED BY <1>1, PipelineInvariant, PTL

(* What is shown for an approval, taken from the first step of the plan,   *)
(* is all that the approval lets run.                                      *)
THEOREM ApprovalIsOfPlan == Spec => []ApprovalCoversPlan
<1>1. PipelineInv => ApprovalCoversPlan
  <2> SUFFICES ASSUME PipelineInv, state = "awaiting_approval"
               PROVE  /\ NeedsApproval(plan[1].capability)
                      /\ plan[1].risk = Registry[plan[1].capability].risk
                      /\ plan[1].reversible = Registry[plan[1].capability].reversible
                      /\ \A i \in 2..Len(plan) : ~NeedsApproval(plan[i].capability)
    BY DEF ApprovalCoversPlan
  <2>1. /\ kind \in IntentKind /\ refused \in BOOLEAN /\ plan = PlanFor(kind, refused)
        /\ VerdictFor(plan, refused) = "require_approval"
    BY Interpreted DEF PipelineInv
  <2>2. kind \in {"create_note", "launch_notepad"} /\ plan = PlanOf(kind)
    BY <2>1, VerdictKinds
  <2>3. PICK c \in {"workspace.create_note", "device.launch_notepad"} :
          /\ Len(plan) = 1 /\ NeedsApproval(plan[1].capability)
          /\ plan[1].capability = c /\ plan[1].reversible = TRUE
          /\ plan[1].risk = Registry[c].risk /\ Registry[c].reversible = TRUE
    BY <2>2, ApprovalPlan
  <2>4. 2..Len(plan) = {}  BY <2>3
  <2>5. plan[1].reversible = Registry[plan[1].capability].reversible
    BY ONLY <2>3, Zenon
  <2>6. NeedsApproval(plan[1].capability) /\ plan[1].risk = Registry[plan[1].capability].risk
    BY ONLY <2>3
  <2> QED BY <2>4, <2>5, <2>6
<1> QED BY <1>1, PipelineInvariant, PTL

(* What runs has an executor for every step, and promises no undo that the *)
(* registry does not know.                                                 *)
THEOREM AllowedPlansComplete == Spec => []AllowedPlansCanComplete
<1>1. PipelineInv => AllowedPlansCanComplete
  <2> SUFFICES ASSUME PipelineInv, state = "executing", NEW i \in DOMAIN plan
               PROVE  /\ Verified(plan[i].capability) \in ResultsOf(plan[i].capability)
                      /\ plan[i].reversible => Registry[plan[i].capability].reversible
    BY DEF AllowedPlansCanComplete
  <2>1. /\ kind \in IntentKind /\ refused \in BOOLEAN /\ plan = PlanFor(kind, refused)
        /\ VerdictFor(plan, refused) = "allow"
    BY Interpreted DEF PipelineInv
  <2>2. kind \in AnswerKinds \cup AllowedReads /\ plan = PlanOf(kind)  BY <2>1, VerdictKinds
  <2>3. /\ plan[i].capability \in SimulatedReads \cup {"workspace.read_status", "assistant.respond"}
        /\ plan[i].reversible = FALSE
    <3>1. CASE kind \in AnswerKinds  BY <2>2, <3>1, AnswerPlan
    <3>2. CASE kind \in AllowedReads  BY <2>2, <3>2, ReadPlan
    <3> QED BY <2>2, <3>1, <3>2
  <2>4. PICK c : c = plan[i].capability  OBVIOUS
  <2>5. Verified(c) \in ResultsOf(c)
    BY <2>3, <2>4 DEF ResultsOf, SimulatorTable, SimulatedReads
  <2> QED BY <2>3, <2>4, <2>5
<1> QED BY <1>1, PipelineInvariant, PTL
=============================================================================
