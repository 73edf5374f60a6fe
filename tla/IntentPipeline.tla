--------------------------- MODULE IntentPipeline ---------------------------
(***************************************************************************)
(* The way of one utterance through classify_intent, build_plan,           *)
(* evaluate_step and create_task's verdict, up to what is run.             *)
(*                                                                         *)
(* An utterance is the set of the phrase groups classify_intent looks for  *)
(* that occur in it.  Every combination is an utterance: the groups are    *)
(* matched as substrings, so phrases can be strung together freely.        *)
(***************************************************************************)
EXTENDS Lifecycle, Capabilities, FiniteSetsExt

CONSTANT MaxPhrases   \* bound on the phrase groups of one utterance

ASSUME PhrasesAssumption == MaxPhrases \in Nat

VARIABLES
  utterance,  \* the phrase groups that occur in the request
  refused,    \* prepare_note refuses the title or the content
  state,      \* how far the request has come
  kind,       \* the classified intent
  plan,       \* its plan
  ran         \* the results of the steps executed so far, in order

vars == <<utterance, refused, state, kind, plan, ran>>

Phrases ==
  {"note form", "who are you", "what can you do", "help", "open notepad",
   "send money", "publish", "ats", "buy or sell", "workspace", "repository",
   "check status", "daily briefing", "prepare", "health", "play", "media"}

(* A rule applies to an utterance that has a phrase of each of its groups. *)
Rule(groups, intent) == [groups |-> groups, intent |-> intent]

Applies(rule, u) == \A group \in rule.groups : group \cap u # {}

Conversation == << Rule({{"note form"}},       "create_note"),
                   Rule({{"who are you"}},     "assistant_identity"),
                   Rule({{"what can you do"}}, "assistant_capabilities"),
                   Rule({{"help"}},            "assistant_help"),
                   Rule({{"open notepad"}},    "launch_notepad") >>
Forbidden    == << Rule({{"send money"}},             "financial_transfer"),
                   Rule({{"publish"}},                "social_publish"),
                   Rule({{"ats"}, {"buy or sell"}},   "ats_write") >>
Reads        == << Rule({{"workspace", "repository"}, {"check status"}},
                                                      "local_workspace_status"),
                   Rule({{"daily briefing"}},         "daily_briefing"),
                   Rule({{"prepare"}, {"workspace"}}, "prepare_workspace"),
                   Rule({{"ats"}},                    "ats_read"),
                   Rule({{"health"}},                 "system_health"),
                   Rule({{"play"}, {"media"}},        "play_media") >>

(* Mutant: the reads are tried before the forbidden actions.               *)
RulesReadsFirst == Conversation \o Reads \o Forbidden

(* Mutant: the forbidden actions are tried before the conversation.        *)
RulesForbiddenFirst == Forbidden \o Conversation \o Reads

(* The order of the branches of classify_intent.                           *)
Rules == Conversation \o Forbidden \o Reads

(* The first rule that applies decides.                                    *)
Classify(u) ==
  LET hits == {i \in DOMAIN Rules : Applies(Rules[i], u)}
  IN  IF hits = {} THEN "unknown" ELSE Rules[Min(hits)].intent

(* Mutant: a note plan also opens Notepad, under the same approval.        *)
PlanAppended(i, bad) ==
  IF i = "create_note" THEN PlanOf(i) \o PlanOf("launch_notepad") ELSE PlanOf(i)

PlanFor(i, bad) == IF i = "create_note" /\ bad THEN InvalidNotePlan ELSE PlanOf(i)

(* Mutant: an approval is only asked for what is marked high risk.         *)
VerdictByRisk(p, bad) ==
  IF bad THEN "deny"
  ELSE IF \E i \in DOMAIN p : p[i].risk = "high" THEN Verdict(p)
  ELSE IF "deny" \in Outcomes(p) THEN "deny" ELSE "allow"

VerdictFor(p, bad) == IF bad THEN "deny" ELSE Verdict(p)

-----------------------------------------------------------------------------
Init ==
  /\ utterance \in UNION {kSubset(n, Phrases) : n \in 0..MaxPhrases}
  /\ refused \in BOOLEAN
  /\ refused => "note form" \in utterance
  /\ state = "received"
  /\ kind = "unknown"
  /\ plan = << >>
  /\ ran = << >>

Interpret ==
  /\ state = "received"
  /\ state' = "planned"
  /\ kind' = Classify(utterance)
  /\ plan' = PlanFor(kind', refused)
  /\ UNCHANGED <<utterance, refused, ran>>

Gate ==
  /\ state = "planned"
  /\ state' = CASE VerdictFor(plan, refused) = "deny"             -> "denied"
                [] VerdictFor(plan, refused) = "require_approval" -> "awaiting_approval"
                [] OTHER                                          -> "executing"
  /\ UNCHANGED <<utterance, refused, kind, plan, ran>>

StepDue    == state = "executing" /\ Len(ran) < Len(plan)
Capability == plan[Len(ran) + 1].capability

(* The next step returns a result; one that failed does not stop the rest. *)
Run ==
  /\ StepDue
  /\ \E result \in ResultsOf(Capability) : ran' = Append(ran, result)
  /\ UNCHANGED <<utterance, refused, state, kind, plan>>

(* Every step returned: the request is completed if each result is         *)
(* verified and carries evidence.                                          *)
Finish ==
  /\ state = "executing"
  /\ ~StepDue
  /\ state' = IF \A i \in DOMAIN ran : ran[i].status = "verified" /\ ran[i].evidence
                THEN "completed" ELSE "failed"
  /\ UNCHANGED <<utterance, refused, kind, plan, ran>>

(* Reading the workspace raises an error that is not handled, and the      *)
(* request ends without a task.  (The handled ManagedNoteError comes from  *)
(* notes alone, which are not executed before an approval.)                *)
Raise ==
  /\ StepDue
  /\ Capability = "workspace.read_status"
  /\ state' = "raised"
  /\ UNCHANGED <<utterance, refused, kind, plan, ran>>

Next == Interpret \/ Gate \/ Run \/ Finish \/ Raise

Spec == Init /\ [][Next]_vars

-----------------------------------------------------------------------------
(* Properties.                                                             *)

Executed == {ran[i].capability : i \in DOMAIN ran}

(* No utterance, however phrased, makes create_task itself run anything    *)
(* with an effect: what needs an approval, or is unknown to the registry,  *)
(* is not run on this way (P3 requirements 2 and 4, P4 requirement 7).     *)
EffectsAreGated ==
  \A c \in Executed : c \in Registered /\ ~NeedsApproval(c)

Questions == {"who are you", "what can you do", "help"}

(* What is asked for in u includes a transfer, a publication or a trade.   *)
Mentions(u) == \/ "send money" \in u
               \/ "publish" \in u
               \/ {"ats", "buy or sell"} \subseteq u

(* Before an approval, a request for one of these executes nothing, or, if *)
(* it also asks about Nexuss, the answer to that question; and it waits    *)
(* for an approval only if it also asks for a note or for Notepad.         *)
ForbiddenRequestsRunNothing ==
  Mentions(utterance) =>
    /\ Executed \subseteq {"assistant.respond"}
    /\ Executed # {} => utterance \cap Questions # {}
    /\ state = "awaiting_approval" => utterance \cap {"note form", "open notepad"} # {}

(* Questions about Nexuss itself are answered and never treated as         *)
(* prohibited actions (P3 requirement 1).                                  *)
QuestionsAreAnswered ==
  /\ "note form" \notin utterance
  /\ utterance \cap Questions # {}
  => state # "denied"

(* The approval shown to the user is built from the first step alone, but  *)
(* its grant runs the whole plan: no later step may need an approval, and  *)
(* risk and reversibility shown are those of the registry.                 *)
ApprovalCoversPlan ==
  state = "awaiting_approval" =>
    /\ NeedsApproval(plan[1].capability)
    /\ plan[1].risk = Registry[plan[1].capability].risk
    /\ plan[1].reversible = Registry[plan[1].capability].reversible
    /\ \A i \in 2..Len(plan) : ~NeedsApproval(plan[i].capability)

(* A plan that may run has an executor for each of its steps, and promises *)
(* no undo for a step the registry calls irreversible.                     *)
AllowedPlansCanComplete ==
  state = "executing" =>
    \A i \in DOMAIN plan :
      /\ Verified(plan[i].capability) \in ResultsOf(plan[i].capability)
      /\ plan[i].reversible => Registry[plan[i].capability].reversible
=============================================================================
