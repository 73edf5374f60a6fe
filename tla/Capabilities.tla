---------------------------- MODULE Capabilities ----------------------------
(***************************************************************************)
(* The pure decision tables of Nexuss Core: the capability registry, the   *)
(* deterministic planner, the fail-closed policy evaluation of one plan    *)
(* step, and the set of results each capability can return when it is      *)
(* executed.                                                               *)
(***************************************************************************)
EXTENDS Naturals, Sequences, FiniteSets

IntentKind ==
  {"assistant_identity", "assistant_capabilities", "assistant_help",
   "daily_briefing", "system_health", "local_workspace_status", "create_note",
   "launch_notepad", "prepare_workspace", "play_media", "ats_read",
   "ats_write", "financial_transfer", "social_publish", "unknown"}

Risk    == {"informational", "low", "medium", "high", "critical"}
Channel == {"desktop", "phone"}

-----------------------------------------------------------------------------
(* The registry (core/registry.py).                                        *)

SimulatedReads == {"calendar.read_summary", "email.read_summary",
                   "github.read_summary", "ats.read_health",
                   "ats.read_intelligence"}
NoteCapabilities   == {"workspace.create_note", "workspace.rollback_create_note"}
DeviceCapabilities == {"device.launch_notepad", "device.rollback_launch_notepad"}

Registered == {"assistant.respond", "workspace.read_status"}
                \cup NoteCapabilities \cup DeviceCapabilities \cup SimulatedReads

(* approval_channel defaults to the desktop when a manifest names none.    *)
ManifestChannel(c) == IF c \in DeviceCapabilities THEN "phone" ELSE "desktop"

Registry ==
  [c \in Registered |->
     [risk       |-> CASE c = "assistant.respond"    -> "informational"
                       [] c \in NoteCapabilities     -> "medium"
                       [] c \in DeviceCapabilities   -> "high"
                       [] OTHER                      -> "low",
      policy     |-> IF c \in NoteCapabilities \cup DeviceCapabilities
                       THEN "explicit" ELSE "none",
      reversible |-> c \in {"workspace.create_note", "device.launch_notepad"},
      status     |-> IF c \in SimulatedReads THEN "simulated" ELSE "active",
      channel    |-> ManifestChannel(c)]]

-----------------------------------------------------------------------------
(* The planner (core/planner.py): the steps an intent is turned into.      *)

PlanStep(capability, risk, reversible) ==
  [capability |-> capability, risk |-> risk, reversible |-> reversible]

PlanOf(kind) ==
  CASE kind \in {"assistant_identity", "assistant_capabilities", "assistant_help"}
         -> << PlanStep("assistant.respond", "informational", FALSE) >>
    [] kind = "create_note"
         -> << PlanStep("workspace.create_note", "medium", TRUE) >>
    [] kind = "launch_notepad"
         -> << PlanStep("device.launch_notepad", "high", TRUE) >>
    [] kind = "daily_briefing"
         -> << PlanStep("calendar.read_summary", "low", FALSE),
               PlanStep("email.read_summary", "low", FALSE),
               PlanStep("github.read_summary", "low", FALSE),
               PlanStep("ats.read_health", "low", FALSE) >>
    [] kind = "system_health"
         -> << PlanStep("nexuss.read_health", "low", FALSE) >>
    [] kind = "local_workspace_status"
         -> << PlanStep("workspace.read_status", "low", FALSE) >>
    [] kind = "prepare_workspace"
         -> << PlanStep("device.workspace.prepare", "medium", TRUE) >>
    [] kind = "play_media"
         -> << PlanStep("media.prepare_playback", "low", FALSE) >>
    [] kind = "ats_read"
         -> << PlanStep("ats.read_intelligence", "low", FALSE) >>
    [] kind = "ats_write"
         -> << PlanStep("ats.write_order", "critical", FALSE) >>
    [] kind = "financial_transfer"
         -> << PlanStep("finance.transfer", "critical", FALSE) >>
    [] kind = "social_publish"
         -> << PlanStep("social.publish", "high", FALSE) >>
    [] kind = "unknown"
         -> << PlanStep("nexuss.unsupported", "high", FALSE) >>

(* The plan recorded for a note whose title or content was refused.        *)
InvalidNotePlan == << PlanStep("workspace.create_note", "medium", FALSE) >>

-----------------------------------------------------------------------------
(* The policy (core/policy.py).                                            *)

ProhibitedCapabilities ==
  {"ats.write_order", "finance.transfer", "social.publish",
   "nexuss.unsupported", "device.workspace.prepare"}

NeedsApproval(c) == c \in Registered /\ Registry[c].policy = "explicit"

EvaluateStep(step) ==
  IF \/ step.capability \in ProhibitedCapabilities
     \/ step.capability \notin Registered
     \/ Registry[step.capability].status = "prohibited"
    THEN "deny"
  ELSE IF Registry[step.capability].policy = "explicit" THEN "require_approval"
  ELSE IF Registry[step.capability].policy = "none"     THEN "allow"
  ELSE "deny"

Outcomes(plan) == {EvaluateStep(plan[i]) : i \in DOMAIN plan}

(* How create_task combines the decisions on the single steps.             *)
Verdict(plan) ==
  IF "deny" \in Outcomes(plan) THEN "deny"
  ELSE IF "require_approval" \in Outcomes(plan) THEN "require_approval"
  ELSE "allow"

-----------------------------------------------------------------------------
(* The executors (core/executor.py, core/simulator.py).                    *)

(* Mutant: one simulated read has no entry.                                *)
SimulatorTableShort ==
  (SimulatedReads \ {"ats.read_health"}) \cup {"nexuss.read_health", "media.prepare_playback"}

SimulatorTable == SimulatedReads \cup {"nexuss.read_health", "media.prepare_playback"}

StepStatus == {"verified", "skipped", "failed", "rolled_back"}

StepResult(capability, status, evidence) ==
  [capability |-> capability, status |-> status, evidence |-> evidence]

Verified(c)          == StepResult(c, "verified", TRUE)
FailedNoEvidence(c)  == StepResult(c, "failed", FALSE)
FailedEvidence(c)    == StepResult(c, "failed", TRUE)

(* What execute_step may return: a device launch fails without evidence    *)
(* when the node refuses or cannot be reached, and with evidence when the  *)
(* process it reports is not running.                                      *)
ResultsOf(c) ==
  CASE c = "device.launch_notepad" -> {Verified(c), FailedNoEvidence(c), FailedEvidence(c)}
    [] c = "workspace.read_status" -> {Verified(c), FailedNoEvidence(c)}
    [] c \in {"assistant.respond", "workspace.create_note"} \cup SimulatorTable
                                   -> {Verified(c)}
    [] OTHER                       -> {FailedNoEvidence(c)}

(* The capabilities whose result can be undone, as rollback_task and       *)
(* _record_receipt list them.                                              *)
UndoableCapabilities == {"workspace.create_note", "device.launch_notepad"}

(* Mutant: the undo is recorded under an id the registry does not list.    *)
UndoOfUnregistered(c) == "nexuss.rollback"

UndoOf(c) == IF c = "workspace.create_note" THEN "workspace.rollback_create_note"
                                            ELSE "device.rollback_launch_notepad"
=============================================================================
