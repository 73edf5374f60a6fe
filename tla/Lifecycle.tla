----------------------------- MODULE Lifecycle -----------------------------
(***************************************************************************)
(* The Nexuss task state contract (core/state_machine.py): the states a    *)
(* task may be in, the transition table, and what it means for the event   *)
(* trail of a task to respect that table.                                  *)
(***************************************************************************)
EXTENDS Naturals, Sequences

TaskState == {"received", "planned", "awaiting_approval", "approved",
              "executing", "verifying", "completed", "partially_completed",
              "denied", "failed", "rolling_back", "rolled_back"}

(* The successors of each state; a state not listed has none.              *)
AllowedTransitions(s) ==
  CASE s = "received"            -> {"planned", "failed"}
    [] s = "planned"             -> {"awaiting_approval", "executing", "denied", "failed"}
    [] s = "awaiting_approval"   -> {"approved", "denied", "failed"}
    [] s = "approved"            -> {"executing", "failed"}
    [] s = "executing"           -> {"verifying", "failed", "partially_completed"}
    [] s = "verifying"           -> {"completed", "failed", "partially_completed"}
    [] s = "completed"           -> {"rolling_back"}
    [] s = "rolling_back"        -> {"rolled_back", "failed"}
    [] s = "partially_completed" -> {"rolling_back"}
    [] OTHER                     -> {}

(* validate_transition raises unless this holds.                           *)
ValidTransition(current, target) == target \in AllowedTransitions(current)

-----------------------------------------------------------------------------
(* A trail of states starts at a freshly received task and takes only      *)
(* steps of the table.                                                     *)
LegalTrail(trail) ==
  /\ trail # << >>
  /\ trail[1] = "received"
  /\ \A i \in 2..Len(trail) : ValidTransition(trail[i - 1], trail[i])

(* How often a trail enters a state.                                       *)
Occurrences(trail, s) == {i \in DOMAIN trail : trail[i] = s}
=============================================================================
