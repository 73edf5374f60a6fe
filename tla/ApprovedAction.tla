--------------------------- MODULE ApprovedAction ---------------------------
(***************************************************************************)
(* What Nexuss Core promises about the actions it is asked for, without    *)
(* sessions, tokens, plans, events or receipts.  An action that needs an   *)
(* approval waits for it, runs at most as often as it is granted, is over  *)
(* once it is refused, fails, or is undone, and only an action that was    *)
(* approved is ever undone.  One action runs at a time.                    *)
(***************************************************************************)
CONSTANT Actions

VARIABLES
  phase,   \* where every action is: absent, waiting, acting, refused, done,
           \* failed, undoing or undone
  gated    \* the actions that went through an approval

Busy == \E a \in Actions : phase[a] \in {"acting", "undoing"}

Init == /\ phase = [a \in Actions |-> "absent"]
        /\ gated = {}

Move(a, from, to) == /\ phase[a] = from
                     /\ phase' = [phase EXCEPT ![a] = to]

Deny(a)     == ~Busy /\ Move(a, "absent", "refused") /\ UNCHANGED gated
Ask(a)      == ~Busy /\ Move(a, "absent", "waiting") /\ gated' = gated \cup {a}
Begin(a)    == ~Busy /\ Move(a, "absent", "acting")  /\ UNCHANGED gated
Grant(a)    == ~Busy /\ Move(a, "waiting", "acting") /\ UNCHANGED gated
Decline(a)  == ~Busy /\ Move(a, "waiting", "refused") /\ UNCHANGED gated
Succeed(a)  == Move(a, "acting", "done")   /\ UNCHANGED gated
Fail(a)     == Move(a, "acting", "failed") /\ UNCHANGED gated
(* Interrupted: as if it had not been granted, or not been asked for.      *)
Abort(a)    == /\ Move(a, "acting", IF a \in gated THEN "waiting" ELSE "absent")
               /\ UNCHANGED gated
Undo(a)     == ~Busy /\ a \in gated /\ Move(a, "done", "undoing") /\ UNCHANGED gated
Undone(a)   == Move(a, "undoing", "undone") /\ UNCHANGED gated
UndoFails(a) == Move(a, "undoing", "failed") /\ UNCHANGED gated
UndoAborts(a) == Move(a, "undoing", "done") /\ UNCHANGED gated

Forget == /\ phase' = [a \in Actions |-> "absent"]
          /\ gated' = {}

Next == \/ \E a \in Actions :
             \/ Deny(a) \/ Ask(a) \/ Begin(a) \/ Grant(a) \/ Decline(a)
             \/ Succeed(a) \/ Fail(a) \/ Abort(a)
             \/ Undo(a) \/ Undone(a) \/ UndoFails(a) \/ UndoAborts(a)
        \/ Forget

Spec == Init /\ [][Next]_<<phase, gated>>
=============================================================================
