--------------------------- MODULE MCCoreService ---------------------------
(* Finite instances of CoreService for TLC.                                *)
EXTENDS CoreService

CONSTANTS r1, r2, s1, s2, todo, bad, plain

MCSessions == {s1, s2}
MCContents == {todo, bad, plain}

Note       == [kind |-> "create_note", content |-> todo]
BadNote    == [kind |-> "create_note", content |-> bad]
Notepad    == [kind |-> "launch_notepad", content |-> plain]
Briefing   == [kind |-> "daily_briefing", content |-> plain]

(* A controlled write, a device command, a plan of several steps, a note   *)
(* that is refused.                                                        *)
MCIntents  == {Note, Notepad, Briefing, BadNote}
(* The two that need an approval.                                          *)
Effectful  == {Note, Notepad}

Symmetric  == Permutations({r1, r2}) \cup Permutations({s1, s2})
=============================================================================
