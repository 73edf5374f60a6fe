--------------------------- MODULE MCManagedNotes ---------------------------
(* Two tasks that ask for the same note and one that asks for another      *)
(* content under the same title.                                           *)
EXTENDS ManagedNotes

MCTasks     == {"first", "again", "other"}
MCContentOf == [t \in MCTasks |-> IF t = "other" THEN "milk" ELSE "todo"]

(* Only two of them, where others act between any two system calls.        *)
MCPair       == {"first", "other"}
MCPairContentOf == [t \in MCPair |-> MCContentOf[t]]
=============================================================================
