---------------------------- MODULE MCDeviceNode ----------------------------
(* Two tasks, each with its own command.                                   *)
EXTENDS DeviceNode, TLC

CONSTANTS editor, notes

MCTasks   == {editor, notes}
Symmetric == Permutations(MCTasks)
=============================================================================
