-------------------------- MODULE MCDesktopConsole --------------------------
EXTENDS DesktopConsole

CONSTANTS p1, p2, d1

(* One command for the phone and another instruction; two for the phone.   *)
OnePhone == {p1}
Mixed    == {p1, d1}
TwoPhone == {p1, p2}
=============================================================================
