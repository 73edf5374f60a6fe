----------------------------- MODULE MCPhoneApi -----------------------------
(* Two owners, two codes, one command, two requests at once.               *)
EXTENDS PhoneApi, TLC

CONSTANTS s1, s2, c1, c2, h1, t1, t2, a1

Symmetric == Permutations({s1, s2}) \cup Permutations({c1, c2})
               \cup Permutations({t1, t2})
=============================================================================
