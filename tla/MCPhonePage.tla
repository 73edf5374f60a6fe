----------------------------- MODULE MCPhonePage ----------------------------
(* Two commands of one session and a desktop session without any.          *)
EXTENDS PhonePage, TLC

MCOwner == (1 :> "mine") @@ (2 :> "mine")
=============================================================================
