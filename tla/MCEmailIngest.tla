--------------------------- MODULE MCEmailIngest ---------------------------
(* A mail, and two answers to it. *)
EXTENDS EmailIngest, TLC

CONSTANTS m1, m2, m3, w1, w2

Thread == (m1 :> None) @@ (m2 :> m1) @@ (m3 :> m2)
=============================================================================
