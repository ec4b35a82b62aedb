-------------------------- MODULE MCAccountAccess --------------------------
(* An organization of up to three people, two of whom are edited at once. *)
EXTENDS AccountAccess, TLC

CONSTANTS u1, u2, u3, c1, c2

\* All but the founder are interchangeable, and so are the edits.
Same == Permutations({u2, u3} \cap Users) \cup Permutations(Calls)
=============================================================================
