----------------------------- MODULE MCObjectWrite -----------------------------
(* Small instances of ObjectWrite for TLC. *)
EXTENDS ObjectWrite, TLC

Symmetry == Permutations(Puts) \cup Permutations(Ids)

================================================================================
