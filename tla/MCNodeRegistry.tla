--------------------------- MODULE MCNodeRegistry ---------------------------
(* Small instances of NodeRegistry for TLC. *)
EXTENDS NodeRegistry, TLC

Symmetry == Permutations(Handlers) \cup Permutations(Tokens)
=============================================================================
