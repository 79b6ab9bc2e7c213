------------------------- MODULE MCSessionRegistry -------------------------
(* Instances of SessionRegistry for TLC. *)
EXTENDS SessionRegistry, TLC

\* Root ids are interchangeable, and so are child ids (safety runs only).
RegistrySymmetry == Permutations(Roots) \cup Permutations(Children)
=============================================================================
