----------------------------- MODULE MCOzonSync -----------------------------
(* Instances of OzonSync: see the .cfg files for the bounds.               *)
EXTENDS OzonSync, TLC

\* Callers are interchangeable.
CallerSymmetry == Permutations(Caller)
=============================================================================
