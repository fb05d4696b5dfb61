--------------------------- MODULE MCSignerService ---------------------------
(***************************************************************************)
(* Instances of SignerService for TLC; the sets are given by the cfgs.     *)
(***************************************************************************)
EXTENDS SignerService, TLC

\* Requests in flight are interchangeable.
Symmetry == Permutations(Worker)
=============================================================================
