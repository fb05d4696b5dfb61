----------------------------- MODULE MCDefaults -----------------------------
(* Instances of Defaults for TLC. *)
EXTENDS Defaults, TLC

\* Products and workers are interchangeable; the providers the seeder names are not.
MCSymmetry == Permutations(Software) \cup Permutations(Worker)
=============================================================================
