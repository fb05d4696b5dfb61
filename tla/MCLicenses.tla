----------------------------- MODULE MCLicenses -----------------------------
(* Instances of Licenses for TLC. *)
EXTENDS Licenses, TLC

MCSymmetry == UNION {Permutations(S) : S \in {License, Activation, Machine, Key, Worker}}
=============================================================================
