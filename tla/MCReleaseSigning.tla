-------------------------- MODULE MCReleaseSigning --------------------------
(***************************************************************************)
(* Instances of ReleaseSigning for TLC; the sets are given by the cfgs.    *)
(***************************************************************************)
EXTENDS ReleaseSigning, TLC

\* Workers are interchangeable, and so are the ids of keys, products and versions:
\* the initial states treat them alike and no definition names one.
Symmetry == Permutations(Key) \cup Permutations(Worker) \cup Permutations(Software)
            \cup Permutations(Version)
=============================================================================
