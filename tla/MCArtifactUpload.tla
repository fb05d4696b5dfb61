-------------------------- MODULE MCArtifactUpload --------------------------
(***************************************************************************)
(* Instances of ArtifactUpload for TLC; the sets are given by the cfgs.    *)
(***************************************************************************)
EXTENDS ArtifactUpload, TLC

\* Upload ids and requests are interchangeable.
Symmetry == Permutations(Upload) \cup Permutations(Worker)
=============================================================================
