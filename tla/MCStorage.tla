------------------------------ MODULE MCStorage ------------------------------
(***************************************************************************)
(* Instances of Storage for TLC.                                           *)
(***************************************************************************)
EXTENDS Storage, TLC

CONSTANTS f1, f2, t1, t2, t3, k1, k2, k3, k4, k5

\* No raw .gguf file; or f1 is one and f2 is the .pgguf it is converted into.
NoConversion == <<>>
ConvertF1    == f1 :> f2

\* Tasks and lock objects are interchangeable; files are not (OnDisk,
\* ModelFiles and ExternalFiles tell them apart).
Symmetry == Permutations(Tasks) \cup Permutations(LockIds)

=============================================================================
