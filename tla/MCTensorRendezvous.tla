------------------------- MODULE MCTensorRendezvous -------------------------
(***************************************************************************)
(* Instances of TensorRendezvous for TLC.                                  *)
(***************************************************************************)
EXTENDS TensorRendezvous, TLC

CONSTANTS s1, s2, s3, s4, i1, i2

OneStream   == s1 :> i1
FourStreams == s1 :> i1 @@ s2 :> i1 @@ s3 :> i1 @@ s4 :> i2

Symmetry == Permutations(Acceptors) \cup Permutations({s1, s2, s3})

=============================================================================
