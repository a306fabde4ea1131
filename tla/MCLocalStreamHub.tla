-------------------------- MODULE MCLocalStreamHub --------------------------
(***************************************************************************)
(* Instances of LocalStreamHub for TLC.                                    *)
(***************************************************************************)
EXTENDS LocalStreamHub, TLC

CONSTANTS s1, s2, s3, a1, a2, a3, i1, i2

OneStream   == s1 :> i1
TwoSameId   == s1 :> i1 @@ s2 :> i1
ThreeStreams == s1 :> i1 @@ s2 :> i1 @@ s3 :> i2

Symmetry == Permutations(Acceptors)

=============================================================================
