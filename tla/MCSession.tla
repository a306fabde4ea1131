------------------------------ MODULE MCSession ------------------------------
(***************************************************************************)
(* Instances of Session for TLC.                                           *)
(***************************************************************************)
EXTENDS Session, TLC

CONSTANTS c1, c2, c3, r1, r2, r3

ThreeOfOne == r1 :> c1 @@ r2 :> c1 @@ r3 :> c1
TwoAndOne  == r1 :> c1 @@ r2 :> c1 @@ r3 :> c2

=============================================================================
