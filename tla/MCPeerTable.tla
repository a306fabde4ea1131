----------------------------- MODULE MCPeerTable -----------------------------
(***************************************************************************)
(* Instances of PeerTable for TLC.                                         *)
(***************************************************************************)
EXTENDS PeerTable, TLC

CONSTANTS p1, p2, l1, l2, t1, t2, m1

\* Both nodes dial: two connections between p1 and p2.  All commands are given
\* to p1, whose entry in the table of p2 is at stake; the other direction is the
\* same with the nodes exchanged.
TwoLinks   == l1 :> <<p1, p2>> @@ l2 :> <<p2, p1>>
AllAtFirst == t1 :> p1 @@ t2 :> p1

\* The user of p1 may give it a name with a '|'.
FirstMayBePiped == p1 :> {"plain", "piped"} @@ p2 :> {"plain"}

Symmetry == Permutations({t1, t2})

=============================================================================
