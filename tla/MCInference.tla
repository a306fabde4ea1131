----------------------------- MODULE MCInference -----------------------------
(***************************************************************************)
(* Instances of Inference for TLC.                                         *)
(***************************************************************************)
EXTENDS Inference, TLC

CONSTANTS t1, t2

\* A .gguf file as it is usually written.
AsUsual == <<TokenEmbd>> \o [i \in 1..Blocks |-> i] \o <<OutputNorm>>

\* One session, on node 0.
Host0   == [t \in Threads |-> 0]
Id1     == [t \in Threads |-> 1]

Hold(one, two, three, four) == 0 :> {Whole} @@ 1 :> one @@ 2 :> two @@ 3 :> three @@ 4 :> four

\* Three workers of two layers each.  Node 2 has two files that overlap: the
\* wider one has its layers, or neither of them has both.
Wider   == Hold({Whole}, {<<1, 2>>, <<2, 5>>}, {Whole}, {})
Neither == Hold({Whole}, {<<0, 2>>, <<2, 3>>}, {Whole}, {})

\* One worker; four, some of which have one layer only; no other node.
One     == Hold({Whole}, {}, {}, {})
Four    == Hold({Whole}, {Whole}, {Whole}, {Whole})
Nobody  == Hold({}, {}, {}, {})

\* Two sessions, on nodes 0 and 2, with different ids.  Their pipelines share
\* node 1, and on node 0 a worker of the second accepts its stream beside the
\* coordinator of the first.
Hosts02 == t1 :> 0 @@ t2 :> 2
Ids12   == t1 :> 1 @@ t2 :> 2
SharedOnly == {0 :> {Whole} @@ 1 :> {Whole} @@ 2 :> {}}

AllPlacements == {Wider, Neither, One, Four, Nobody}
=============================================================================
