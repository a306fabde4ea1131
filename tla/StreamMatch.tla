----------------------------- MODULE StreamMatch -----------------------------
(***************************************************************************)
(* What the two matchmakers of the program promise, RendezvousMap for      *)
(* tensor streams between nodes and LocalStreamHub for streams inside one  *)
(* node: a stream offered under an id goes to at most one acceptor, which  *)
(* asked for that id, and it is lost only if somebody gave cause for it:   *)
(* an acceptor of the id gave up waiting, or the id was offered again      *)
(* while an earlier stream of it was still on offer.                       *)
(***************************************************************************)
CONSTANTS Streams, Acceptors, Ids, NoId, idOf

VARIABLES stream, \* "new", "offered", "taken" or "lost"
          asked,  \* the id an acceptor is asking for, or NoId
          cause   \* the ids for which somebody gave cause for a loss

match == <<stream, asked, cause>>

Init ==
    /\ stream = [s \in Streams |-> "new"]
    /\ asked = [a \in Acceptors |-> NoId]
    /\ cause = {}

Offered(i) == {s \in Streams : idOf[s] = i /\ stream[s] = "offered"}

Ask(a, i) ==
    /\ asked[a] = NoId
    /\ asked' = [asked EXCEPT ![a] = i]
    /\ UNCHANGED <<stream, cause>>

\* A call may find its stream at once: Ask and Take in one step.
Take(a, s) ==
    /\ stream[s] = "offered"
    /\ asked[a] \in {NoId, idOf[s]}
    /\ stream' = [stream EXCEPT ![s] = "taken"]
    /\ asked' = [asked EXCEPT ![a] = NoId]
    /\ UNCHANGED cause

\* A stream arrives; it may be lost on the spot, or displace others.
Offer(s) ==
    /\ stream[s] = "new"
    /\ cause' = cause \cup (IF Offered(idOf[s]) = {} THEN {} ELSE {idOf[s]})
    /\ \E outcome \in {"offered", "lost"}, displaced \in SUBSET Offered(idOf[s]) :
          /\ outcome = "lost" => idOf[s] \in cause'
          /\ stream' = [r \in Streams |-> IF r = s THEN outcome
                                          ELSE IF r \in displaced THEN "lost" ELSE stream[r]]
    /\ UNCHANGED asked

Lose(s) ==
    /\ stream[s] = "offered" /\ idOf[s] \in cause
    /\ stream' = [stream EXCEPT ![s] = "lost"]
    /\ UNCHANGED <<asked, cause>>

\* The acceptor times out, or its place is taken by another acceptor.
Leave(a, gaveUp) ==
    /\ asked[a] # NoId
    /\ asked' = [asked EXCEPT ![a] = NoId]
    /\ cause' = cause \cup gaveUp
    /\ UNCHANGED stream

Next ==
    \/ \E a \in Acceptors, i \in Ids : Ask(a, i)
    \/ \E a \in Acceptors, s \in Streams : Take(a, s)
    \/ \E s \in Streams : Offer(s) \/ Lose(s)
    \/ \E a \in Acceptors : Leave(a, {}) \/ Leave(a, {asked[a]})

Spec == Init /\ [][Next]_match

=============================================================================
