--------------------------- MODULE TensorRendezvous ---------------------------
(***************************************************************************)
(* RendezvousMap (Src/Network/Tensor_Stream/rendezvous.rs) and             *)
(* accept_tensor_stream (Src/Network/capability.rs): the network event     *)
(* loop brings in tensor streams of other nodes, tasks of this node accept *)
(* them by inference id.  One mutex covers the whole map, so each of       *)
(* insert_inbound and register_accept is one step.  Nobody calls           *)
(* register_notify, so the map `notifiers` stays empty and is left out.    *)
(***************************************************************************)
CONSTANTS Streams,   \* the inbound streams, each arrives once
          Acceptors, \* tasks that call accept_tensor_stream, again and again
          Ids, NoId, None,
          idOf       \* the inference id in the handshake of each stream

ASSUME RendezvousConstants ==
    /\ NoId \notin Ids
    /\ None \notin Streams \cup Acceptors
    /\ idOf \in [Streams -> Ids]

VARIABLES
    pending_inbound, \* the stream stocked under each id, or None
    pending_accept,  \* the acceptor whose oneshot sender is there, or None
    stream,          \* where each stream is
    want,            \* the id an acceptor is waiting for, or NoId
    inbox,           \* what has been sent into its oneshot
    cause            \* history: ids with a timeout, or brought in again while on offer

vars == <<pending_inbound, pending_accept, stream, want, inbox, cause>>

Init ==
    /\ pending_inbound = [i \in Ids |-> None]
    /\ pending_accept = [i \in Ids |-> None]
    /\ stream = [s \in Streams |-> "new"]
    /\ want = [a \in Acceptors |-> NoId]
    /\ inbox = [a \in Acceptors |-> None]
    /\ cause = {}

OnOffer(i) == {s \in Streams : idOf[s] = i /\ stream[s] \in {"stocked", "sent"}}

\* The acceptor waits on the receiver of the sender under id i.  It has a
\* sender in the map for each call that timed out too, so the map alone does
\* not say whether the receiver is still there: it is if the acceptor waits
\* for i, because the call it waits in has put its own sender there.
Listening(a, i) == want[a] = i

\* The read of the handshake fails and the event loop drops the stream.
HandshakeFails(s) ==
    /\ stream[s] = "new"
    /\ stream' = [stream EXCEPT ![s] = "refused"]
    /\ UNCHANGED <<pending_inbound, pending_accept, want, inbox, cause>>

\* Hand the stream to the sender under its id; if the receiver is gone, the
\* send fails and drops the stream.
Deliver(s, a) ==
    /\ pending_accept' = [pending_accept EXCEPT ![idOf[s]] = None]
    /\ \/ /\ Listening(a, idOf[s])
          /\ inbox' = [inbox EXCEPT ![a] = s]
          /\ stream' = [stream EXCEPT ![s] = "sent"]
       \/ /\ ~Listening(a, idOf[s])
          /\ stream' = [stream EXCEPT ![s] = "lost"]
          /\ UNCHANGED inbox
    /\ UNCHANGED pending_inbound

\* Stock the stream, dropping the one that was stocked under its id.
Stock(s) ==
    /\ stream' = [r \in Streams |-> IF r = s THEN "stocked"
                                    ELSE IF r = pending_inbound[idOf[s]] THEN "lost"
                                    ELSE stream[r]]
    /\ pending_inbound' = [pending_inbound EXCEPT ![idOf[s]] = s]
    /\ UNCHANGED <<pending_accept, inbox>>

insert_inbound(s) ==
    LET i == idOf[s]
        a == pending_accept[i]
    IN  /\ stream[s] = "new"
        /\ \/ a # None /\ Deliver(s, a)
           \/ a = None /\ Stock(s)
        /\ cause' = cause \cup (IF OnOffer(i) = {} THEN {} ELSE {i})
        /\ UNCHANGED want

\* Wrong variant: a sender is left in the map though the stream was there.
TakeAndRegister(a, i) ==
    /\ pending_inbound[i] # None
    /\ pending_inbound' = [pending_inbound EXCEPT ![i] = None]
    /\ stream' = [stream EXCEPT ![pending_inbound[i]] = "sent"]
    /\ inbox' = [inbox EXCEPT ![a] = pending_inbound[i]]
    /\ pending_accept' = [pending_accept EXCEPT ![i] = a]

\* register_accept finds the stream: it comes out of the oneshot at once.
TakeStocked(a, i) ==
    /\ pending_inbound[i] # None
    /\ pending_inbound' = [pending_inbound EXCEPT ![i] = None]
    /\ stream' = [stream EXCEPT ![pending_inbound[i]] = "sent"]
    /\ inbox' = [inbox EXCEPT ![a] = pending_inbound[i]]
    /\ UNCHANGED pending_accept

\* Wrong variant: the stock is not looked at.
AwaitAlways(a, i) ==
    /\ pending_accept' = [pending_accept EXCEPT ![i] = a]
    /\ UNCHANGED <<pending_inbound, stream, inbox>>

\* The new sender replaces, and drops, the one of an earlier call.
Await(a, i) ==
    /\ pending_inbound[i] = None
    /\ pending_accept' = [pending_accept EXCEPT ![i] = a]
    /\ UNCHANGED <<pending_inbound, stream, inbox>>

register_accept(a, i) ==
    /\ want[a] = NoId
    /\ want' = [want EXCEPT ![a] = i]
    /\ TakeStocked(a, i) \/ Await(a, i)
    /\ UNCHANGED cause

Return(a) ==
    /\ want' = [want EXCEPT ![a] = NoId]
    /\ inbox' = [inbox EXCEPT ![a] = None]
    /\ UNCHANGED <<pending_inbound, pending_accept>>

Receive(a) ==
    /\ want[a] # NoId /\ inbox[a] # None
    /\ Return(a)
    /\ stream' = [stream EXCEPT ![inbox[a]] = "taken"]
    /\ UNCHANGED cause

\* "rendezvous sender dropped": a later call for the id took the place.
SenderDropped(a) ==
    /\ want[a] # NoId /\ inbox[a] = None /\ pending_accept[want[a]] # a
    /\ Return(a)
    /\ UNCHANGED <<stream, cause>>

\* The timeout drops the receiver and leaves the sender in the map.
Timeout(a) ==
    /\ want[a] # NoId /\ inbox[a] = None /\ pending_accept[want[a]] = a
    /\ Return(a)
    /\ cause' = cause \cup {want[a]}
    /\ UNCHANGED stream

Next ==
    \/ \E s \in Streams : HandshakeFails(s) \/ insert_inbound(s)
    \/ \E a \in Acceptors, i \in Ids : register_accept(a, i)
    \/ \E a \in Acceptors : Receive(a) \/ SenderDropped(a) \/ Timeout(a)

Spec == Init /\ [][Next]_vars

(***************************************************************************)
(* Properties.                                                             *)
(***************************************************************************)
\* Variables have their types.
TypeOK ==
    /\ pending_inbound \in [Ids -> Streams \cup {None}]
    /\ pending_accept \in [Ids -> Acceptors \cup {None}]
    /\ stream \in [Streams -> {"new", "refused", "stocked", "sent", "taken", "lost"}]
    /\ want \in [Acceptors -> Ids \cup {NoId}]
    /\ inbox \in [Acceptors -> Streams \cup {None}]
    /\ cause \subseteq Ids

\* insert_inbound and register_accept never leave a stream in stock under an
\* id that somebody is registered for: they would wait for each other.
NoStreamWhileAwaited ==
    \A i \in Ids : pending_inbound[i] # None => pending_accept[i] = None

\* Where the matchmaker of StreamMatch sees each stream.
offered == [s \in Streams |-> IF stream[s] \in {"stocked", "sent"} THEN "offered"
                              ELSE IF stream[s] = "refused" THEN "new" ELSE stream[s]]

Matchmaker == INSTANCE StreamMatch WITH stream <- offered, asked <- want

\* The map is a matchmaker: a stream goes to at most one acceptor of its id,
\* and none is lost unless a call for the id timed out or the id was brought
\* in twice at a time.
ImplementsMatchmaker == Matchmaker!Spec

=============================================================================
