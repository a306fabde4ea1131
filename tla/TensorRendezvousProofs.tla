------------------------ MODULE TensorRendezvousProofs ------------------------
(***************************************************************************)
(* Proofs about TensorRendezvous, for any streams, acceptors and ids.      *)
(***************************************************************************)
EXTENDS TensorRendezvous, TLAPS

\* A stream is in exactly one place: in stock under its id, or in the oneshot
\* of one acceptor of its id, or nowhere.
OnePlace ==
    /\ \A s \in Streams : stream[s] = "stocked" <=> pending_inbound[idOf[s]] = s
    /\ \A s \in Streams : stream[s] = "sent" <=> \E a \in Acceptors : inbox[a] = s
    /\ \A a \in Acceptors : inbox[a] # None => idOf[inbox[a]] = want[a]
    /\ \A a, b \in Acceptors : inbox[a] = inbox[b] /\ inbox[a] # None => a = b
    /\ \A i \in Ids : pending_inbound[i] # None => idOf[pending_inbound[i]] = i

\* A sender in the map whose receiver is gone was left by a timeout.
LeftByTimeout ==
    \A i \in Ids : pending_accept[i] # None /\ ~Listening(pending_accept[i], i) => i \in cause

\* The sender of the call an acceptor waits in has not been used yet.
SenderUnused ==
    \A a \in Acceptors : want[a] # NoId /\ pending_accept[want[a]] = a => inbox[a] = None

IInv == TypeOK /\ NoStreamWhileAwaited /\ OnePlace /\ LeftByTimeout /\ SenderUnused

\* The initial state of RendezvousMap::new satisfies the invariant.
LEMMA InitIInv == Init => IInv
  BY RendezvousConstants
  DEF Init, IInv, TypeOK, NoStreamWhileAwaited, OnePlace, LeftByTimeout, SenderUnused, Listening

\* Every step of the event loop and of accept_tensor_stream keeps it.
LEMMA NextIInv == IInv /\ [Next]_vars => IInv'
<1> SUFFICES ASSUME IInv, [Next]_vars PROVE IInv'
  OBVIOUS
<1> USE RendezvousConstants
<1>1. ASSUME NEW s \in Streams, HandshakeFails(s) PROVE IInv'
  BY <1>1 DEF HandshakeFails, IInv, TypeOK, NoStreamWhileAwaited, OnePlace, LeftByTimeout, SenderUnused, Listening
<1>2. ASSUME NEW s \in Streams, insert_inbound(s) PROVE IInv'
  <2> DEFINE i == idOf[s]
             a == pending_accept[i]
  <2>0. i \in Ids /\ stream[s] = "new" /\ want' = want /\ cause' \subseteq Ids /\ cause \subseteq cause'
    BY <1>2 DEF insert_inbound, IInv, TypeOK
  <2>1. CASE a # None /\ Deliver(s, a)
    <3>1. a \in Acceptors
      BY <2>0, <2>1 DEF IInv, TypeOK
    <3>2. CASE Listening(a, i)
      <4>1. inbox[a] = None
        BY <2>0, <3>1, <3>2 DEF Listening, IInv, SenderUnused
      <4>2. /\ inbox' = [inbox EXCEPT ![a] = s] /\ stream' = [stream EXCEPT ![s] = "sent"]
            /\ pending_accept' = [pending_accept EXCEPT ![i] = None]
            /\ pending_inbound' = pending_inbound
        BY <2>1, <3>2 DEF Deliver
      <4>3. TypeOK' /\ NoStreamWhileAwaited'
        BY <2>0, <3>1, <4>2 DEF IInv, TypeOK, NoStreamWhileAwaited
      <4>4. OnePlace'
        <5>1. \A b \in Acceptors : inbox[b] # s
          BY <2>0 DEF IInv, TypeOK, OnePlace
        <5>2. \A b \in Acceptors : inbox'[b] = IF b = a THEN s ELSE inbox[b]
          BY <3>1, <4>2 DEF IInv, TypeOK
        <5>3. \A r \in Streams : stream'[r] = IF r = s THEN "sent" ELSE stream[r]
          BY <4>2 DEF IInv, TypeOK
        <5>4. \A r \in Streams : stream'[r] = "sent" <=> \E b \in Acceptors : inbox'[b] = r
          BY <3>1, <4>1, <5>1, <5>2, <5>3 DEF IInv, OnePlace
        <5>5. \A b \in Acceptors : inbox'[b] # None => idOf[inbox'[b]] = want'[b]
          BY <2>0, <3>2, <5>2 DEF IInv, OnePlace, Listening
        <5>6. \A b, c \in Acceptors : inbox'[b] = inbox'[c] /\ inbox'[b] # None => b = c
          BY <5>1, <5>2 DEF IInv, OnePlace
        <5>7. \A r \in Streams : stream'[r] = "stocked" <=> pending_inbound'[idOf[r]] = r
          BY <2>0, <4>2, <5>3 DEF IInv, OnePlace
        <5> QED BY <4>2, <5>4, <5>5, <5>6, <5>7 DEF IInv, OnePlace
      <4>5. LeftByTimeout' /\ SenderUnused'
        BY <2>0, <3>1, <3>2, <4>2 DEF IInv, TypeOK, LeftByTimeout, SenderUnused, Listening
      <4> QED BY <4>3, <4>4, <4>5 DEF IInv
    <3>3. CASE ~Listening(a, i)
      <4>1. /\ inbox' = inbox /\ stream' = [stream EXCEPT ![s] = "lost"]
            /\ pending_accept' = [pending_accept EXCEPT ![i] = None]
            /\ pending_inbound' = pending_inbound
        BY <2>1, <3>3 DEF Deliver
      <4> QED
        BY <2>0, <4>1 DEF IInv, TypeOK, NoStreamWhileAwaited, OnePlace, LeftByTimeout, SenderUnused, Listening
    <3> QED BY <3>2, <3>3
  <2>2. CASE a = None /\ Stock(s)
    <3>1. TypeOK' /\ NoStreamWhileAwaited'
      BY <2>0, <2>2 DEF Stock, IInv, TypeOK, NoStreamWhileAwaited
    <3>2. OnePlace'
      BY <2>0, <2>2 DEF Stock, IInv, TypeOK, OnePlace
    <3>3. LeftByTimeout' /\ SenderUnused'
      BY <2>0, <2>2 DEF Stock, IInv, TypeOK, LeftByTimeout, SenderUnused, Listening
    <3> QED BY <3>1, <3>2, <3>3 DEF IInv
  <2> QED BY <1>2, <2>1, <2>2 DEF insert_inbound
<1>3. ASSUME NEW a \in Acceptors, NEW i \in Ids, register_accept(a, i) PROVE IInv'
  <2>0. want[a] = NoId /\ inbox[a] = None /\ cause' = cause /\ want' = [want EXCEPT ![a] = i]
    BY <1>3 DEF register_accept, IInv, TypeOK, OnePlace
  <2>1. CASE TakeStocked(a, i)
    <3>1. pending_accept[i] = None /\ pending_inbound[i] \in Streams
      BY <2>1 DEF TakeStocked, IInv, TypeOK, NoStreamWhileAwaited
    <3>2. TypeOK' /\ NoStreamWhileAwaited'
      BY <2>0, <2>1, <3>1 DEF TakeStocked, IInv, TypeOK, NoStreamWhileAwaited
    <3>3. OnePlace'
      BY <2>0, <2>1, <3>1 DEF TakeStocked, IInv, TypeOK, OnePlace
    <3>4. LeftByTimeout' /\ SenderUnused'
      BY <2>0, <2>1, <3>1 DEF TakeStocked, IInv, TypeOK, LeftByTimeout, SenderUnused, Listening
    <3> QED BY <3>2, <3>3, <3>4 DEF IInv
  <2>2. CASE Await(a, i)
    <3>1. TypeOK' /\ NoStreamWhileAwaited' /\ OnePlace'
      BY <2>0, <2>2 DEF Await, IInv, TypeOK, NoStreamWhileAwaited, OnePlace
    <3>2. LeftByTimeout' /\ SenderUnused'
      BY <2>0, <2>2 DEF Await, IInv, TypeOK, LeftByTimeout, SenderUnused, Listening
    <3> QED BY <3>1, <3>2 DEF IInv
  <2> QED BY <1>3, <2>1, <2>2 DEF register_accept
<1>4. ASSUME NEW a \in Acceptors, Receive(a) PROVE IInv'
  <2>1. TypeOK' /\ NoStreamWhileAwaited'
    BY <1>4 DEF Receive, Return, IInv, TypeOK, NoStreamWhileAwaited
  <2>2. OnePlace'
    BY <1>4 DEF Receive, Return, IInv, TypeOK, OnePlace
  <2>3. LeftByTimeout' /\ SenderUnused'
    BY <1>4 DEF Receive, Return, IInv, TypeOK, LeftByTimeout, SenderUnused, Listening
  <2> QED BY <2>1, <2>2, <2>3 DEF IInv
<1>5. ASSUME NEW a \in Acceptors, SenderDropped(a) \/ Timeout(a) PROVE IInv'
  <2>1. TypeOK' /\ NoStreamWhileAwaited'
    BY <1>5 DEF SenderDropped, Timeout, Return, IInv, TypeOK, NoStreamWhileAwaited
  <2>2. OnePlace'
    BY <1>5 DEF SenderDropped, Timeout, Return, IInv, TypeOK, OnePlace
  <2>3. LeftByTimeout' /\ SenderUnused'
    BY <1>5 DEF SenderDropped, Timeout, Return, IInv, TypeOK, LeftByTimeout, SenderUnused, Listening
  <2> QED BY <2>1, <2>2, <2>3 DEF IInv
<1>6. CASE UNCHANGED vars
  BY <1>6 DEF vars, IInv, TypeOK, NoStreamWhileAwaited, OnePlace, LeftByTimeout, SenderUnused, Listening
<1> QED BY <1>1, <1>2, <1>3, <1>4, <1>5, <1>6 DEF Next

\* The strengthened invariant holds in every reachable state.
THEOREM Invariance == Spec => []IInv
  BY InitIInv, NextIInv, PTL DEF Spec

\* No stream is in stock under an id that an acceptor is registered for: the
\* critical sections of insert_inbound and register_accept exclude it for any
\* number of nodes' streams and any number of accepting tasks.
THEOREM NeverBothWait == Spec => []NoStreamWhileAwaited
  BY Invariance, PTL DEF IInv

(***************************************************************************)
(* The map implements the matchmaker: every step is one of StreamMatch, or *)
(* leaves what StreamMatch sees unchanged.                                 *)
(***************************************************************************)
\* The initial state maps to an initial state of the matchmaker.
LEMMA InitMaps == Init => Matchmaker!Init
  BY DEF Init, Matchmaker!Init, offered

\* What insert_inbound does is an Offer, with a loss only for a cause.
LEMMA InsertMaps ==
    ASSUME IInv, NEW s \in Streams, insert_inbound(s) PROVE Matchmaker!Offer(s)
<1> USE RendezvousConstants
<1> DEFINE i == idOf[s]
           a == pending_accept[i]
<1>0. i \in Ids /\ stream[s] = "new" /\ want' = want /\ offered[s] = "new"
  BY DEF insert_inbound, IInv, TypeOK, offered
<1>1. Matchmaker!Offered(i) = OnOffer(i)
  BY DEF Matchmaker!Offered, OnOffer, offered, IInv, TypeOK
<1>2. cause' = cause \cup (IF Matchmaker!Offered(i) = {} THEN {} ELSE {i})
  BY <1>1 DEF insert_inbound
<1> DEFINE nobody == {r \in Streams : FALSE}
<1>nb. nobody \in SUBSET Matchmaker!Offered(i)
  OBVIOUS
<1>3. \E outcome \in {"offered", "lost"}, displaced \in SUBSET Matchmaker!Offered(i) :
         /\ outcome = "lost" => i \in cause'
         /\ offered' = [r \in Streams |-> IF r = s THEN outcome
                                         ELSE IF r \in displaced THEN "lost" ELSE offered[r]]
  <2>1. CASE a # None /\ Deliver(s, a) /\ Listening(a, i)
    <3>1. stream' = [stream EXCEPT ![s] = "sent"]
      BY <2>1 DEF Deliver
    <3>2. offered' = [r \in Streams |-> IF r = s THEN "offered"
                                       ELSE IF r \in nobody THEN "lost" ELSE offered[r]]
      BY <3>1 DEF offered, IInv, TypeOK
    <3> HIDE DEF nobody
    <3> QED BY <1>nb, <3>2
  <2>2. CASE a # None /\ Deliver(s, a) /\ ~Listening(a, i)
    <3>1. stream' = [stream EXCEPT ![s] = "lost"]
      BY <2>2 DEF Deliver
    <3>2. offered' = [r \in Streams |-> IF r = s THEN "lost"
                                       ELSE IF r \in nobody THEN "lost" ELSE offered[r]]
      BY <3>1 DEF offered, IInv, TypeOK
    <3>3. i \in cause'
      BY <1>0, <1>2, <2>2 DEF IInv, LeftByTimeout
    <3> HIDE DEF nobody
    <3> QED BY <1>nb, <3>2, <3>3
  <2>3. CASE a = None /\ Stock(s)
    <3> DEFINE old == {r \in Streams : r = pending_inbound[i]}
    <3>1. old \in SUBSET Matchmaker!Offered(i)
      BY <1>0, <1>1 DEF OnOffer, IInv, TypeOK, OnePlace
    <3>2. stream' = [r \in Streams |-> IF r = s THEN "stocked"
                                      ELSE IF r \in old THEN "lost" ELSE stream[r]]
      BY <2>3 DEF Stock
    <3>3. offered' = [r \in Streams |-> IF r = s THEN "offered"
                                       ELSE IF r \in old THEN "lost" ELSE offered[r]]
      <4> HIDE DEF old
      <4> QED BY <3>2 DEF offered, IInv, TypeOK
    <3> HIDE DEF old
    <3> QED BY <3>1, <3>3
  <2> QED BY <2>1, <2>2, <2>3 DEF insert_inbound
<1> QED BY <1>0, <1>2, <1>3 DEF Matchmaker!Offer

\* Every step of the map is a step of the matchmaker, or a stutter.
LEMMA StepMaps == IInv /\ [Next]_vars => [Matchmaker!Next]_(Matchmaker!match)
<1> SUFFICES ASSUME IInv, [Next]_vars PROVE [Matchmaker!Next]_(Matchmaker!match)
  OBVIOUS
<1> USE RendezvousConstants
<1>1. ASSUME NEW s \in Streams, HandshakeFails(s) PROVE UNCHANGED Matchmaker!match
  <2>1. offered' = offered
    BY <1>1 DEF HandshakeFails, offered, IInv, TypeOK
  <2> QED BY <1>1, <2>1 DEF HandshakeFails, Matchmaker!match
<1>2. ASSUME NEW s \in Streams, insert_inbound(s) PROVE Matchmaker!Next
  BY <1>2, InsertMaps DEF Matchmaker!Next
<1>3. ASSUME NEW a \in Acceptors, NEW i \in Ids, register_accept(a, i) PROVE Matchmaker!Next
  <2>1. offered' = offered
    <3>1. CASE TakeStocked(a, i)
      <4>1. pending_inbound[i] \in Streams /\ stream[pending_inbound[i]] = "stocked"
        BY <3>1 DEF TakeStocked, IInv, TypeOK, OnePlace
      <4> QED BY <3>1, <4>1 DEF TakeStocked, offered, IInv, TypeOK
    <3>2. CASE Await(a, i)
      BY <3>2 DEF Await, offered
    <3> QED BY <1>3, <3>1, <3>2 DEF register_accept
  <2>2. Matchmaker!Ask(a, i)
    BY <1>3, <2>1 DEF register_accept, Matchmaker!Ask
  <2> QED BY <2>2 DEF Matchmaker!Next
<1>4. ASSUME NEW a \in Acceptors, Receive(a) PROVE Matchmaker!Next
  <2>1. PICK s \in Streams : s = inbox[a]
    BY <1>4 DEF Receive, IInv, TypeOK
  <2>2. stream[s] = "sent" /\ idOf[s] = want[a]
    BY <1>4, <2>1 DEF Receive, IInv, TypeOK, OnePlace
  <2>3. stream' = [stream EXCEPT ![s] = "taken"]
    BY <1>4, <2>1 DEF Receive
  <2>4. offered[s] = "offered" /\ offered' = [offered EXCEPT ![s] = "taken"]
    BY <2>2, <2>3 DEF offered, IInv, TypeOK
  <2>5. Matchmaker!Take(a, s)
    BY <1>4, <2>2, <2>4 DEF Receive, Return, Matchmaker!Take
  <2> QED BY <2>5 DEF Matchmaker!Next
<1>5. ASSUME NEW a \in Acceptors, SenderDropped(a) PROVE Matchmaker!Next
  <2>1. offered' = offered
    BY <1>5 DEF SenderDropped, offered
  <2>2. Matchmaker!Leave(a, {})
    BY <1>5, <2>1 DEF SenderDropped, Return, Matchmaker!Leave
  <2> QED BY <2>2 DEF Matchmaker!Next
<1>6. ASSUME NEW a \in Acceptors, Timeout(a) PROVE Matchmaker!Next
  <2>1. offered' = offered
    BY <1>6 DEF Timeout, offered
  <2>2. Matchmaker!Leave(a, {want[a]})
    BY <1>6, <2>1 DEF Timeout, Return, Matchmaker!Leave
  <2> QED BY <2>2 DEF Matchmaker!Next
<1>7. CASE UNCHANGED vars
  <2>1. offered' = offered
    BY <1>7 DEF vars, offered
  <2> QED BY <1>7, <2>1 DEF vars, Matchmaker!match
<1> QED BY <1>1, <1>2, <1>3, <1>4, <1>5, <1>6, <1>7 DEF Next

\* RendezvousMap with accept_tensor_stream implements the matchmaker, for any
\* streams, acceptors and inference ids: each stream goes to at most one
\* acceptor of its id, and is lost only after a timeout of an accept of that
\* id or a second stream of it.
THEOREM RendezvousImplementsMatchmaker == Spec => ImplementsMatchmaker
  BY Invariance, InitMaps, StepMaps, PTL DEF Spec, ImplementsMatchmaker, Matchmaker!Spec

=============================================================================
