------------------------- MODULE LocalStreamHubProofs -------------------------
(***************************************************************************)
(* Proofs about LocalStreamHub, for any streams, acceptors and ids.        *)
(***************************************************************************)
EXTENDS LocalStreamHub, TLAPS

\* An acceptor has an id exactly while it is in a call.
InCall == \A a \in Acceptors : pc[a] = "Idle" <=> want[a] = NoId

\* A sender in `notifiers` is that of a call of its id, which waits for it or
\* has just timed out; the oneshot of a sender that is still there is unused.
SenderOfCall ==
    \A i \in Ids : notifiers[i] # None =>
        /\ pc[notifiers[i]] \in {"Waiting", "Cleanup"}
        /\ want[notifiers[i]] = i
        /\ inbox[notifiers[i]] = None

\* A call that cleans up after itself has given cause.
TimeoutIsCause == \A a \in Acceptors : pc[a] = "Cleanup" => want[a] \in cause

\* A oneshot holds a stream of the id its acceptor waits for, and no other
\* oneshot holds it.
InboxOfId ==
    /\ \A a \in Acceptors : inbox[a] # None =>
          pc[a] = "Waiting" /\ stream[inbox[a]] = "sent" /\ idOf[inbox[a]] = want[a]
    /\ \A a, b \in Acceptors : inbox[a] = inbox[b] /\ inbox[a] # None => a = b

\* Two streams are on offer under one id only if the second open gave cause.
SecondIsCause ==
    \A r, s \in Streams :
        r # s /\ idOf[r] = idOf[s] /\ r \in OnOffer(idOf[r]) /\ s \in OnOffer(idOf[s])
            => idOf[s] \in cause

\* A stream is stored under its own id.
PendingOfId == \A i \in Ids : pending[i] # None => idOf[pending[i]] = i

IInv == /\ TypeOK /\ InCall /\ SenderOfCall /\ TimeoutIsCause
        /\ InboxOfId /\ SecondIsCause /\ PendingOfId

\* The initial state of LocalStreamHub::new satisfies the invariant.
LEMMA InitIInv == Init => IInv
  BY HubConstants
  DEF Init, IInv, TypeOK, InCall, SenderOfCall, TimeoutIsCause, InboxOfId, SecondIsCause, PendingOfId, OnOffer

\* A sender taken out of `notifiers` is that of an acceptor.
LEMMA SenderIsAcceptor ==
    ASSUME TypeOK, NEW i \in Ids, notifiers[i] # None PROVE notifiers[i] \in Acceptors
  BY DEF TypeOK

\* open keeps the invariant, whichever of its three ends it takes.
LEMMA OpenIInv == ASSUME IInv, NEW s \in Streams, Open(s) PROVE IInv'
<1> USE HubConstants
<1> DEFINE i == idOf[s]
           a == notifiers[i]
<1>0. /\ i \in Ids /\ stream[s] = "new" /\ cause' = cause \cup (IF OnOffer(i) = {} THEN {} ELSE {i})
      /\ cause' \subseteq Ids /\ cause \subseteq cause'
      /\ pending' = pending /\ pc' = pc /\ want' = want
  BY DEF Open, IInv, TypeOK
<1>1. \A r \in Streams : r # s /\ idOf[r] = i /\ r \in OnOffer(i) => i \in cause'
  BY <1>0
<1>2. ASSUME NEW at \in {"sent", "lost", "storing"}, stream' = [stream EXCEPT ![s] = at]
      PROVE SecondIsCause' /\ PendingOfId'
  <2>1. \A r \in Streams : stream'[r] = IF r = s THEN at ELSE stream[r]
    BY <1>2 DEF IInv, TypeOK
  <2>2. ASSUME NEW r \in Streams, NEW q \in Streams, r # q, idOf[r] = idOf[q],
               r \in OnOffer(idOf[r])', q \in OnOffer(idOf[q])'
        PROVE idOf[q] \in cause'
    <3>1. CASE r = s
      BY <1>1, <2>1, <2>2, <3>1 DEF OnOffer
    <3>2. CASE q = s
      BY <1>1, <2>1, <2>2, <3>2 DEF OnOffer
    <3>3. CASE r # s /\ q # s
      BY <1>0, <2>1, <2>2, <3>3 DEF OnOffer, IInv, SecondIsCause
    <3> QED BY <3>1, <3>2, <3>3
  <2> QED BY <1>0, <2>2 DEF IInv, SecondIsCause, PendingOfId
<1>3. CASE a # None /\ Listening(a, i)
  <2>1. /\ notifiers' = [notifiers EXCEPT ![i] = None]
        /\ inbox' = [inbox EXCEPT ![a] = s] /\ stream' = [stream EXCEPT ![s] = "sent"]
    BY <1>3 DEF Open
  <2>2. a \in Acceptors /\ inbox[a] = None /\ pc[a] = "Waiting" /\ want[a] = i
    BY <1>0, <1>3, SenderIsAcceptor DEF IInv, SenderOfCall, Listening
  <2>3. TypeOK' /\ InCall' /\ TimeoutIsCause'
    BY <1>0, <2>1, <2>2 DEF IInv, TypeOK, InCall, TimeoutIsCause
  <2>4. SenderOfCall'
    BY <1>0, <2>1, <2>2 DEF IInv, TypeOK, SenderOfCall
  <2>5. InboxOfId'
    <3>1. \A b \in Acceptors : inbox[b] # s
      BY <1>0 DEF IInv, InboxOfId
    <3>2. \A b \in Acceptors : inbox'[b] = IF b = a THEN s ELSE inbox[b]
      BY <2>1 DEF IInv, TypeOK
    <3>3. \A r \in Streams : stream'[r] = IF r = s THEN "sent" ELSE stream[r]
      BY <2>1 DEF IInv, TypeOK
    <3>4. \A b \in Acceptors : inbox[b] # None => inbox[b] \in Streams
      BY DEF IInv, TypeOK
    <3> QED BY <1>0, <2>2, <3>1, <3>2, <3>3, <3>4 DEF IInv, InboxOfId
  <2> QED BY <1>2, <2>1, <2>3, <2>4, <2>5 DEF IInv
<1>4. CASE a # None /\ ~Listening(a, i)
  <2>1. /\ notifiers' = [notifiers EXCEPT ![i] = None]
        /\ inbox' = inbox /\ stream' = [stream EXCEPT ![s] = "lost"]
    BY <1>4 DEF Open
  <2>2. TypeOK' /\ InCall' /\ TimeoutIsCause'
    BY <1>0, <2>1 DEF IInv, TypeOK, InCall, TimeoutIsCause
  <2>3. SenderOfCall' /\ InboxOfId'
    BY <1>0, <2>1 DEF IInv, TypeOK, SenderOfCall, InboxOfId
  <2> QED BY <1>2, <2>1, <2>2, <2>3 DEF IInv
<1>5. CASE a = None
  <2>1. notifiers' = notifiers /\ inbox' = inbox /\ stream' = [stream EXCEPT ![s] = "storing"]
    BY <1>5 DEF Open
  <2>2. TypeOK' /\ InCall' /\ TimeoutIsCause'
    BY <1>0, <2>1 DEF IInv, TypeOK, InCall, TimeoutIsCause
  <2>3. SenderOfCall' /\ InboxOfId'
    BY <1>0, <2>1 DEF IInv, TypeOK, SenderOfCall, InboxOfId
  <2> QED BY <1>2, <2>1, <2>2, <2>3 DEF IInv
<1> QED BY <1>3, <1>4, <1>5

\* Storing a stream, and dropping the one it displaces, keeps the invariant.
LEMMA StoreIInv == ASSUME IInv, NEW s \in Streams, Store(s) PROVE IInv'
<1> USE HubConstants
<1>1. \A r \in Streams : stream'[r] = IF r = s THEN "pending"
                                      ELSE IF r = pending[idOf[s]] THEN "lost" ELSE stream[r]
  BY DEF Store
<1>2. /\ stream[s] = "storing" /\ pending' = [pending EXCEPT ![idOf[s]] = s]
      /\ notifiers' = notifiers /\ pc' = pc /\ want' = want /\ inbox' = inbox /\ cause' = cause
  BY DEF Store
<1>3. \A r \in Streams : r = pending[idOf[s]] => stream[r] = "pending" /\ idOf[r] = idOf[s]
  BY DEF IInv, TypeOK, PendingOfId
<1>4. TypeOK'
  <2>1. stream' \in [Streams -> {"new", "storing", "pending", "sent", "taken", "lost"}]
    BY DEF Store, IInv, TypeOK
  <2>2. \A r \in Streams : stream'[r] = "pending" <=> pending'[idOf[r]] = r
    BY <1>1, <1>2, <1>3 DEF IInv, TypeOK
  <2> QED BY <1>2, <2>1, <2>2 DEF IInv, TypeOK
<1>5. InCall' /\ SenderOfCall' /\ TimeoutIsCause'
  BY <1>2 DEF IInv, InCall, SenderOfCall, TimeoutIsCause
<1>6. InboxOfId'
  <2>1. \A b \in Acceptors : inbox[b] # None => inbox[b] \in Streams /\ stream[inbox[b]] = "sent"
    BY DEF IInv, TypeOK, InboxOfId
  <2>2. \A b \in Acceptors : inbox[b] # None => stream'[inbox[b]] = "sent"
    BY <1>1, <1>2, <1>3, <2>1
  <2> QED BY <1>2, <2>2 DEF IInv, InboxOfId
<1>7. SecondIsCause'
  BY <1>1, <1>2 DEF IInv, SecondIsCause, OnOffer
<1>8. PendingOfId'
  BY <1>2 DEF IInv, TypeOK, PendingOfId
<1> QED BY <1>4, <1>5, <1>6, <1>7, <1>8 DEF IInv

\* Taking a stream out of `pending` and returning it keeps the invariant, for
\* accept and accept_async alike: the acceptor has no sender registered.
LEMMA TakePendingIInv ==
    ASSUME IInv, NEW a \in Acceptors, NEW i \in Ids, pc[a] \in {"Idle", "Polling"}, TakePending(a, i)
    PROVE IInv'
<1> USE HubConstants
<1>0. PICK s \in Streams : s = pending[i] /\ stream[s] = "pending" /\ idOf[s] = i
  BY DEF TakePending, IInv, TypeOK, PendingOfId
<1>1. /\ pending' = [pending EXCEPT ![i] = None] /\ stream' = [stream EXCEPT ![s] = "taken"]
      /\ pc' = [pc EXCEPT ![a] = "Idle"] /\ want' = [want EXCEPT ![a] = NoId]
      /\ inbox' = [inbox EXCEPT ![a] = None] /\ notifiers' = notifiers /\ cause' = cause
  BY <1>0 DEF TakePending, Return
<1>2. inbox[a] = None /\ \A j \in Ids : notifiers[j] # a
  BY DEF IInv, InboxOfId, SenderOfCall
<1>3. TypeOK'
  BY <1>0, <1>1 DEF IInv, TypeOK, PendingOfId
<1>4. InCall' /\ SenderOfCall' /\ TimeoutIsCause'
  BY <1>1, <1>2 DEF IInv, TypeOK, InCall, SenderOfCall, TimeoutIsCause
<1>5. InboxOfId'
  BY <1>0, <1>1 DEF IInv, TypeOK, InboxOfId
<1>6. SecondIsCause' /\ PendingOfId'
  BY <1>0, <1>1 DEF IInv, TypeOK, SecondIsCause, OnOffer, PendingOfId
<1> QED BY <1>3, <1>4, <1>5, <1>6 DEF IInv

\* The call of acceptor a ends without a stream; no sender of it is left.
LEMMA ReturnIInv ==
    ASSUME IInv, NEW a \in Acceptors, Return(a), inbox[a] = None,
           \A i \in Ids : notifiers'[i] \in {notifiers[i], None} /\ notifiers'[i] # a,
           notifiers' \in [Ids -> Acceptors \cup {None}],
           cause' \subseteq Ids, cause \subseteq cause', UNCHANGED <<pending, stream>>
    PROVE IInv'
<1> USE HubConstants
<1>1. /\ pc' = [pc EXCEPT ![a] = "Idle"] /\ want' = [want EXCEPT ![a] = NoId]
      /\ inbox' = [inbox EXCEPT ![a] = None] /\ pending' = pending /\ stream' = stream
  BY DEF Return
<1>2. TypeOK' /\ InCall' /\ TimeoutIsCause'
  BY <1>1 DEF IInv, TypeOK, InCall, TimeoutIsCause
<1>3. SenderOfCall'
  BY <1>1 DEF IInv, TypeOK, SenderOfCall
<1>4. InboxOfId' /\ SecondIsCause' /\ PendingOfId'
  BY <1>1 DEF IInv, TypeOK, InboxOfId, SecondIsCause, OnOffer, PendingOfId
<1> QED BY <1>2, <1>3, <1>4 DEF IInv

\* Every step of open, accept and accept_async keeps the invariant.
LEMMA NextIInv == IInv /\ [Next]_vars => IInv'
<1> SUFFICES ASSUME IInv, [Next]_vars PROVE IInv'
  OBVIOUS
<1> USE HubConstants
<1>1. ASSUME NEW a \in Acceptors, NEW i \in Ids, Accept(a, i) \/ AcceptAsync(a, i) PROVE IInv'
  <2>1. CASE AcceptAsync(a, i) /\ TakePending(a, i)
    BY <2>1, TakePendingIInv DEF AcceptAsync
  <2>2. ASSUME NEW at \in {"Polling", "Register"}, pc[a] = "Idle",
               pc' = [pc EXCEPT ![a] = at], want' = [want EXCEPT ![a] = i],
               UNCHANGED <<pending, notifiers, stream, inbox, cause>>
        PROVE IInv'
    <3>1. TypeOK' /\ InCall' /\ TimeoutIsCause'
      BY <2>2 DEF IInv, TypeOK, InCall, TimeoutIsCause
    <3>2. SenderOfCall' /\ InboxOfId'
      BY <2>2 DEF IInv, TypeOK, SenderOfCall, InboxOfId
    <3>3. SecondIsCause' /\ PendingOfId'
      BY <2>2 DEF IInv, SecondIsCause, OnOffer, PendingOfId
    <3> QED BY <3>1, <3>2, <3>3 DEF IInv
  <2> QED BY <1>1, <2>1, <2>2 DEF Accept, AcceptAsync
<1>2. ASSUME NEW a \in Acceptors, Poll(a) PROVE IInv'
  <2>1. want[a] \in Ids
    BY <1>2 DEF Poll, IInv, TypeOK, InCall
  <2> QED BY <1>2, <2>1, TakePendingIInv DEF Poll
<1>3. ASSUME NEW a \in Acceptors, PollTimeout(a) PROVE IInv'
  <2>1. want[a] \in Ids /\ inbox[a] = None /\ \A i \in Ids : notifiers[i] # a
    BY <1>3 DEF PollTimeout, IInv, TypeOK, InCall, InboxOfId, SenderOfCall
  <2> QED BY <1>3, <2>1, ReturnIInv DEF PollTimeout, IInv, TypeOK
<1>4. ASSUME NEW a \in Acceptors, Register(a) PROVE IInv'
  <2>1. want[a] \in Ids /\ inbox[a] = None
    BY <1>4 DEF Register, IInv, TypeOK, InCall, InboxOfId
  <2>2. /\ notifiers' = [notifiers EXCEPT ![want[a]] = a] /\ pc' = [pc EXCEPT ![a] = "Waiting"]
        /\ pending' = pending /\ stream' = stream /\ want' = want /\ inbox' = inbox /\ cause' = cause
        /\ pc[a] = "Register"
    BY <1>4 DEF Register
  <2>3. TypeOK' /\ InCall' /\ TimeoutIsCause'
    BY <2>1, <2>2 DEF IInv, TypeOK, InCall, TimeoutIsCause
  <2>4. SenderOfCall' /\ InboxOfId'
    BY <2>1, <2>2 DEF IInv, TypeOK, SenderOfCall, InboxOfId
  <2>5. SecondIsCause' /\ PendingOfId'
    BY <2>2 DEF IInv, SecondIsCause, OnOffer, PendingOfId
  <2> QED BY <2>3, <2>4, <2>5 DEF IInv
<1>5. ASSUME NEW a \in Acceptors, Receive(a) PROVE IInv'
  <2>1. PICK s \in Streams : s = inbox[a] /\ stream[s] = "sent"
    BY <1>5 DEF Receive, IInv, TypeOK, InboxOfId
  <2>2. /\ stream' = [stream EXCEPT ![s] = "taken"]
        /\ pc' = [pc EXCEPT ![a] = "Idle"] /\ want' = [want EXCEPT ![a] = NoId]
        /\ inbox' = [inbox EXCEPT ![a] = None]
        /\ pending' = pending /\ notifiers' = notifiers /\ cause' = cause
    BY <1>5, <2>1 DEF Receive, Return
  <2>3. TypeOK' /\ InCall' /\ TimeoutIsCause'
    BY <2>1, <2>2 DEF IInv, TypeOK, InCall, TimeoutIsCause
  <2>4. SenderOfCall'
    BY <1>5, <2>2 DEF Receive, IInv, TypeOK, SenderOfCall
  <2>5. InboxOfId'
    BY <2>1, <2>2 DEF IInv, TypeOK, InboxOfId
  <2>6. SecondIsCause' /\ PendingOfId'
    BY <2>2 DEF IInv, TypeOK, SecondIsCause, OnOffer, PendingOfId
  <2> QED BY <2>3, <2>4, <2>5, <2>6 DEF IInv
<1>6. ASSUME NEW a \in Acceptors, SenderDropped(a) PROVE IInv'
  <2>1. \A i \in Ids : notifiers[i] # a
    BY <1>6 DEF SenderDropped, IInv, SenderOfCall
  <2> QED BY <1>6, <2>1, ReturnIInv DEF SenderDropped, IInv, TypeOK
<1>7. ASSUME NEW a \in Acceptors, Timeout(a) PROVE IInv'
  <2>1. want[a] \in Ids
    BY <1>7 DEF Timeout, IInv, TypeOK, InCall
  <2>2. TypeOK' /\ InCall' /\ TimeoutIsCause'
    BY <1>7, <2>1 DEF Timeout, IInv, TypeOK, InCall, TimeoutIsCause
  <2>3. SenderOfCall' /\ InboxOfId'
    BY <1>7, <2>1 DEF Timeout, IInv, TypeOK, SenderOfCall, InboxOfId
  <2>4. SecondIsCause' /\ PendingOfId'
    BY <1>7 DEF Timeout, IInv, SecondIsCause, OnOffer, PendingOfId
  <2> QED BY <2>2, <2>3, <2>4 DEF IInv
<1>8. ASSUME NEW a \in Acceptors, Cleanup(a) PROVE IInv'
  <2>1. want[a] \in Ids /\ inbox[a] = None
    BY <1>8 DEF Cleanup, IInv, TypeOK, InCall, InboxOfId
  <2>2. \A i \in Ids : notifiers[i] = a => i = want[a]
    BY DEF IInv, SenderOfCall
  <2> QED BY <1>8, <2>1, <2>2, ReturnIInv DEF Cleanup, IInv, TypeOK
<1>9. CASE UNCHANGED vars
  BY <1>9 DEF vars, IInv, TypeOK, InCall, SenderOfCall, TimeoutIsCause, InboxOfId, SecondIsCause, OnOffer, PendingOfId
<1> QED BY <1>1, <1>2, <1>3, <1>4, <1>5, <1>6, <1>7, <1>8, <1>9, OpenIInv, StoreIInv DEF Next

\* The strengthened invariant holds in every reachable state.
THEOREM Invariance == Spec => []IInv
  BY InitIInv, NextIInv, PTL DEF Spec

\* `pending` and the streams agree in every reachable state, for any number
\* of streams and acceptors: the stream under an id is one that open stored
\* and nobody has taken, although open and accept_async lock the two maps one
\* after the other.
THEOREM PendingAgrees == Spec => []TypeOK
  BY Invariance, PTL DEF IInv

(***************************************************************************)
(* The hub implements the matchmaker: every step is one of StreamMatch, or *)
(* leaves what StreamMatch sees unchanged.                                 *)
(***************************************************************************)
\* The initial state maps to an initial state of the matchmaker.
LEMMA InitMaps == Init => Matchmaker!Init
  BY DEF Init, Matchmaker!Init, offered, asking

\* What open does first is an Offer, with a loss only for a cause: a sender
\* whose receiver is gone is one of a call that timed out.
LEMMA OpenMaps == ASSUME IInv, NEW s \in Streams, Open(s) PROVE Matchmaker!Offer(s)
<1> USE HubConstants
<1> DEFINE i == idOf[s]
           a == notifiers[i]
           nobody == {r \in Streams : FALSE}
<1>0. i \in Ids /\ stream[s] = "new" /\ offered[s] = "new" /\ asking' = asking
  BY DEF Open, IInv, TypeOK, offered, asking
<1>1. Matchmaker!Offered(i) = OnOffer(i)
  BY DEF Matchmaker!Offered, OnOffer, offered, IInv, TypeOK
<1>2. cause' = cause \cup (IF Matchmaker!Offered(i) = {} THEN {} ELSE {i})
  BY <1>1 DEF Open
<1>nb. nobody \in SUBSET Matchmaker!Offered(i)
  OBVIOUS
<1>3. PICK outcome \in {"offered", "lost"} :
         /\ outcome = "lost" => i \in cause'
         /\ offered' = [r \in Streams |-> IF r = s THEN outcome ELSE offered[r]]
  <2>1. CASE a # None /\ ~Listening(a, i)
    <3>1. pc[a] = "Cleanup" /\ want[a] = i /\ a \in Acceptors
      BY <1>0, <2>1, SenderIsAcceptor DEF IInv, SenderOfCall, Listening
    <3>2. i \in cause'
      BY <1>2, <3>1 DEF IInv, TimeoutIsCause
    <3>3. stream' = [stream EXCEPT ![s] = "lost"]
      BY <2>1 DEF Open
    <3>4. offered' = [r \in Streams |-> IF r = s THEN "lost" ELSE offered[r]]
      BY <3>3 DEF offered, IInv, TypeOK
    <3> QED BY <3>2, <3>4
  <2>2. CASE a = None \/ Listening(a, i)
    <3>1. PICK at \in {"sent", "storing"} : stream' = [stream EXCEPT ![s] = at]
      BY <2>2 DEF Open
    <3>2. offered' = [r \in Streams |-> IF r = s THEN "offered" ELSE offered[r]]
      BY <3>1 DEF offered, IInv, TypeOK
    <3> QED BY <3>2
  <2> QED BY <2>1, <2>2
<1>4. offered' = [r \in Streams |-> IF r = s THEN outcome
                                    ELSE IF r \in nobody THEN "lost" ELSE offered[r]]
  BY <1>3
<1> HIDE DEF nobody
<1> QED BY <1>0, <1>2, <1>nb, <1>3, <1>4 DEF Matchmaker!Offer

\* Storing a stream loses the one stored before it, which had cause.
LEMMA StoreMaps ==
    ASSUME IInv, NEW s \in Streams, Store(s)
    PROVE (\E r \in Streams : Matchmaker!Lose(r)) \/ UNCHANGED Matchmaker!match
<1> USE HubConstants
<1> DEFINE r == pending[idOf[s]]
<1>0. asking' = asking /\ cause' = cause /\ stream[s] = "storing"
  BY DEF Store, asking
<1>1. CASE r = None
  <2>1. offered' = offered
    BY <1>1 DEF Store, offered, IInv, TypeOK
  <2> QED BY <1>0, <2>1 DEF Matchmaker!match
<1>2. CASE r # None
  <2>1. r \in Streams /\ stream[r] = "pending" /\ idOf[r] = idOf[s] /\ r # s
    BY <1>0, <1>2 DEF IInv, TypeOK, PendingOfId
  <2>2. idOf[r] \in cause
    BY <1>0, <2>1 DEF IInv, SecondIsCause, OnOffer
  <2>3. offered[r] = "offered" /\ offered' = [offered EXCEPT ![r] = "lost"]
    <3>1. \A q \in Streams : stream'[q] = IF q = s THEN "pending" ELSE IF q = r THEN "lost" ELSE stream[q]
      BY DEF Store
    <3> HIDE DEF r
    <3> QED BY <1>0, <2>1, <3>1 DEF offered
  <2> QED BY <1>0, <2>1, <2>2, <2>3 DEF Matchmaker!Lose
<1> QED BY <1>1, <1>2

\* A call that finds the stream in `pending` takes it.
LEMMA TakePendingMaps ==
    ASSUME IInv, NEW a \in Acceptors, NEW i \in Ids, TakePending(a, i), pc[a] # "Cleanup", want[a] \in {NoId, i}
    PROVE \E s \in Streams : Matchmaker!Take(a, s)
<1> USE HubConstants
<1>1. PICK s \in Streams : s = pending[i] /\ stream[s] = "pending" /\ idOf[s] = i
  BY DEF TakePending, IInv, TypeOK, PendingOfId
<1>2. stream' = [stream EXCEPT ![s] = "taken"]
  BY <1>1 DEF TakePending
<1>3. offered[s] = "offered" /\ offered' = [offered EXCEPT ![s] = "taken"]
  BY <1>1, <1>2 DEF offered, IInv, TypeOK
<1>4. asking[a] \in {NoId, idOf[s]} /\ asking' = [asking EXCEPT ![a] = NoId] /\ cause' = cause
  BY <1>1 DEF TakePending, Return, asking, IInv, TypeOK
<1> QED BY <1>3, <1>4 DEF Matchmaker!Take

\* Every step of the hub is a step of the matchmaker, or a stutter.
LEMMA StepMaps == IInv /\ [Next]_vars => [Matchmaker!Next]_(Matchmaker!match)
<1> SUFFICES ASSUME IInv, [Next]_vars PROVE [Matchmaker!Next]_(Matchmaker!match)
  OBVIOUS
<1> USE HubConstants
<1>1. ASSUME NEW s \in Streams, Open(s) PROVE Matchmaker!Next
  BY <1>1, OpenMaps DEF Matchmaker!Next
<1>2. ASSUME NEW s \in Streams, Store(s) PROVE Matchmaker!Next \/ UNCHANGED Matchmaker!match
  BY <1>2, StoreMaps DEF Matchmaker!Next
<1>3. ASSUME NEW a \in Acceptors, NEW i \in Ids, Accept(a, i) \/ AcceptAsync(a, i)
      PROVE Matchmaker!Next
  <2>0. pc[a] = "Idle" /\ want[a] = NoId
    BY <1>3 DEF Accept, AcceptAsync, IInv, InCall
  <2>1. CASE TakePending(a, i)
    BY <2>0, <2>1, TakePendingMaps DEF Matchmaker!Next
  <2>2. CASE ~TakePending(a, i)
    <3>1. PICK at \in {"Polling", "Register"} :
            /\ pc' = [pc EXCEPT ![a] = at] /\ want' = [want EXCEPT ![a] = i]
            /\ UNCHANGED <<stream, cause>>
      BY <1>3, <2>2 DEF Accept, AcceptAsync
    <3>2. offered' = offered
      BY <3>1 DEF offered
    <3>3. asking[a] = NoId /\ asking' = [asking EXCEPT ![a] = i]
      BY <2>0, <3>1 DEF asking, IInv, TypeOK
    <3>4. Matchmaker!Ask(a, i)
      BY <3>1, <3>2, <3>3 DEF Matchmaker!Ask
    <3> QED BY <3>4 DEF Matchmaker!Next
  <2> QED BY <2>1, <2>2
<1>4. ASSUME NEW a \in Acceptors, Poll(a) PROVE Matchmaker!Next
  <2>1. want[a] \in Ids /\ pc[a] # "Cleanup" /\ TakePending(a, want[a])
    BY <1>4 DEF Poll, IInv, TypeOK, InCall
  <2> QED BY <2>1, TakePendingMaps DEF Matchmaker!Next
<1>5. ASSUME NEW a \in Acceptors, PollTimeout(a) \/ Timeout(a) PROVE Matchmaker!Next
  <2>1. pc[a] \in {"Polling", "Waiting"} /\ want[a] # NoId
    BY <1>5 DEF PollTimeout, Timeout, IInv, InCall
  <2>2. asking[a] = want[a] /\ asking' = [asking EXCEPT ![a] = NoId]
    <3>1. asking[a] = want[a]
      BY <2>1 DEF asking
    <3>2. CASE PollTimeout(a)
      BY <3>2 DEF PollTimeout, Return, asking, IInv, TypeOK
    <3>3. CASE Timeout(a)
      BY <3>3 DEF Timeout, asking, IInv, TypeOK
    <3> QED BY <1>5, <3>1, <3>2, <3>3
  <2>3. offered' = offered /\ cause' = cause \cup {want[a]}
    BY <1>5 DEF PollTimeout, Timeout, offered
  <2>4. Matchmaker!Leave(a, {asking[a]})
    BY <2>1, <2>2, <2>3 DEF Matchmaker!Leave
  <2> QED BY <2>4 DEF Matchmaker!Next
<1>6. ASSUME NEW a \in Acceptors, Register(a) \/ Cleanup(a) PROVE UNCHANGED Matchmaker!match
  <2>1. asking' = asking
    BY <1>6 DEF Register, Cleanup, Return, asking, IInv, TypeOK
  <2>2. offered' = offered /\ cause' = cause
    BY <1>6 DEF Register, Cleanup, offered
  <2> QED BY <2>1, <2>2 DEF Matchmaker!match
<1>7. ASSUME NEW a \in Acceptors, Receive(a) PROVE Matchmaker!Next
  <2>1. PICK s \in Streams : s = inbox[a] /\ stream[s] = "sent" /\ idOf[s] = want[a]
    BY <1>7 DEF Receive, IInv, TypeOK, InboxOfId
  <2>2. stream' = [stream EXCEPT ![s] = "taken"]
    BY <1>7, <2>1 DEF Receive
  <2>3. offered[s] = "offered" /\ offered' = [offered EXCEPT ![s] = "taken"]
    BY <2>1, <2>2 DEF offered, IInv, TypeOK
  <2>4. asking[a] = want[a] /\ asking' = [asking EXCEPT ![a] = NoId] /\ cause' = cause
    BY <1>7 DEF Receive, Return, asking, IInv, TypeOK
  <2>5. Matchmaker!Take(a, s)
    BY <2>1, <2>3, <2>4 DEF Matchmaker!Take
  <2> QED BY <2>5 DEF Matchmaker!Next
<1>8. ASSUME NEW a \in Acceptors, SenderDropped(a) PROVE Matchmaker!Next
  <2>1. asking[a] # NoId /\ asking' = [asking EXCEPT ![a] = NoId]
    BY <1>8 DEF SenderDropped, Return, asking, IInv, TypeOK, InCall
  <2>2. offered' = offered /\ cause' = cause
    BY <1>8 DEF SenderDropped, offered
  <2>3. Matchmaker!Leave(a, {})
    BY <2>1, <2>2 DEF Matchmaker!Leave
  <2> QED BY <2>3 DEF Matchmaker!Next
<1>9. CASE UNCHANGED vars
  <2>1. offered' = offered /\ asking' = asking
    BY <1>9 DEF vars, offered, asking
  <2> QED BY <1>9, <2>1 DEF vars, Matchmaker!match
<1> QED BY <1>1, <1>2, <1>3, <1>4, <1>5, <1>6, <1>7, <1>8, <1>9 DEF Next

\* LocalStreamHub implements the matchmaker, for any streams, acceptors and
\* ids: a stream goes to at most one acceptor, which asked for its id, and is
\* lost only after a timeout of an accept of the id or a second open of it,
\* although open and accept_async are two critical sections each.
THEOREM HubImplementsMatchmaker == Spec => ImplementsMatchmaker
  BY Invariance, InitMaps, StepMaps, PTL DEF Spec, ImplementsMatchmaker, Matchmaker!Spec

=============================================================================
