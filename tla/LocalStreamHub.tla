---------------------------- MODULE LocalStreamHub ----------------------------
(***************************************************************************)
(* LocalStreamHub (Src/Orchestrator/local_tensor_stream/mod.rs): pairs the *)
(* two ends of an in-process stream under an id.  `pending` and            *)
(* `notifiers` are behind two mutexes, and open and accept_async each lock *)
(* them one after the other, so each is two steps here.                    *)
(***************************************************************************)
EXTENDS FiniteSets

CONSTANTS Streams,   \* the calls of open, each makes one stream
          Acceptors, \* tasks that call accept or accept_async
          Ids, NoId, None,
          idOf       \* the id each stream is opened under

ASSUME HubConstants ==
    /\ NoId \notin Ids
    /\ None \notin Streams \cup Acceptors
    /\ idOf \in [Streams -> Ids]

VARIABLES
    pending,   \* the stream stored under each id, or None
    notifiers, \* the acceptor whose oneshot sender is registered, or None
    stream,    \* where the remote end of each stream is
    pc, want,  \* where each acceptor is, and the id it is called with
    inbox,     \* what has been sent into its oneshot
    cause      \* history: ids with a timeout, or opened again while on offer

vars == <<pending, notifiers, stream, pc, want, inbox, cause>>

Init ==
    /\ pending = [i \in Ids |-> None]
    /\ notifiers = [i \in Ids |-> None]
    /\ stream = [s \in Streams |-> "new"]
    /\ pc = [a \in Acceptors |-> "Idle"]
    /\ want = [a \in Acceptors |-> NoId]
    /\ inbox = [a \in Acceptors |-> None]
    /\ cause = {}

\* The receiving half of the oneshot registered for id i still exists.
Listening(a, i) == pc[a] = "Waiting" /\ want[a] = i

OnOffer(i) == {s \in Streams : idOf[s] = i /\ stream[s] \in {"storing", "pending", "sent"}}

Return(a) ==
    /\ pc' = [pc EXCEPT ![a] = "Idle"]
    /\ want' = [want EXCEPT ![a] = NoId]
    /\ inbox' = [inbox EXCEPT ![a] = None]

(***************************************************************************)
(* open                                                                    *)
(***************************************************************************)
\* Under the notifiers lock: take the sender of a waiting acceptor and send;
\* a send to a dropped receiver drops the stream, and open returns Ok.
Open(s) ==
    LET i == idOf[s]
        a == notifiers[i]
    IN  /\ stream[s] = "new"
        /\ \/ /\ a # None
              /\ notifiers' = [notifiers EXCEPT ![i] = None]
              /\ \/ /\ Listening(a, i)
                    /\ inbox' = [inbox EXCEPT ![a] = s]
                    /\ stream' = [stream EXCEPT ![s] = "sent"]
                 \/ /\ ~Listening(a, i)
                    /\ stream' = [stream EXCEPT ![s] = "lost"]
                    /\ UNCHANGED inbox
           \/ /\ a = None
              /\ stream' = [stream EXCEPT ![s] = "storing"]
              /\ UNCHANGED <<notifiers, inbox>>
        /\ cause' = cause \cup (IF OnOffer(i) = {} THEN {} ELSE {i})
        /\ UNCHANGED <<pending, pc, want>>

\* Wrong variant: a second stream under the id is queued behind the first.
StoreBehind(s) ==
    /\ stream[s] = "storing"
    /\ stream' = [stream EXCEPT ![s] = "pending"]
    /\ pending' = IF pending[idOf[s]] = None THEN [pending EXCEPT ![idOf[s]] = s] ELSE pending
    /\ UNCHANGED <<notifiers, pc, want, inbox, cause>>

\* Under the pending lock: insert, dropping what was stored under the id.
Store(s) ==
    /\ stream[s] = "storing"
    /\ stream' = [r \in Streams |-> IF r = s THEN "pending"
                                    ELSE IF r = pending[idOf[s]] THEN "lost" ELSE stream[r]]
    /\ pending' = [pending EXCEPT ![idOf[s]] = s]
    /\ UNCHANGED <<notifiers, pc, want, inbox, cause>>

\* Taking the stream stored under id i out of `pending`.
TakePending(a, i) ==
    /\ pending[i] # None
    /\ pending' = [pending EXCEPT ![i] = None]
    /\ stream' = [stream EXCEPT ![pending[i]] = "taken"]
    /\ Return(a)
    /\ UNCHANGED <<notifiers, cause>>

(***************************************************************************)
(* accept: poll `pending` until the deadline                               *)
(***************************************************************************)
Accept(a, i) ==
    /\ pc[a] = "Idle"
    /\ pc' = [pc EXCEPT ![a] = "Polling"]
    /\ want' = [want EXCEPT ![a] = i]
    /\ UNCHANGED <<pending, notifiers, stream, inbox, cause>>

Poll(a) == pc[a] = "Polling" /\ TakePending(a, want[a])

PollTimeout(a) ==
    /\ pc[a] = "Polling" /\ pending[want[a]] = None
    /\ Return(a)
    /\ cause' = cause \cup {want[a]}
    /\ UNCHANGED <<pending, notifiers, stream>>

(***************************************************************************)
(* accept_async                                                            *)
(***************************************************************************)
\* Wrong variant: the sender is registered even if `pending` has the stream.
AcceptAsyncRegisterAlways(a, i) ==
    /\ pc[a] = "Idle"
    /\ \/ /\ pending[i] # None
          /\ pending' = [pending EXCEPT ![i] = None]
          /\ stream' = [stream EXCEPT ![pending[i]] = "taken"]
          /\ notifiers' = [notifiers EXCEPT ![i] = a]
          /\ Return(a)
          /\ UNCHANGED cause
       \/ /\ pending[i] = None
          /\ pc' = [pc EXCEPT ![a] = "Register"]
          /\ want' = [want EXCEPT ![a] = i]
          /\ UNCHANGED <<pending, notifiers, stream, inbox, cause>>

AcceptAsync(a, i) ==
    /\ pc[a] = "Idle"
    /\ \/ TakePending(a, i)
       \/ /\ pending[i] = None
          /\ pc' = [pc EXCEPT ![a] = "Register"]
          /\ want' = [want EXCEPT ![a] = i]
          /\ UNCHANGED <<pending, notifiers, stream, inbox, cause>>

\* Registering drops the sender of another acceptor of the same id.
Register(a) ==
    /\ pc[a] = "Register"
    /\ notifiers' = [notifiers EXCEPT ![want[a]] = a]
    /\ pc' = [pc EXCEPT ![a] = "Waiting"]
    /\ UNCHANGED <<pending, stream, want, inbox, cause>>

Receive(a) ==
    /\ pc[a] = "Waiting" /\ inbox[a] # None
    /\ stream' = [stream EXCEPT ![inbox[a]] = "taken"]
    /\ Return(a)
    /\ UNCHANGED <<pending, notifiers, cause>>

\* "sender dropped": the registration was overwritten or removed.
SenderDropped(a) ==
    /\ pc[a] = "Waiting" /\ inbox[a] = None /\ notifiers[want[a]] # a
    /\ Return(a)
    /\ UNCHANGED <<pending, notifiers, stream, cause>>

\* The timeout drops the receiver; the registration is removed in a step of
\* its own, whoever's it is by then.
Timeout(a) ==
    /\ pc[a] = "Waiting" /\ inbox[a] = None /\ notifiers[want[a]] = a
    /\ pc' = [pc EXCEPT ![a] = "Cleanup"]
    /\ cause' = cause \cup {want[a]}
    /\ UNCHANGED <<pending, notifiers, stream, want, inbox>>

Cleanup(a) ==
    /\ pc[a] = "Cleanup"
    /\ notifiers' = [notifiers EXCEPT ![want[a]] = None]
    /\ Return(a)
    /\ UNCHANGED <<pending, stream, cause>>

Next ==
    \/ \E s \in Streams : Open(s) \/ Store(s)
    \/ \E a \in Acceptors, i \in Ids : Accept(a, i) \/ AcceptAsync(a, i)
    \/ \E a \in Acceptors : \/ Poll(a) \/ PollTimeout(a) \/ Register(a) \/ Receive(a)
                            \/ SenderDropped(a) \/ Timeout(a) \/ Cleanup(a)

Spec == Init /\ [][Next]_vars

(***************************************************************************)
(* Properties.                                                             *)
(***************************************************************************)
\* Variables have their types, and what `pending` and the oneshots hold is
\* what the streams say of themselves.
TypeOK ==
    /\ pending \in [Ids -> Streams \cup {None}]
    /\ notifiers \in [Ids -> Acceptors \cup {None}]
    /\ stream \in [Streams -> {"new", "storing", "pending", "sent", "taken", "lost"}]
    /\ pc \in [Acceptors -> {"Idle", "Polling", "Register", "Waiting", "Cleanup"}]
    /\ want \in [Acceptors -> Ids \cup {NoId}]
    /\ inbox \in [Acceptors -> Streams \cup {None}]
    /\ cause \subseteq Ids
    /\ \A s \in Streams : stream[s] = "pending" <=> pending[idOf[s]] = s

\* Where the matchmaker of StreamMatch sees each stream, and what it sees an
\* acceptor ask for: one that cleans up has given up already.
offered == [s \in Streams |-> IF stream[s] \in {"storing", "pending", "sent"}
                              THEN "offered" ELSE stream[s]]
asking == [a \in Acceptors |-> IF pc[a] = "Cleanup" THEN NoId ELSE want[a]]

Matchmaker == INSTANCE StreamMatch WITH stream <- offered, asked <- asking

\* The hub is a matchmaker: a stream goes to at most one acceptor of its id,
\* and open never loses one unless an acceptor of the id timed out or the id
\* was opened twice at a time.
ImplementsMatchmaker == Matchmaker!Spec

\* "优先通知异步等的人，否则存 pending" (mod.rs:28): a stream is stored only when
\* nobody waits for it, so none is stored under an id with a live waiter.
StoredOnlyIfNobodyWaits ==
    \A i \in Ids : pending[i] # None =>
        ~\E a \in Acceptors : Listening(a, i) /\ notifiers[i] = a

=============================================================================
