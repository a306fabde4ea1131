--------------------------- MODULE PeerTableProofs ---------------------------
(***************************************************************************)
(* Proofs about PeerTable, for any nodes, connections and commands.        *)
(***************************************************************************)
EXTENDS PeerTable, FiniteSetTheorems, SequenceTheorems, TLAPS

\* Behind every event of m in a queue there is, or it is itself, one that
\* says that a connection to m went down.
DownFollows(q, m) ==
    \A i \in DOMAIN q : q[i].peer = m =>
        \E j \in DOMAIN q : i <= j /\ q[j].peer = m /\ q[j].kind = "down"

\* What a node has still to handle about a peer without a connection ends
\* with the end of a connection.
OfflineEndsDown ==
    \A n, m \in Nodes : n # m /\ ~Linked(n, m) => DownFollows(events[n], m)

IInv == TypeOK /\ OneLocalEntry /\ OfflineEndsDown /\ ListedIsOnline

(***************************************************************************)
(* What the operations of PeerManager make of an entry.                    *)
(***************************************************************************)
\* The consequences of the assumptions used below.
LEMMA Consts ==
    /\ 0 \in 0..MaxSessions
    /\ None \notin Entries
    /\ None \notin Tasks
    /\ MaxChanges \in Nat
<1>0. MaxChanges \in Nat
  BY PeerConstants
<1>1. MaxSessions \in Nat
  BY PeerConstants
<1>2. None \notin Tasks \cup Entries
  BY ONLY PeerConstants DEF PeerConstants
<1> QED BY <1>0, <1>1, <1>2

\* upsert_peer returns an entry whose mark is that of the old one, if any.
LEMMA Upsert ==
    ASSUME NEW old \in Entries \cup {None}, NEW new \in Entries
    PROVE  /\ upsert_peer(old, new) \in Entries
           /\ upsert_peer(old, new).local = IF old = None THEN new.local ELSE old.local
  BY Consts DEF upsert_peer, Entries

\* PeerInfo::new is an entry without the mark.
LEMMA NewPeerType == NewPeer \in Entries /\ NewPeer.local = FALSE
  BY Consts DEF NewPeer, Entries, Names

\* remove_peer leaves nothing, or the entry with the mark.
LEMMA Remove ==
    ASSUME NEW old \in Entries \cup {None}
    PROVE  /\ remove_peer(old) \in {old, None}
           /\ old # None /\ old.local => remove_peer(old) = old
           /\ old # None /\ ~old.local => remove_peer(old) = None
           /\ old = None => remove_peer(old) = None
  BY DEF remove_peer

\* The handler of an Info request keeps the mark of an entry and gives none.
LEMMA Apply ==
    ASSUME NEW old \in Entries \cup {None}, NEW info \in Infos
    PROVE  /\ ApplyInfo(old, info) \in Entries \cup {None}
           /\ old # None => ApplyInfo(old, info) # None /\ ApplyInfo(old, info).local = old.local
           /\ old = None /\ ApplyInfo(old, info) # None => ~ApplyInfo(old, info).local
<1> DEFINE heard == ParseInfo(info)
           fresh == [NewPeer EXCEPT !.name = heard.name]
           named == IF heard.name = "" THEN old ELSE upsert_peer(old, fresh)
<1>1. heard \in Infos
  BY Consts DEF ParseInfo, Infos, NoInfo, Names
<1>2. fresh \in Entries /\ fresh.local = FALSE
  BY <1>1, NewPeerType DEF Entries, Infos, NewPeer
<1> HIDE DEF heard, fresh
<1>3. /\ named \in Entries \cup {None}
      /\ old # None => named # None /\ named.local = old.local
      /\ old = None /\ named # None => ~named.local
  BY <1>2, Upsert, Consts
<1> HIDE DEF named
<1>4. ApplyInfo(old, info) =
        IF named = None THEN None
        ELSE [named EXCEPT !.models   = IF heard.models = {} THEN @ ELSE heard.models,
                           !.sessions = IF heard.sessions = 0 THEN @ ELSE heard.sessions]
  BY DEF ApplyInfo, heard, fresh, named
<1> QED
  BY <1>1, <1>3, <1>4, Consts DEF Entries, Infos

(***************************************************************************)
(* The queues.                                                             *)
(***************************************************************************)
\* What is at the head of a queue.
LEMMA HeadType ==
    ASSUME NEW q \in Seq(Events), q # <<>>
    PROVE  Head(q) \in Events /\ Head(q).peer \in Nodes
<1>1. Head(q) \in Events
  OBVIOUS
<1> QED BY <1>1 DEF Events

\* Taking the head of a queue.
LEMMA Pop ==
    ASSUME NEW q \in Seq(Events), q # <<>>, NEW m
    PROVE  /\ DownFollows(q, m) => DownFollows(Tail(q), m)
           /\ QueuedFrom(q, m) /\ Head(q).peer # m => QueuedFrom(Tail(q), m)
           /\ DownFollows(q, m) /\ Head(q).peer = m /\ Head(q).kind # "down"
                => QueuedFrom(Tail(q), m)
<1>1. /\ Len(q) \in Nat /\ Len(q) >= 1 /\ DOMAIN q = 1..Len(q) /\ Head(q) = q[1]
      /\ DOMAIN Tail(q) = 1..(Len(q) - 1)
      /\ \A i \in 1..(Len(q) - 1) : Tail(q)[i] = q[i + 1]
  OBVIOUS
<1>2. ASSUME DownFollows(q, m) PROVE DownFollows(Tail(q), m)
  <2> SUFFICES ASSUME NEW i \in DOMAIN Tail(q), Tail(q)[i].peer = m
               PROVE  \E j \in DOMAIN Tail(q) :
                        i <= j /\ Tail(q)[j].peer = m /\ Tail(q)[j].kind = "down"
    BY DEF DownFollows
  <2>1. i + 1 \in DOMAIN q /\ q[i + 1].peer = m
    BY <1>1
  <2>2. PICK j \in DOMAIN q : i + 1 <= j /\ q[j].peer = m /\ q[j].kind = "down"
    BY <1>2, <2>1 DEF DownFollows
  <2>3. j - 1 \in DOMAIN Tail(q) /\ i <= j - 1 /\ Tail(q)[j - 1] = q[j]
    BY <1>1, <2>2
  <2> QED BY <2>2, <2>3
<1>3. ASSUME QueuedFrom(q, m), Head(q).peer # m PROVE QueuedFrom(Tail(q), m)
  <2>1. PICK i \in DOMAIN q : q[i].peer = m
    BY <1>3 DEF QueuedFrom
  <2>2. i - 1 \in DOMAIN Tail(q) /\ Tail(q)[i - 1] = q[i]
    BY <1>1, <1>3, <2>1
  <2> QED BY <2>1, <2>2 DEF QueuedFrom
<1>4. ASSUME DownFollows(q, m), Head(q).peer = m, Head(q).kind # "down"
      PROVE  QueuedFrom(Tail(q), m)
  <2>1. PICK j \in DOMAIN q : q[j].peer = m /\ q[j].kind = "down"
    BY <1>1, <1>4 DEF DownFollows
  <2>2. j # 1
    BY <1>1, <1>4, <2>1
  <2>3. j - 1 \in 1..(Len(q) - 1)
    BY <1>1, <2>2
  <2>4. j - 1 \in DOMAIN Tail(q) /\ Tail(q)[j - 1] = q[j]
    BY <1>1, <2>3
  <2> QED BY <2>1, <2>4 DEF QueuedFrom
<1> QED BY <1>2, <1>3, <1>4

\* Appending an event of another peer.
LEMMA PushOther ==
    ASSUME NEW q \in Seq(Events), NEW e \in Events, NEW m, e.peer # m
    PROVE  /\ DownFollows(q, m) => DownFollows(Append(q, e), m)
           /\ QueuedFrom(q, m) => QueuedFrom(Append(q, e), m)
<1>1. /\ Len(q) \in Nat /\ DOMAIN q = 1..Len(q)
      /\ DOMAIN Append(q, e) = 1..(Len(q) + 1)
      /\ \A i \in 1..Len(q) : Append(q, e)[i] = q[i]
      /\ Append(q, e)[Len(q) + 1] = e
  OBVIOUS
<1>2. ASSUME DownFollows(q, m) PROVE DownFollows(Append(q, e), m)
  <2> SUFFICES ASSUME NEW i \in DOMAIN Append(q, e), Append(q, e)[i].peer = m
               PROVE  \E j \in DOMAIN Append(q, e) :
                        /\ i <= j /\ Append(q, e)[j].peer = m
                        /\ Append(q, e)[j].kind = "down"
    BY DEF DownFollows
  <2>1. i \in DOMAIN q /\ q[i].peer = m
    BY <1>1
  <2>2. PICK j \in DOMAIN q : i <= j /\ q[j].peer = m /\ q[j].kind = "down"
    BY <1>2, <2>1 DEF DownFollows
  <2> QED BY <1>1, <2>2
<1> QED BY <1>1, <1>2 DEF QueuedFrom

\* Appending the reports that k connections to m went down.
LEMMA PushDowns ==
    ASSUME NEW q \in Seq(Events), NEW m \in Nodes, NEW k \in Nat
    PROVE  /\ q \o Downs(m, k) \in Seq(Events)
           /\ k > 0 => DownFollows(q \o Downs(m, k), m) /\ QueuedFrom(q \o Downs(m, k), m)
           /\ \A p : p # m /\ DownFollows(q, p) => DownFollows(q \o Downs(m, k), p)
           /\ \A p : QueuedFrom(q, p) => QueuedFrom(q \o Downs(m, k), p)
<1> DEFINE d == Downs(m, k)
           r == q \o d
<1>1. Event("down", m) \in Events
  BY Consts DEF Event, Events, NoInfo, Infos, Names
<1>2. /\ d \in Seq(Events) /\ Len(d) = k
      /\ \A i \in 1..k : d[i].peer = m /\ d[i].kind = "down"
  BY <1>1 DEF Downs, Event
<1> HIDE DEF d
<1>3. /\ Len(q) \in Nat /\ DOMAIN q = 1..Len(q)
      /\ r \in Seq(Events) /\ DOMAIN r = 1..(Len(q) + k)
      /\ \A i \in 1..Len(q) : r[i] = q[i]
      /\ \A i \in (Len(q) + 1)..(Len(q) + k) : r[i] = d[i - Len(q)]
  BY <1>2
<1>4. \A i \in (Len(q) + 1)..(Len(q) + k) : r[i].peer = m /\ r[i].kind = "down"
  BY <1>2, <1>3
<1> HIDE DEF r
<1>5. k > 0 => DownFollows(r, m) /\ QueuedFrom(r, m)
  BY <1>3, <1>4 DEF DownFollows, QueuedFrom
<1>6. ASSUME NEW p, p # m, DownFollows(q, p) PROVE DownFollows(r, p)
  <2> SUFFICES ASSUME NEW i \in DOMAIN r, r[i].peer = p
               PROVE  \E j \in DOMAIN r : i <= j /\ r[j].peer = p /\ r[j].kind = "down"
    BY DEF DownFollows
  <2>1. i \in DOMAIN q /\ q[i].peer = p
    BY <1>3, <1>4, <1>6
  <2>2. PICK j \in DOMAIN q : i <= j /\ q[j].peer = p /\ q[j].kind = "down"
    BY <1>6, <2>1 DEF DownFollows
  <2> QED BY <1>3, <2>2
<1>7. \A p : QueuedFrom(q, p) => QueuedFrom(r, p)
  BY <1>3 DEF QueuedFrom
<1> QED BY <1>3, <1>5, <1>6, <1>7 DEF r, d

(***************************************************************************)
(* The invariant.                                                          *)
(***************************************************************************)
\* The nodes as they start satisfy it.
LEMMA InitIInv == Init => IInv
<1> SUFFICES ASSUME Init PROVE IInv
  OBVIOUS
<1>1. PICK name \in [Nodes -> Names] :
         table = [n \in Nodes |-> [m \in Nodes |-> IF m = n THEN NewLocal(name[n]) ELSE None]]
  BY DEF Init
<1>2. \A n \in Nodes : NewLocal(name[n]) \in Entries /\ NewLocal(name[n]).local = TRUE
  BY Consts DEF NewLocal, NewPeer, Entries
<1>3. NoInfo \in Infos
  BY Consts DEF NoInfo, Infos, Names
<1>4. TypeOK
  <2>1. table \in [Nodes -> [Nodes -> Entries \cup {None}]]
    BY <1>1, <1>2
  <2>2. task \in [Tasks -> TaskStates]
    <3>1. NoTask \in TaskStates
      BY <1>3 DEF NoTask, TaskStates, TaskPCs
    <3> QED BY <3>1 DEF Init
  <2>3. held \in [Nodes -> [models : SUBSET ModelFiles, sessions : 0..MaxSessions]]
    BY Consts DEF Init
  <2>4. changes \in 0..MaxChanges
    BY Consts DEF Init
  <2>5. excuse \in Excuses
    BY DEF Init, Excuses
  <2> QED BY <2>1, <2>2, <2>3, <2>4, <2>5 DEF Init, TypeOK
<1>5. OneLocalEntry
  BY <1>1, <1>2, Consts DEF OneLocalEntry
<1>6. OfflineEndsDown
  BY DEF Init, OfflineEndsDown, DownFollows
<1>7. ListedIsOnline
  BY <1>1 DEF ListedIsOnline
<1> QED BY <1>4, <1>5, <1>6, <1>7 DEF IInv

\* A connection has two ends, and a command a node.
LEMMA EndsType ==
    /\ \A l \in Links : Ends[l][1] \in Nodes /\ Ends[l][2] \in Nodes /\ Ends[l][1] # Ends[l][2]
    /\ \A l \in Links : Ends[l] = <<Ends[l][1], Ends[l][2]>>
    /\ \A t \in Tasks : Owner[t] \in Nodes
<1>1. Ends \in [Links -> {p \in Nodes \X Nodes : p[1] # p[2]}]
  BY ONLY PeerConstants DEF PeerConstants
<1>2. Owner \in [Tasks -> Nodes]
  BY ONLY PeerConstants DEF PeerConstants
<1> QED BY <1>1, <1>2

\* Events as the handlers and the network make them.
LEMMA EventType ==
    ASSUME NEW m \in Nodes
    PROVE  /\ \A kind \in {"up", "down"} : Event(kind, m) \in Events
           /\ \A info \in Infos, r \in Tasks \cup {None} : InfoEvent(m, info, r) \in Events
<1>1. NoInfo \in Infos
  BY Consts DEF NoInfo, Infos, Names
<1> QED BY <1>1 DEF Event, InfoEvent, Events

\* Steps that leave the tables, the connections and the queues alone.
LEMMA Elsewhere ==
    ASSUME IInv, TypeOK', UNCHANGED <<table, open, events>>
    PROVE  IInv'
<1>1. OneLocalEntry'
  BY DEF IInv, OneLocalEntry
<1>2. OfflineEndsDown'
  BY DEF IInv, OfflineEndsDown, DownFollows, Linked, LinksOf
<1>3. ListedIsOnline'
  BY DEF IInv, ListedIsOnline, QueuedFrom, Linked, LinksOf
<1> QED BY <1>1, <1>2, <1>3 DEF IInv

\* Connections between two nodes end: both are told, nobody else is
\* concerned, and what was online or had something queued still has.
LEMMA Closing ==
    ASSUME TypeOK, OfflineEndsDown,
           NEW n \in Nodes, NEW m \in Nodes, n # m,
           NEW ls \in SUBSET LinksOf(n, m), ls # {}, CloseLinks(n, m, ls)
    PROVE  /\ open' \in [Links -> BOOLEAN]
           /\ events' \in [Nodes -> Seq(Events)]
           /\ OfflineEndsDown'
           /\ \A p, q \in Nodes :
                 p # q /\ (Linked(p, q) \/ QueuedFrom(events[p], q))
                   => Linked(p, q)' \/ QueuedFrom(events'[p], q)
<1> DEFINE k == Cardinality(ls)
<1>1. k \in Nat /\ k > 0
  <2>1. IsFiniteSet(Links)
    BY ONLY PeerConstants DEF PeerConstants
  <2>2. IsFiniteSet(ls)
    BY <2>1, FS_Subset DEF LinksOf
  <2> QED BY <2>2, FS_EmptySet, FS_CardinalityType
<1> HIDE DEF k
<1>2. /\ open' = [l \in Links |-> open[l] /\ l \notin ls]
      /\ events' = [[events EXCEPT ![n] = @ \o Downs(m, k)] EXCEPT ![m] = @ \o Downs(n, k)]
  BY DEF CloseLinks, k
<1>3. /\ events \in [Nodes -> Seq(Events)]
      /\ open \in [Links -> BOOLEAN]
  BY DEF TypeOK
<1>4. /\ events'[n] = events[n] \o Downs(m, k)
      /\ events'[m] = events[m] \o Downs(n, k)
      /\ \A p \in Nodes \ {n, m} : events'[p] = events[p]
  BY <1>2, <1>3
<1>a. /\ DownFollows(events'[n], m) /\ QueuedFrom(events'[n], m)
      /\ \A r : r # m /\ DownFollows(events[n], r) => DownFollows(events'[n], r)
      /\ \A r : QueuedFrom(events[n], r) => QueuedFrom(events'[n], r)
  <2>1. events[n] \in Seq(Events)
    BY <1>3
  <2> DEFINE r0 == events[n] \o Downs(m, k)
  <2>2. /\ DownFollows(r0, m) /\ QueuedFrom(r0, m)
        /\ \A r : r # m /\ DownFollows(events[n], r) => DownFollows(r0, r)
        /\ \A r : QueuedFrom(events[n], r) => QueuedFrom(r0, r)
    BY <1>1, <2>1, PushDowns
  <2>3. events'[n] = r0
    BY <1>4
  <2> HIDE DEF r0
  <2> QED BY <2>2, <2>3, Zenon
<1>b. /\ DownFollows(events'[m], n) /\ QueuedFrom(events'[m], n)
      /\ \A r : r # n /\ DownFollows(events[m], r) => DownFollows(events'[m], r)
      /\ \A r : QueuedFrom(events[m], r) => QueuedFrom(events'[m], r)
  <2>1. events[m] \in Seq(Events)
    BY <1>3
  <2> DEFINE r0 == events[m] \o Downs(n, k)
  <2>2. /\ DownFollows(r0, n) /\ QueuedFrom(r0, n)
        /\ \A r : r # n /\ DownFollows(events[m], r) => DownFollows(r0, r)
        /\ \A r : QueuedFrom(events[m], r) => QueuedFrom(r0, r)
    BY <1>1, <2>1, PushDowns
  <2>3. events'[m] = r0
    BY <1>4
  <2> HIDE DEF r0
  <2> QED BY <2>2, <2>3, Zenon
<1>5. events' \in [Nodes -> Seq(Events)]
  <2>1. events[n] \o Downs(m, k) \in Seq(Events) /\ events[m] \o Downs(n, k) \in Seq(Events)
    BY <1>1, <1>3, PushDowns
  <2> QED BY <1>2, <1>3, <2>1
<1>6. open' \in [Links -> BOOLEAN]
  BY <1>2
<1>7. \A p, q \in Nodes : {p, q} # {n, m} => (Linked(p, q)' <=> Linked(p, q))
  <2> SUFFICES ASSUME NEW p \in Nodes, NEW q \in Nodes, {p, q} # {n, m}
               PROVE  \A l \in LinksOf(p, q) : open'[l] = open[l]
    BY DEF Linked, LinksOf
  <2> SUFFICES ASSUME NEW l \in LinksOf(p, q) PROVE l \notin ls
    BY <1>2, <1>3 DEF LinksOf
  <2>1. Ends[l] \in {<<p, q>>, <<q, p>>}
    BY DEF LinksOf
  <2>2. l \in ls => Ends[l] \in {<<n, m>>, <<m, n>>}
    BY DEF LinksOf
  <2> QED BY <2>1, <2>2
<1>8. OfflineEndsDown'
  <2> SUFFICES ASSUME NEW p \in Nodes, NEW q \in Nodes, p # q, ~Linked(p, q)'
               PROVE  DownFollows(events'[p], q)
    BY DEF OfflineEndsDown, DownFollows
  <2>1. CASE p = n /\ q = m
    BY <1>a, <1>b, <2>1
  <2>2. CASE p = m /\ q = n
    BY <1>a, <1>b, <2>2
  <2>3. CASE {p, q} # {n, m}
    <3>1. DownFollows(events[p], q)
      BY <1>7, <2>3 DEF OfflineEndsDown
    <3>2. CASE p = n
      BY <1>a, <1>b, <2>3, <3>1, <3>2
    <3>3. CASE p = m
      BY <1>a, <1>b, <2>3, <3>1, <3>3
    <3>4. CASE p \notin {n, m}
      BY <1>4, <3>1, <3>4
    <3> QED BY <3>2, <3>3, <3>4
  <2> QED BY <2>1, <2>2, <2>3
<1>9. ASSUME NEW p \in Nodes, NEW q \in Nodes, p # q,
             Linked(p, q) \/ QueuedFrom(events[p], q)
      PROVE  Linked(p, q)' \/ QueuedFrom(events'[p], q)
  <2>1. CASE p = n /\ q = m
    BY <1>a, <1>b, <2>1
  <2>2. CASE p = m /\ q = n
    BY <1>a, <1>b, <2>2
  <2>3. CASE {p, q} # {n, m}
    <3>1. QueuedFrom(events[p], q) => QueuedFrom(events'[p], q)
      <4>1. CASE p = n
        BY <1>a, <1>b, <4>1
      <4>2. CASE p = m
        BY <1>a, <1>b, <4>2
      <4>3. CASE p \notin {n, m}
        BY <1>4, <4>3
      <4> QED BY <4>1, <4>2, <4>3
    <3> QED BY <1>7, <1>9, <2>3, <3>1
  <2> QED BY <2>1, <2>2, <2>3
<1> QED BY <1>5, <1>6, <1>8, <1>9

\* One entry of one table is replaced.
SetEntry(n, m, x) ==
    /\ table' \in [Nodes -> [Nodes -> Entries \cup {None}]]
    /\ table'[n][m] = x
    /\ \A p, q \in Nodes : <<p, q>> # <<n, m>> => table'[p][q] = table[p][q]

\* The mark stays where it is if the new entry may stand there.
LEMMA SetLocal ==
    ASSUME OneLocalEntry, NEW n \in Nodes, NEW m \in Nodes, NEW x,
           x # None => (x.local <=> m = n),
           m = n => x # None,
           SetEntry(n, m, x)
    PROVE  OneLocalEntry'
<1>1. ASSUME NEW p \in Nodes, NEW q \in Nodes
      PROVE  /\ table'[p][p] # None
             /\ table'[p][q] # None => (table'[p][q].local <=> q = p)
  <2>1. table'[p][p] # None
    BY DEF OneLocalEntry, SetEntry
  <2>2. CASE p = n /\ q = m
    BY <2>1, <2>2 DEF SetEntry
  <2>3. CASE <<p, q>> # <<n, m>>
    <3>1. table'[p][q] = table[p][q]
      BY <2>3 DEF SetEntry
    <3> QED BY <2>1, <3>1 DEF OneLocalEntry
  <2> QED BY <2>2, <2>3
<1> QED BY <1>1 DEF OneLocalEntry

\* The entry of a peer, or of the node itself, after remove_peer.
LEMMA Removed ==
    ASSUME TypeOK, OneLocalEntry, NEW n \in Nodes, NEW m \in Nodes
    PROVE  /\ remove_peer(table[n][m]) \in Entries \cup {None}
           /\ remove_peer(table[n][m]) # None => (remove_peer(table[n][m]).local <=> m = n)
           /\ m = n => remove_peer(table[n][m]) # None
           /\ m # n => remove_peer(table[n][m]) = None
<1>1. table[n][m] \in Entries \cup {None}
  BY DEF TypeOK
<1>2. /\ table[n][n] # None
      /\ table[n][m] # None => (table[n][m].local <=> m = n)
  BY DEF OneLocalEntry
<1> QED BY <1>1, <1>2, Remove

\* A node handles the event at the head of its queue: the entry of the
\* event's peer becomes x, which is nothing if a connection ended.
LEMMA Handled ==
    ASSUME IInv, NEW n \in Nodes, events[n] # <<>>,
           NEW m \in Nodes, Head(events[n]).peer = m,
           NEW x \in Entries \cup {None},
           x # None => (x.local <=> m = n),
           m = n => x # None,
           m # n /\ x # None => Head(events[n]).kind # "down",
           SetEntry(n, m, x),
           UNCHANGED open,
           events'[n] = Tail(events[n]),
           \A p \in Nodes \ {n} : \A r \in Nodes :
              /\ ~Linked(p, r) /\ DownFollows(events[p], r) => DownFollows(events'[p], r)
              /\ QueuedFrom(events[p], r) => QueuedFrom(events'[p], r)
    PROVE  OneLocalEntry' /\ OfflineEndsDown' /\ ListedIsOnline'
<1>0. TypeOK /\ OneLocalEntry
  BY DEF IInv
<1>1. OneLocalEntry'
  BY <1>0, SetLocal
<1>2. events[n] \in Seq(Events)
  BY DEF IInv, TypeOK
<1>3. \A p, q \in Nodes : Linked(p, q)' <=> Linked(p, q)
  BY DEF Linked, LinksOf
<1>4. \A q \in Nodes :
        /\ DownFollows(events[n], q) => DownFollows(events'[n], q)
        /\ QueuedFrom(events[n], q) /\ m # q => QueuedFrom(events'[n], q)
        /\ DownFollows(events[n], q) /\ m = q /\ Head(events[n]).kind # "down"
              => QueuedFrom(events'[n], q)
  <2> SUFFICES ASSUME NEW q \in Nodes
               PROVE  /\ DownFollows(events[n], q) => DownFollows(Tail(events[n]), q)
                      /\ QueuedFrom(events[n], q) /\ m # q => QueuedFrom(Tail(events[n]), q)
                      /\ DownFollows(events[n], q) /\ m = q /\ Head(events[n]).kind # "down"
                            => QueuedFrom(Tail(events[n]), q)
    BY Zenon
  <2> QED BY <1>2, Pop
<1>5. OfflineEndsDown'
  <2> SUFFICES ASSUME NEW p \in Nodes, NEW q \in Nodes, p # q, ~Linked(p, q)
               PROVE  DownFollows(events'[p], q)
    BY <1>3 DEF OfflineEndsDown, DownFollows
  <2>1. DownFollows(events[p], q)
    BY DEF IInv, OfflineEndsDown
  <2>2. CASE p = n
    BY <1>4, <2>1, <2>2
  <2>3. CASE p # n
    BY <2>1, <2>3
  <2> QED BY <2>2, <2>3
<1>6. ListedIsOnline'
  <2> SUFFICES ASSUME NEW p \in Nodes, NEW q \in Nodes, p # q, table'[p][q] # None,
                      ~Linked(p, q)
               PROVE  QueuedFrom(events'[p], q)
    BY <1>3 DEF ListedIsOnline, QueuedFrom
  <2>1. DownFollows(events[p], q)
    BY DEF IInv, OfflineEndsDown
  <2>2. CASE p = n /\ q = m
    <3>1. Head(events[n]).kind # "down"
      BY <2>2 DEF SetEntry
    <3> QED BY <1>4, <2>1, <2>2, <3>1
  <2>3. CASE <<p, q>> # <<n, m>>
    <3>1. QueuedFrom(events[p], q)
      <4>1. table[p][q] # None
        BY <2>3 DEF SetEntry
      <4> QED BY <4>1 DEF IInv, ListedIsOnline
    <3>2. CASE p = n
      BY <1>4, <2>3, <3>1, <3>2
    <3>3. CASE p # n
      BY <3>1, <3>3
    <3> QED BY <3>2, <3>3
  <2> QED BY <2>2, <2>3
<1> QED BY <1>1, <1>5, <1>6

\* What the steps make of the history.
LEMMA ExcuseType ==
    ASSUME excuse \in Excuses
    PROVE  /\ \A n, m \in Nodes : [excuse EXCEPT !.lost = @ \cup Both(n, m)] \in Excuses
           /\ \A m \in Nodes : [excuse EXCEPT !.untold = @ \cup About(m)] \in Excuses
           /\ \A S, T : [excuse EXCEPT !.lost = @ \ S, !.untold = @ \ T] \in Excuses
           /\ \A S : [excuse EXCEPT !.unlisted = @ \ S] \in Excuses
           /\ \A m \in Nodes, list \in Lists :
                 [excuse EXCEPT !.unlisted = @ \cup {<<m, list>>}] \in Excuses
           /\ \A S \in SUBSET (Nodes \X Lists), T \in SUBSET (Nodes \X Nodes) :
                 [excuse EXCEPT !.unlisted = @ \cup S, !.untold = T] \in Excuses
<1> USE DEF Excuses
<1>1. \A n, m \in Nodes : Both(n, m) \in SUBSET (Nodes \X Nodes)
  BY DEF Both
<1>2. \A m \in Nodes : About(m) \in SUBSET (Nodes \X Nodes)
  BY DEF About
<1>3. \A S \in SUBSET (Nodes \X Nodes) :
         /\ [excuse EXCEPT !.lost = @ \cup S] \in Excuses
         /\ [excuse EXCEPT !.untold = @ \cup S] \in Excuses
  OBVIOUS
<1>4. \A S, T : [excuse EXCEPT !.lost = @ \ S, !.untold = @ \ T] \in Excuses
  OBVIOUS
<1>5. \A S : [excuse EXCEPT !.unlisted = @ \ S] \in Excuses
  OBVIOUS
<1>6. \A S \in SUBSET (Nodes \X Lists) : [excuse EXCEPT !.unlisted = @ \cup S] \in Excuses
  OBVIOUS
<1>7. \A S \in SUBSET (Nodes \X Lists), T \in SUBSET (Nodes \X Nodes) :
         [excuse EXCEPT !.unlisted = @ \cup S, !.untold = T] \in Excuses
  OBVIOUS
<1>8. \A m \in Nodes, list \in Lists : {<<m, list>>} \in SUBSET (Nodes \X Lists)
  OBVIOUS
<1> HIDE DEF Excuses
<1> QED BY <1>1, <1>2, <1>3, <1>4, <1>5, <1>6, <1>7, <1>8

\* The list of a task is one of the two.
LEMMA ListType == \A what : ListOf(what) \in Lists
  BY DEF ListOf, Lists

\* Change counts within its bound.
LEMMA ChangeType == TypeOK /\ Change => changes' \in 0..MaxChanges
  BY Consts DEF TypeOK, Change

(***************************************************************************)
(* The steps preserve the invariant.                                       *)
(***************************************************************************)
\* A connection comes up.
LEMMA OpenIInv ==
    ASSUME IInv, NEW l \in Links, Open(l)
    PROVE  IInv'
<1> DEFINE a == Ends[l][1]
           b == Ends[l][2]
<1>1. /\ a \in Nodes /\ b \in Nodes /\ a # b
      /\ Ends[l] = <<a, b>>
  BY EndsType
<1> HIDE DEF a, b
<1>2. /\ open' = [open EXCEPT ![l] = TRUE]
      /\ events' = [[events EXCEPT ![a] = Append(@, Event("up", b))]
                           EXCEPT ![b] = Append(@, Event("up", a))]
      /\ excuse' = [excuse EXCEPT !.lost   = @ \ Both(a, b),
                                  !.untold = @ \ {p \in Both(a, b) : CanTell(p[2])}]
      /\ UNCHANGED <<table, held, task>>
      /\ Change
  BY DEF Open, a, b
<1>3. /\ events \in [Nodes -> Seq(Events)]
      /\ open \in [Links -> BOOLEAN]
  BY DEF IInv, TypeOK
<1>4. /\ Event("up", a) \in Events /\ Event("up", b) \in Events
      /\ Event("up", a).peer = a /\ Event("up", b).peer = b
  BY <1>1, EventType DEF Event
<1>5. /\ events'[a] = Append(events[a], Event("up", b))
      /\ events'[b] = Append(events[b], Event("up", a))
      /\ \A p \in Nodes \ {a, b} : events'[p] = events[p]
  BY <1>1, <1>2, <1>3
<1>6. TypeOK'
  <2>1. events' \in [Nodes -> Seq(Events)]
    <3>1. /\ Append(events[a], Event("up", b)) \in Seq(Events)
          /\ Append(events[b], Event("up", a)) \in Seq(Events)
      BY <1>1, <1>3, <1>4
    <3> QED BY <1>1, <1>2, <1>3, <3>1
  <2>2. open' \in [Links -> BOOLEAN]
    BY <1>2, <1>3
  <2>3. changes' \in 0..MaxChanges
    BY <1>2, ChangeType DEF IInv
  <2>4. excuse' \in Excuses
    BY <1>2, ExcuseType DEF IInv, TypeOK
  <2> QED BY <1>2, <2>1, <2>2, <2>3, <2>4 DEF IInv, TypeOK
<1>7. \A p, q \in Nodes : Linked(p, q) => Linked(p, q)'
  BY <1>2, <1>3 DEF Linked, LinksOf
<1>8. Linked(a, b)' /\ Linked(b, a)'
  <2>1. open'[l]
    BY <1>2, <1>3
  <2> QED BY <1>1, <2>1 DEF Linked, LinksOf
<1>9. \A p, q \in Nodes : p # q /\ ~Linked(p, q)' =>
         /\ DownFollows(events[p], q) => DownFollows(events'[p], q)
         /\ QueuedFrom(events[p], q) => QueuedFrom(events'[p], q)
  <2> SUFFICES ASSUME NEW p \in Nodes, NEW q \in Nodes, p # q, ~Linked(p, q)'
               PROVE  /\ DownFollows(events[p], q) => DownFollows(events'[p], q)
                      /\ QueuedFrom(events[p], q) => QueuedFrom(events'[p], q)
    BY Zenon
  <2>1. events[a] \in Seq(Events) /\ events[b] \in Seq(Events)
    BY <1>1, <1>3
  <2>2. CASE p = a
    <3>1. q # b
      BY <1>8, <2>2
    <3> DEFINE r == Append(events[a], Event("up", b))
    <3>2. /\ DownFollows(events[a], q) => DownFollows(r, q)
          /\ QueuedFrom(events[a], q) => QueuedFrom(r, q)
      BY <1>4, <2>1, <3>1, PushOther
    <3>3. events'[a] = r
      BY <1>5
    <3> HIDE DEF r
    <3> QED BY <2>2, <3>2, <3>3, Zenon
  <2>3. CASE p = b
    <3>1. q # a
      BY <1>8, <2>3
    <3> DEFINE r == Append(events[b], Event("up", a))
    <3>2. /\ DownFollows(events[b], q) => DownFollows(r, q)
          /\ QueuedFrom(events[b], q) => QueuedFrom(r, q)
      BY <1>4, <2>1, <3>1, PushOther
    <3>3. events'[b] = r
      BY <1>5
    <3> HIDE DEF r
    <3> QED BY <2>3, <3>2, <3>3, Zenon
  <2>4. CASE p \notin {a, b}
    <3>1. events'[p] = events[p]
      BY <1>5, <2>4
    <3> QED BY <3>1, Zenon
  <2> QED BY <2>2, <2>3, <2>4
<1>10. OneLocalEntry'
  BY <1>2 DEF IInv, OneLocalEntry
<1>11. OfflineEndsDown'
  <2> SUFFICES ASSUME NEW p \in Nodes, NEW q \in Nodes, p # q, ~Linked(p, q)'
               PROVE  DownFollows(events'[p], q)
    BY DEF OfflineEndsDown, DownFollows
  <2>1. DownFollows(events[p], q)
    BY <1>7 DEF IInv, OfflineEndsDown
  <2> QED BY <1>9, <2>1
<1>12. ListedIsOnline'
  <2> SUFFICES ASSUME NEW p \in Nodes, NEW q \in Nodes, p # q, table'[p][q] # None,
                      ~Linked(p, q)'
               PROVE  QueuedFrom(events'[p], q)
    BY DEF ListedIsOnline, QueuedFrom
  <2>1. QueuedFrom(events[p], q)
    BY <1>2, <1>7 DEF IInv, ListedIsOnline
  <2> QED BY <1>9, <2>1
<1> QED BY <1>6, <1>10, <1>11, <1>12 DEF IInv

\* A connection goes down.
LEMMA CloseIInv ==
    ASSUME IInv, NEW l \in Links, Close(l)
    PROVE  IInv'
<1> DEFINE a == Ends[l][1]
           b == Ends[l][2]
<1>1. a \in Nodes /\ b \in Nodes /\ a # b /\ {l} \in SUBSET LinksOf(a, b)
  BY EndsType DEF LinksOf
<1>2. CloseLinks(a, b, {l}) /\ UNCHANGED <<table, held, task, excuse>> /\ Change
  BY DEF Close
<1> HIDE DEF a, b
<1>3. /\ open' \in [Links -> BOOLEAN]
      /\ events' \in [Nodes -> Seq(Events)]
      /\ OfflineEndsDown'
      /\ \A p, q \in Nodes :
            p # q /\ (Linked(p, q) \/ QueuedFrom(events[p], q))
              => Linked(p, q)' \/ QueuedFrom(events'[p], q)
  <2>1. TypeOK /\ OfflineEndsDown /\ {l} # {}
    BY DEF IInv
  <2> QED BY <1>1, <1>2, <2>1, Closing, Zenon
<1>4. TypeOK'
  <2>1. changes' \in 0..MaxChanges
    BY <1>2, ChangeType DEF IInv
  <2> QED BY <1>2, <1>3, <2>1 DEF IInv, TypeOK
<1>5. OneLocalEntry'
  BY <1>2 DEF IInv, OneLocalEntry
<1>6. ListedIsOnline'
  <2> SUFFICES ASSUME NEW p \in Nodes, NEW q \in Nodes, p # q, table'[p][q] # None
               PROVE  Linked(p, q)' \/ QueuedFrom(events'[p], q)
    BY DEF ListedIsOnline, QueuedFrom
  <2>1. Linked(p, q) \/ QueuedFrom(events[p], q)
    BY <1>2 DEF IInv, ListedIsOnline
  <2> QED BY <1>3, <2>1
<1> QED BY <1>3, <1>4, <1>5, <1>6 DEF IInv

\* A peer is disconnected by a script.
LEMMA DisconnectIInv ==
    ASSUME IInv, NEW n \in Nodes, NEW m \in Nodes, Disconnect(n, m)
    PROVE  IInv'
<1> DEFINE x == remove_peer(table[n][m])
<1>1. /\ x \in Entries \cup {None}
      /\ x # None => (x.local <=> m = n)
      /\ m = n => x # None
      /\ m # n => x = None
  BY Removed DEF IInv
<1>2. SetEntry(n, m, x)
  <2>1. table' = [table EXCEPT ![n][m] = x]
    BY DEF Disconnect
  <2> HIDE DEF x
  <2> QED BY <1>1, <2>1 DEF IInv, TypeOK, SetEntry
<1>3. UNCHANGED <<held, task, excuse>>
  BY DEF Disconnect
<1> HIDE DEF x
<1>4. OneLocalEntry'
  BY <1>1, <1>2, SetLocal DEF IInv
<1>5. /\ open' \in [Links -> BOOLEAN]
      /\ events' \in [Nodes -> Seq(Events)]
      /\ changes' \in 0..MaxChanges
      /\ OfflineEndsDown'
      /\ \A p, q \in Nodes :
            p # q /\ (Linked(p, q) \/ QueuedFrom(events[p], q))
              => Linked(p, q)' \/ QueuedFrom(events'[p], q)
  <2>1. CASE ~Linked(n, m) /\ UNCHANGED <<open, events, changes>>
    <3>1. OfflineEndsDown'
      BY <2>1 DEF IInv, OfflineEndsDown, DownFollows, Linked, LinksOf
    <3>2. \A p, q \in Nodes : Linked(p, q)' <=> Linked(p, q)
      BY <2>1 DEF Linked, LinksOf
    <3> QED BY <2>1, <3>1, <3>2 DEF IInv, TypeOK
  <2>2. CASE /\ Linked(n, m) /\ Change
             /\ CloseLinks(n, m, {l \in LinksOf(n, m) : open[l]})
    <3> DEFINE ls == {l \in LinksOf(n, m) : open[l]}
    <3>1. ls \in SUBSET LinksOf(n, m) /\ ls # {} /\ n # m
      <4>1. PICK l \in LinksOf(n, m) : open[l]
        BY <2>2 DEF Linked
      <4>2. n # m
        BY <4>1, EndsType DEF LinksOf
      <4> QED BY <4>1, <4>2
    <3>2. TypeOK /\ OfflineEndsDown /\ CloseLinks(n, m, ls)
      BY <2>2 DEF IInv
    <3>3. changes' \in 0..MaxChanges
      BY <2>2, <3>2, ChangeType
    <3> HIDE DEF ls
    <3>4. /\ open' \in [Links -> BOOLEAN]
          /\ events' \in [Nodes -> Seq(Events)]
          /\ OfflineEndsDown'
          /\ \A p, q \in Nodes :
                p # q /\ (Linked(p, q) \/ QueuedFrom(events[p], q))
                  => Linked(p, q)' \/ QueuedFrom(events'[p], q)
      BY <3>1, <3>2, Closing, Zenon
    <3> QED BY <3>3, <3>4
  <2> QED BY <2>1, <2>2 DEF Disconnect
<1>6. TypeOK'
  BY <1>2, <1>3, <1>5 DEF IInv, TypeOK, SetEntry
<1>7. ListedIsOnline'
  <2> SUFFICES ASSUME NEW p \in Nodes, NEW q \in Nodes, p # q, table'[p][q] # None
               PROVE  Linked(p, q)' \/ QueuedFrom(events'[p], q)
    BY DEF ListedIsOnline, QueuedFrom
  <2>1. table[p][q] # None
    BY <1>1, <1>2 DEF SetEntry
  <2>2. Linked(p, q) \/ QueuedFrom(events[p], q)
    BY <2>1 DEF IInv, ListedIsOnline
  <2> QED BY <1>5, <2>2
<1> QED BY <1>4, <1>5, <1>6, <1>7 DEF IInv

\* A connection that came up is handled.
LEMMA EstablishedIInv ==
    ASSUME IInv, NEW n \in Nodes, ConnectionEstablished(n)
    PROVE  IInv'
<1> DEFINE m    == Head(events[n]).peer
           x    == upsert_peer(table[n][m], NewPeer)
           info == InfoEvent(n, build_local_info_payload(table[n][n]), None)
<1>1. /\ events \in [Nodes -> Seq(Events)]
      /\ table \in [Nodes -> [Nodes -> Entries \cup {None}]]
  BY DEF IInv, TypeOK
<1>2. /\ events[n] # <<>> /\ Head(events[n]).kind = "up"
      /\ table' = [table EXCEPT ![n][m] = x]
      /\ events' = [[events EXCEPT ![n] = Tail(@)]
                           EXCEPT ![m] = IF Linked(n, m) THEN Append(@, info) ELSE @]
      /\ UNCHANGED <<open, held, task, excuse, changes>>
  BY DEF ConnectionEstablished
<1>3. m \in Nodes
  <2>1. events[n] \in Seq(Events) /\ events[n] # <<>>
    BY <1>1, <1>2
  <2> QED BY <2>1, HeadType
<1>4. info \in Events /\ info.peer = n
  <2>1. build_local_info_payload(table[n][n]) \in Infos
    BY <1>1 DEF build_local_info_payload, Infos, Entries, IInv, OneLocalEntry
  <2>2. info \in Events
    BY <2>1, EventType
  <2> QED BY <2>2 DEF InfoEvent
<1>5. /\ x \in Entries
      /\ x # None => (x.local <=> m = n)
      /\ m = n => x # None
  <2>1. table[n][m] \in Entries \cup {None}
    BY <1>1, <1>3
  <2>2. x \in Entries /\ x.local = IF table[n][m] = None THEN FALSE ELSE table[n][m].local
    BY <2>1, Upsert, NewPeerType
  <2>3. /\ table[n][n] # None
        /\ table[n][m] # None => (table[n][m].local <=> m = n)
    BY <1>3 DEF IInv, OneLocalEntry
  <2> HIDE DEF x, m
  <2> QED BY <2>1, <2>2, <2>3, Consts
<1> HIDE DEF x, m, info
<1>6. SetEntry(n, m, x)
  BY <1>1, <1>2, <1>3, <1>5 DEF SetEntry
<1>7. Linked(n, m) => n # m
  BY EndsType DEF Linked, LinksOf
<1>8. /\ events'[n] = Tail(events[n])
      /\ n # m /\ Linked(n, m) => events'[m] = Append(events[m], info)
      /\ \A p \in Nodes \ {n} : p # m \/ ~Linked(n, m) => events'[p] = events[p]
  BY <1>1, <1>2, <1>3, <1>7
<1>9. TypeOK'
  <2>1. Tail(events[n]) \in Seq(Events) /\ Append(events[m], info) \in Seq(Events)
    BY <1>1, <1>2, <1>3, <1>4
  <2>2. events' \in [Nodes -> Seq(Events)]
    BY <1>1, <1>2, <1>3, <1>7, <2>1
  <2> QED BY <1>2, <1>6, <2>2 DEF IInv, TypeOK, SetEntry
<1>10. \A p \in Nodes \ {n} : \A r \in Nodes :
          /\ ~Linked(p, r) /\ DownFollows(events[p], r) => DownFollows(events'[p], r)
          /\ QueuedFrom(events[p], r) => QueuedFrom(events'[p], r)
  <2> SUFFICES ASSUME NEW p \in Nodes \ {n}, NEW r \in Nodes
               PROVE  /\ ~Linked(p, r) /\ DownFollows(events[p], r) => DownFollows(events'[p], r)
                      /\ QueuedFrom(events[p], r) => QueuedFrom(events'[p], r)
    BY Zenon
  <2>1. CASE p # m \/ ~Linked(n, m)
    <3>1. events'[p] = events[p]
      BY <1>8, <2>1
    <3> QED BY <3>1, Zenon
  <2>2. CASE p = m /\ Linked(n, m)
    <3> DEFINE q == Append(events[m], info)
    <3>1. Linked(m, n)
      BY <2>2 DEF Linked, LinksOf
    <3>2. events[m] \in Seq(Events)
      BY <1>1, <1>3
    <3>3. r # n => /\ DownFollows(events[m], r) => DownFollows(q, r)
                   /\ QueuedFrom(events[m], r) => QueuedFrom(q, r)
      BY <1>4, <3>2, PushOther
    <3>4. QueuedFrom(q, n)
      <4>1. Len(events[m]) + 1 \in DOMAIN q /\ q[Len(events[m]) + 1] = info
        BY <1>4, <3>2
      <4> QED BY <1>4, <4>1 DEF QueuedFrom
    <3>5. events'[m] = q
      BY <1>8, <2>2
    <3> HIDE DEF q
    <3> QED BY <2>2, <3>1, <3>3, <3>4, <3>5, Zenon
  <2> QED BY <2>1, <2>2
<1>11. OneLocalEntry' /\ OfflineEndsDown' /\ ListedIsOnline'
  <2>1. Head(events[n]).peer = m
    BY DEF m
  <2>2. m # n /\ x # None => Head(events[n]).kind # "down"
    BY <1>2
  <2>3. x \in Entries \cup {None}
    BY <1>5
  <2>4. events[n] # <<>> /\ events'[n] = Tail(events[n]) /\ UNCHANGED open
    BY <1>2, <1>8
  <2> QED BY <1>3, <1>5, <1>6, <1>10, <2>1, <2>2, <2>3, <2>4, Handled, Zenon
<1> QED BY <1>9, <1>11 DEF IInv

\* A connection that went down is handled.
LEMMA ClosedIInv ==
    ASSUME IInv, NEW n \in Nodes, ConnectionClosed(n)
    PROVE  IInv'
<1> DEFINE m == Head(events[n]).peer
           x == remove_peer(table[n][m])
<1>1. /\ events \in [Nodes -> Seq(Events)]
      /\ table \in [Nodes -> [Nodes -> Entries \cup {None}]]
  BY DEF IInv, TypeOK
<1>2. /\ events[n] # <<>>
      /\ table' = [table EXCEPT ![n][m] = x]
      /\ events' = [events EXCEPT ![n] = Tail(@)]
      /\ excuse' \in {excuse, [excuse EXCEPT !.lost = @ \cup Both(n, m)]}
      /\ UNCHANGED <<open, held, task, changes>>
  BY DEF ConnectionClosed
<1>3. m \in Nodes
  <2>1. events[n] \in Seq(Events) /\ events[n] # <<>>
    BY <1>1, <1>2
  <2> QED BY <2>1, HeadType
<1>4. /\ x \in Entries \cup {None}
      /\ x # None => (x.local <=> m = n)
      /\ m = n => x # None
      /\ m # n => x = None
  BY <1>3, Removed DEF IInv
<1> HIDE DEF x, m
<1>5. SetEntry(n, m, x)
  BY <1>1, <1>2, <1>3, <1>4 DEF SetEntry
<1>6. /\ events'[n] = Tail(events[n])
      /\ \A p \in Nodes \ {n} : events'[p] = events[p]
  BY <1>1, <1>2
<1>7. TypeOK'
  <2>1. events' \in [Nodes -> Seq(Events)]
    BY <1>1, <1>2
  <2>2. excuse' \in Excuses
    <3>1. excuse \in Excuses
      BY DEF IInv, TypeOK
    <3>2. [excuse EXCEPT !.lost = @ \cup Both(n, m)] \in Excuses
      BY <1>3, <3>1, ExcuseType
    <3> QED BY <1>2, <3>1, <3>2
  <2> QED BY <1>2, <1>5, <2>1, <2>2 DEF IInv, TypeOK, SetEntry
<1>8. OneLocalEntry' /\ OfflineEndsDown' /\ ListedIsOnline'
  <2>1. Head(events[n]).peer = m
    BY DEF m
  <2>2. events[n] # <<>> /\ UNCHANGED open
    BY <1>2
  <2>3. \A p \in Nodes \ {n} : \A r \in Nodes :
          /\ ~Linked(p, r) /\ DownFollows(events[p], r) => DownFollows(events'[p], r)
          /\ QueuedFrom(events[p], r) => QueuedFrom(events'[p], r)
    BY <1>6, Zenon
  <2> QED BY <1>3, <1>4, <1>5, <1>6, <2>1, <2>2, <2>3, Handled, Zenon
<1> QED BY <1>7, <1>8 DEF IInv

\* An Info request is handled.
LEMMA InfoIInv ==
    ASSUME IInv, NEW n \in Nodes, InfoReceived(n)
    PROVE  IInv'
<1> DEFINE e == Head(events[n])
           m == e.peer
           x == ApplyInfo(table[n][m], e.info)
<1>1. /\ events \in [Nodes -> Seq(Events)]
      /\ table \in [Nodes -> [Nodes -> Entries \cup {None}]]
      /\ task \in [Tasks -> TaskStates]
  BY DEF IInv, TypeOK
<1>2. /\ events[n] # <<>> /\ Head(events[n]).kind = "info"
      /\ table' = [table EXCEPT ![n][m] = x]
      /\ task' = IF e.reply = None THEN task
                 ELSE [task EXCEPT ![e.reply].pc = "Send", ![e.reply].to = None]
      /\ events' = [events EXCEPT ![n] = Tail(@)]
      /\ UNCHANGED <<open, held, excuse, changes>>
  BY DEF InfoReceived
<1>3. e \in Events
  BY <1>1, <1>2
<1>4. m \in Nodes /\ e.info \in Infos /\ e.reply \in Tasks \cup {None}
  BY <1>3 DEF Events
<1>5. /\ x \in Entries \cup {None}
      /\ x # None => (x.local <=> m = n)
      /\ m = n => x # None
  <2>1. table[n][m] \in Entries \cup {None}
    BY <1>1, <1>4
  <2>2. /\ table[n][n] # None
        /\ table[n][m] # None => (table[n][m].local <=> m = n)
    BY <1>4 DEF IInv, OneLocalEntry
  <2>3. /\ x \in Entries \cup {None}
        /\ table[n][m] # None => x # None /\ x.local = table[n][m].local
        /\ table[n][m] = None /\ x # None => ~x.local
    BY <1>4, <2>1, Apply
  <2> HIDE DEF x, m
  <2> QED BY <2>2, <2>3
<1>6. task' \in [Tasks -> TaskStates]
  <2>1. CASE e.reply = None
    BY <1>1, <1>2, <2>1
  <2>2. CASE e.reply \in Tasks /\ e.reply # None
    <3> DEFINE r == e.reply
               y == [[task[r] EXCEPT !.pc = "Send"] EXCEPT !.to = None]
    <3>1. y \in TaskStates
      BY <1>1, <2>2 DEF TaskStates, TaskPCs
    <3>2. task' = [task EXCEPT ![r] = y]
      BY <1>1, <1>2, <2>2
    <3> HIDE DEF y, r
    <3> QED BY <1>1, <3>1, <3>2
  <2> QED BY <1>4, <2>1, <2>2
<1> HIDE DEF x, m, e
<1>7. SetEntry(n, m, x)
  BY <1>1, <1>2, <1>4, <1>5 DEF SetEntry
<1>8. /\ events'[n] = Tail(events[n])
      /\ \A p \in Nodes \ {n} : events'[p] = events[p]
  BY <1>1, <1>2
<1>9. TypeOK'
  <2>1. events' \in [Nodes -> Seq(Events)]
    BY <1>1, <1>2
  <2> QED BY <1>2, <1>6, <1>7, <2>1 DEF IInv, TypeOK, SetEntry
<1>10. OneLocalEntry' /\ OfflineEndsDown' /\ ListedIsOnline'
  <2>1. Head(events[n]).peer = m
    BY DEF m, e
  <2>2. m # n /\ x # None => Head(events[n]).kind # "down"
    BY <1>2
  <2>3. \A p \in Nodes \ {n} : \A r \in Nodes :
          /\ ~Linked(p, r) /\ DownFollows(events[p], r) => DownFollows(events'[p], r)
          /\ QueuedFrom(events[p], r) => QueuedFrom(events'[p], r)
    BY <1>8, Zenon
  <2>4. events[n] # <<>> /\ UNCHANGED open
    BY <1>2
  <2> QED BY <1>4, <1>5, <1>7, <1>8, <2>1, <2>2, <2>3, <2>4, Handled, Zenon
<1> QED BY <1>9, <1>10 DEF IInv

\* Steps that only replace an entry: an entry of another peer may only go.
LEMMA EntryOnly ==
    ASSUME IInv, NEW n \in Nodes, NEW m \in Nodes, NEW x,
           x # None => (x.local <=> m = n),
           m = n => x # None,
           m # n => x = None,
           SetEntry(n, m, x),
           UNCHANGED <<open, events>>, TypeOK'
    PROVE  IInv'
<1>1. OneLocalEntry'
  BY SetLocal DEF IInv
<1>2. OfflineEndsDown'
  BY DEF IInv, OfflineEndsDown, DownFollows, Linked, LinksOf
<1>3. ListedIsOnline'
  <2> SUFFICES ASSUME NEW p \in Nodes, NEW q \in Nodes, p # q, table'[p][q] # None
               PROVE  Linked(p, q)' \/ QueuedFrom(events'[p], q)
    BY DEF ListedIsOnline, QueuedFrom
  <2>1. table[p][q] # None
    BY DEF SetEntry
  <2>2. Linked(p, q) \/ QueuedFrom(events[p], q)
    BY <2>1 DEF IInv, ListedIsOnline
  <2>3. Linked(p, q)' <=> Linked(p, q)
    BY DEF Linked, LinksOf
  <2>4. events'[p] = events[p]
    OBVIOUS
  <2> QED BY <2>2, <2>3, <2>4, Zenon
<1> QED BY <1>1, <1>2, <1>3 DEF IInv

\* A ping times out.
LEMMA PingIInv ==
    ASSUME IInv, NEW n \in Nodes, NEW m \in Nodes, PingTimeout(n, m)
    PROVE  IInv'
<1> DEFINE x == remove_peer(table[n][m])
<1>1. /\ x \in Entries \cup {None}
      /\ x # None => (x.local <=> m = n)
      /\ m = n => x # None
      /\ m # n => x = None
  BY Removed DEF IInv
<1>2. table' = [table EXCEPT ![n][m] = x]
  BY DEF PingTimeout
<1> HIDE DEF x
<1>3. SetEntry(n, m, x)
  BY <1>1, <1>2 DEF IInv, TypeOK, SetEntry
<1>4. UNCHANGED <<open, events>>
  BY DEF PingTimeout
<1>5. TypeOK'
  <2>1. changes' \in 0..MaxChanges
    BY ChangeType DEF IInv, PingTimeout
  <2>2. excuse' \in Excuses
    BY ExcuseType DEF IInv, TypeOK, PingTimeout
  <2> QED BY <1>3, <2>1, <2>2 DEF IInv, TypeOK, SetEntry, PingTimeout
<1> QED BY <1>1, <1>3, <1>4, <1>5, EntryOnly, Zenon

\* The local entry of n changes into another entry with the mark.
LEMMA LocalOnly ==
    ASSUME IInv, NEW n \in Nodes, NEW x \in Entries, x.local = table[n][n].local,
           table' = [table EXCEPT ![n][n] = x]
    PROVE  /\ SetEntry(n, n, x)
           /\ x # None => (x.local <=> n = n)
           /\ x # None
<1>1. table[n][n] # None /\ table[n][n].local
  BY DEF IInv, OneLocalEntry
<1>2. SetEntry(n, n, x)
  BY DEF IInv, TypeOK, SetEntry
<1> QED BY <1>1, <1>2, Consts

\* The user names the node.
LEMMA NameIInv ==
    ASSUME IInv, NEW n \in Nodes, NEW name \in NamesOf[n], set_local_name(n, name)
    PROVE  IInv'
<1> DEFINE x == [table[n][n] EXCEPT !.name = name]
<1>1. table[n][n] \in Entries
  BY DEF IInv, TypeOK, OneLocalEntry
<1>2. name \in Names
  <2>1. NamesOf \in [Nodes -> SUBSET {"", "plain", "piped"}]
    BY ONLY PeerConstants DEF PeerConstants
  <2> QED BY <2>1 DEF Names
<1>3. x \in Entries /\ x.local = table[n][n].local
  BY <1>1, <1>2 DEF Entries
<1>4. table' = [table EXCEPT ![n][n] = x]
  BY DEF set_local_name
<1> HIDE DEF x
<1>5. SetEntry(n, n, x) /\ (x # None => (x.local <=> n = n)) /\ x # None
  BY <1>3, <1>4, LocalOnly
<1>6. UNCHANGED <<open, events>>
  BY DEF set_local_name
<1>7. TypeOK'
  <2>1. changes' \in 0..MaxChanges
    BY ChangeType DEF IInv, set_local_name
  <2>2. excuse' \in Excuses
    BY ExcuseType DEF IInv, TypeOK, set_local_name
  <2> QED BY <1>5, <2>1, <2>2 DEF IInv, TypeOK, SetEntry, set_local_name
<1> QED BY <1>5, <1>6, <1>7, EntryOnly, Zenon

\* A command enters what it found in the local entry.
LEMMA UpdateIInv ==
    ASSUME IInv, NEW t \in Tasks, UpdateLocal(t)
    PROVE  IInv'
<1> DEFINE n == Owner[t]
           x == IF task[t].what = "sessions"
                THEN [table[n][n] EXCEPT !.sessions = task[t].value.sessions]
                ELSE [table[n][n] EXCEPT !.models = task[t].value.models]
<1>1. n \in Nodes
  BY EndsType
<1>2. table[n][n] \in Entries /\ task[t] \in TaskStates /\ task \in [Tasks -> TaskStates]
  BY <1>1 DEF IInv, TypeOK, OneLocalEntry
<1>3. x \in Entries /\ x.local = table[n][n].local
  <2>1. task[t].value \in Infos
    BY <1>2 DEF TaskStates
  <2>2. task[t].value.sessions \in 0..MaxSessions /\ task[t].value.models \in SUBSET ModelFiles
    BY <2>1 DEF Infos
  <2> QED BY <1>2, <2>2 DEF Entries
<1>4. table' = [table EXCEPT ![n][n] = x]
  BY DEF UpdateLocal
<1>5. UNCHANGED <<open, events, held, changes>>
  BY DEF UpdateLocal
<1>6. task' \in [Tasks -> TaskStates] /\ excuse' \in Excuses
  <2>1. NoInfo \in Infos
    BY Consts DEF NoInfo, Infos, Names
  <2> DEFINE y == IF task[t].what = "script" THEN NoTask
                  ELSE [[task[t] EXCEPT !.pc = "Read"] EXCEPT !.value = NoInfo]
  <2>2. y \in TaskStates
    BY <1>2, <2>1 DEF TaskStates, TaskPCs, NoTask
  <2>3. task' = [task EXCEPT ![t] = y]
    BY <1>2 DEF UpdateLocal
  <2> HIDE DEF y
  <2>4. excuse' \in {excuse, [excuse EXCEPT !.untold = @ \cup About(Owner[t])]}
    BY DEF UpdateLocal
  <2> QED BY <1>1, <1>2, <2>2, <2>3, <2>4, ExcuseType DEF n, IInv, TypeOK
<1> HIDE DEF x, n
<1>7. SetEntry(n, n, x) /\ (x # None => (x.local <=> n = n)) /\ x # None
  BY <1>1, <1>3, <1>4, LocalOnly
<1>8. TypeOK'
  BY <1>5, <1>6, <1>7 DEF IInv, TypeOK, SetEntry
<1> QED BY <1>1, <1>5, <1>7, <1>8, EntryOnly, Zenon

\* The steps of a command that change nothing but the command and what the
\* node holds.
LEMMA CommandIInv ==
    ASSUME IInv, NEW t \in Tasks,
           \/ CreateSession(t)
           \/ \E what \in {"models", "script"}, models \in SUBSET ModelFiles : Flush(t, what, models)
           \/ ListHeld(t) \/ ReadLocal(t) \/ ReadPeers(t) \/ BroadcastDone(t)
    PROVE  IInv'
<1> DEFINE n == Owner[t]
<1>1. n \in Nodes /\ NoInfo \in Infos
  BY EndsType, Consts DEF NoInfo, Infos, Names
<1>2. /\ task \in [Tasks -> TaskStates] /\ task[t] \in TaskStates
      /\ held \in [Nodes -> [models : SUBSET ModelFiles, sessions : 0..MaxSessions]]
      /\ excuse \in Excuses
      /\ table[n][n] \in Entries
  BY <1>1 DEF IInv, TypeOK, OneLocalEntry
<1>3. About(n) \subseteq Nodes \X Nodes
  BY <1>1 DEF About
<1>4. UNCHANGED <<table, open, events>>
  BY DEF CreateSession, Flush, Start, ListHeld, ReadLocal, ReadPeers, BroadcastDone
<1>5. changes' \in 0..MaxChanges
  <2>1. Change \/ UNCHANGED changes
    BY DEF CreateSession, Flush, Start, ListHeld, ReadLocal, ReadPeers, BroadcastDone
  <2> QED BY <2>1, ChangeType DEF IInv, TypeOK
<1>6. /\ task' \in [Tasks -> TaskStates]
      /\ held' \in [Nodes -> [models : SUBSET ModelFiles, sessions : 0..MaxSessions]]
      /\ excuse' \in Excuses
  <2>0. ASSUME NEW what \in {"sessions", "models", "script"}, Start(t, what)
        PROVE  task' \in [Tasks -> TaskStates] /\ excuse' \in Excuses
    <3> DEFINE y == [[task[t] EXCEPT !.pc = "List"] EXCEPT !.what = what]
    <3>1. y \in TaskStates
      BY <1>2 DEF TaskStates, TaskPCs
    <3>2. task' = [task EXCEPT ![t] = y]
      BY <1>2, <2>0 DEF Start
    <3> HIDE DEF y
    <3> DEFINE list == IF Entering(n, ListOf(what)) = {} THEN {} ELSE {<<n, ListOf(what)>>}
               told == IF what # "script" /\ Publishing(n) THEN excuse.untold \cup About(n)
                       ELSE IF what # "script" /\ CanTell(n) THEN excuse.untold \ About(n)
                       ELSE excuse.untold
    <3>3. list \in SUBSET (Nodes \X Lists)
      BY <1>1, ListType
    <3>4. told \in SUBSET (Nodes \X Nodes)
      BY <1>2, <1>3 DEF Excuses
    <3>5. excuse' = [excuse EXCEPT !.unlisted = @ \cup list, !.untold = told]
      BY <2>0 DEF Start
    <3> HIDE DEF list, told
    <3>6. excuse' \in Excuses
      BY <1>2, <3>3, <3>4, <3>5, ExcuseType
    <3> QED BY <1>2, <3>1, <3>2, <3>6
  <2>1. CASE CreateSession(t)
    <3>1. held' = [held EXCEPT ![n].sessions = @ + 1] /\ held[n].sessions < MaxSessions
      BY <2>1 DEF CreateSession
    <3>2. held[n].sessions + 1 \in 0..MaxSessions
      <4>1. MaxSessions \in Nat
        BY PeerConstants
      <4> QED BY <1>1, <1>2, <3>1, <4>1
    <3>3. held' \in [Nodes -> [models : SUBSET ModelFiles, sessions : 0..MaxSessions]]
      BY <1>1, <1>2, <3>1, <3>2
    <3> QED BY <1>2, <2>0, <2>1, <3>3 DEF CreateSession
  <2>2. CASE \E what \in {"models", "script"}, models \in SUBSET ModelFiles : Flush(t, what, models)
    <3>1. PICK what \in {"models", "script"}, models \in SUBSET ModelFiles : Flush(t, what, models)
      BY <2>2
    <3>2. held' \in [Nodes -> [models : SUBSET ModelFiles, sessions : 0..MaxSessions]]
      BY <1>1, <1>2, <3>1 DEF Flush
    <3> QED BY <1>1, <1>2, <2>0, <3>1, <3>2 DEF Flush
  <2>3. CASE ListHeld(t)
    <3> DEFINE v == [name |-> "", models |-> held[n].models, sessions |-> held[n].sessions]
               y == [[task[t] EXCEPT !.pc = "Update"] EXCEPT !.value = v]
    <3>1. v \in Infos
      BY <1>1, <1>2 DEF Infos, Names
    <3>2. task' = [task EXCEPT ![t] = y] /\ UNCHANGED held
      BY <1>2, <2>3 DEF ListHeld
    <3> HIDE DEF v
    <3>3. y \in TaskStates
      BY <1>2, <3>1 DEF TaskStates, TaskPCs
    <3> HIDE DEF y
    <3>4. \/ excuse' = excuse
          \/ excuse' = [excuse EXCEPT !.unlisted = @ \ {<<n, ListOf(task[t].what)>>}]
      BY <2>3 DEF ListHeld
    <3> QED BY <1>2, <3>2, <3>3, <3>4, ExcuseType
  <2>4. CASE ReadLocal(t)
    <3> DEFINE v == build_local_info_payload(table[n][n])
               y == [[task[t] EXCEPT !.pc = "Peers"] EXCEPT !.value = v]
    <3>1. v \in Infos
      BY <1>2 DEF build_local_info_payload, Infos, Entries
    <3>2. task' = [task EXCEPT ![t] = y] /\ UNCHANGED <<held, excuse>>
      BY <1>2, <2>4 DEF ReadLocal
    <3> HIDE DEF v
    <3>3. y \in TaskStates
      BY <1>2, <3>1 DEF TaskStates, TaskPCs
    <3> HIDE DEF y
    <3> QED BY <1>2, <3>2, <3>3
  <2>5. CASE ReadPeers(t)
    <3> DEFINE v == {m \in Nodes \ {n} : table[n][m] # None}
               y == [[task[t] EXCEPT !.pc = "Send"] EXCEPT !.todo = v]
    <3>1. v \in SUBSET Nodes
      OBVIOUS
    <3>2. task' = [task EXCEPT ![t] = y] /\ UNCHANGED <<held, excuse>>
      BY <1>2, <2>5 DEF ReadPeers
    <3> HIDE DEF v
    <3>3. y \in TaskStates
      BY <1>2, <3>1 DEF TaskStates, TaskPCs
    <3> HIDE DEF y
    <3> QED BY <1>2, <3>2, <3>3
  <2>6. CASE BroadcastDone(t)
    <3>1. NoTask \in TaskStates
      BY <1>1 DEF NoTask, TaskStates, TaskPCs
    <3> QED BY <1>2, <2>6, <3>1 DEF BroadcastDone
  <2> QED BY <2>1, <2>2, <2>3, <2>4, <2>5, <2>6
<1>7. TypeOK'
  BY <1>4, <1>5, <1>6 DEF IInv, TypeOK
<1> QED BY <1>4, <1>7, Elsewhere

\* What a node has changes behind the back of everybody.
LEMMA ModelsIInv ==
    ASSUME IInv, NEW n \in Nodes, NEW models \in SUBSET ModelFiles, ModelsChange(n, models)
    PROVE  IInv'
<1>1. changes' \in 0..MaxChanges
  BY ChangeType DEF IInv, ModelsChange
<1>2. held' \in [Nodes -> [models : SUBSET ModelFiles, sessions : 0..MaxSessions]]
  BY DEF IInv, TypeOK, ModelsChange
<1>3. excuse' \in Excuses
  BY ExcuseType DEF IInv, TypeOK, ModelsChange, Lists
<1>4. UNCHANGED <<table, open, events, task>>
  BY DEF ModelsChange
<1>5. TypeOK'
  BY <1>1, <1>2, <1>3, <1>4 DEF IInv, TypeOK
<1> QED BY <1>4, <1>5, Elsewhere

\* The two ways it comes about.
LEMMA ModelsStep ==
    ASSUME IInv, NEW n \in Nodes,
           \/ \E models \in SUBSET ModelFiles : FlushFails(n, models)
           \/ \E f \in ModelFiles : DropModel(n, f)
    PROVE  \E models \in SUBSET ModelFiles : ModelsChange(n, models)
<1>1. held[n].models \in SUBSET ModelFiles
  BY DEF IInv, TypeOK
<1>2. \A f : held[n].models \ {f} \in SUBSET ModelFiles
  BY <1>1
<1> QED BY <1>2 DEF FlushFails, DropModel

\* Steps of a command that change the queues: what is about other peers
\* stays, and the queue of a node without a connection keeps what it must.
LEMMA QueuesOnly ==
    ASSUME IInv, TypeOK', UNCHANGED <<table, open>>,
           \A p, q \in Nodes : ~Linked(p, q) =>
              /\ DownFollows(events[p], q) => DownFollows(events'[p], q)
              /\ QueuedFrom(events[p], q) => QueuedFrom(events'[p], q)
    PROVE  IInv'
<1>1. \A p, q \in Nodes : Linked(p, q)' <=> Linked(p, q)
  BY DEF Linked, LinksOf
<1>2. OneLocalEntry'
  BY DEF IInv, OneLocalEntry
<1>3. OfflineEndsDown'
  <2> SUFFICES ASSUME NEW p \in Nodes, NEW q \in Nodes, p # q, ~Linked(p, q)
               PROVE  DownFollows(events'[p], q)
    BY <1>1 DEF OfflineEndsDown, DownFollows
  <2>1. DownFollows(events[p], q)
    BY DEF IInv, OfflineEndsDown
  <2> QED BY <2>1
<1>4. ListedIsOnline'
  <2> SUFFICES ASSUME NEW p \in Nodes, NEW q \in Nodes, p # q, table[p][q] # None,
                      ~Linked(p, q)
               PROVE  QueuedFrom(events'[p], q)
    BY <1>1 DEF ListedIsOnline, QueuedFrom
  <2>1. QueuedFrom(events[p], q)
    BY DEF IInv, ListedIsOnline
  <2> QED BY <2>1
<1> QED BY <1>2, <1>3, <1>4 DEF IInv

\* A command sends its Info to one peer.
LEMMA SendIInv ==
    ASSUME IInv, NEW t \in Tasks, NEW m \in Nodes, SendInfo(t, m)
    PROVE  IInv'
<1> DEFINE n == Owner[t]
<1>1. n \in Nodes
  BY EndsType
<1>2. /\ task \in [Tasks -> TaskStates] /\ task[t] \in TaskStates
      /\ events \in [Nodes -> Seq(Events)]
  BY DEF IInv, TypeOK
<1>3. UNCHANGED <<table, open, held, excuse, changes>>
  BY DEF SendInfo
<1>4. CASE /\ ~Linked(n, m) /\ UNCHANGED events
           /\ task' = [task EXCEPT ![t].todo = @ \ {m}]
  <2> DEFINE y == [task[t] EXCEPT !.todo = @ \ {m}]
  <2>1. y \in TaskStates
    BY <1>2 DEF TaskStates
  <2>2. task' = [task EXCEPT ![t] = y]
    BY <1>2, <1>4
  <2> HIDE DEF y
  <2>3. task' \in [Tasks -> TaskStates]
    BY <1>2, <2>1, <2>2
  <2>4. TypeOK'
    BY <1>3, <1>4, <2>3 DEF IInv, TypeOK
  <2> QED BY <1>3, <1>4, <2>4, Elsewhere
<1>5. CASE /\ Linked(n, m)
           /\ events' = [events EXCEPT ![m] = Append(@, InfoEvent(n, task[t].value, t))]
           /\ task' = [task EXCEPT ![t].pc = "Await", ![t].to = m, ![t].todo = @ \ {m}]
  <2> DEFINE e == InfoEvent(n, task[t].value, t)
             y == [[[task[t] EXCEPT !.pc = "Await"] EXCEPT !.to = m] EXCEPT !.todo = @ \ {m}]
  <2>1. task' \in [Tasks -> TaskStates]
    <3>1. y \in TaskStates
      BY <1>2 DEF TaskStates, TaskPCs
    <3>2. task' = [task EXCEPT ![t] = y]
      BY <1>2, <1>5
    <3> HIDE DEF y
    <3> QED BY <1>2, <3>1, <3>2
  <2>2. e \in Events /\ e.peer = n
    <3>1. task[t].value \in Infos
      BY <1>2 DEF TaskStates
    <3>2. e \in Events
      BY <1>1, <3>1, EventType
    <3> QED BY <3>2 DEF InfoEvent
  <2> HIDE DEF e
  <2>3. events' = [events EXCEPT ![m] = Append(@, e)]
    BY <1>5 DEF e
  <2>4. TypeOK'
    <3>1. Append(events[m], e) \in Seq(Events)
      BY <1>2, <2>2
    <3>2. events' \in [Nodes -> Seq(Events)]
      BY <1>2, <2>3, <3>1
    <3> QED BY <1>3, <2>1, <3>2 DEF IInv, TypeOK
  <2>5. Linked(m, n)
    BY <1>5 DEF Linked, LinksOf
  <2> HIDE DEF n
  <2>6. \A p, q \in Nodes : ~Linked(p, q) =>
           /\ DownFollows(events[p], q) => DownFollows(events'[p], q)
           /\ QueuedFrom(events[p], q) => QueuedFrom(events'[p], q)
    <3> SUFFICES ASSUME NEW p \in Nodes, NEW q \in Nodes, ~Linked(p, q)
                 PROVE  /\ DownFollows(events[p], q) => DownFollows(events'[p], q)
                        /\ QueuedFrom(events[p], q) => QueuedFrom(events'[p], q)
      BY Zenon
    <3>1. CASE p # m
      <4>1. events'[p] = events[p]
        BY <1>2, <2>3, <3>1
      <4> QED BY <4>1, Zenon
    <3>2. CASE p = m
      <4> DEFINE r == Append(events[m], e)
      <4>1. q # n
        BY <2>5, <3>2
      <4>2. events[m] \in Seq(Events)
        BY <1>2
      <4>3. /\ DownFollows(events[m], q) => DownFollows(r, q)
            /\ QueuedFrom(events[m], q) => QueuedFrom(r, q)
        BY <2>2, <4>1, <4>2, PushOther
      <4>4. events'[m] = r
        BY <1>2, <2>3
      <4> HIDE DEF r
      <4> QED BY <3>2, <4>3, <4>4, Zenon
    <3> QED BY <3>1, <3>2
  <2> QED BY <1>3, <2>4, <2>6, QueuesOnly
<1> QED BY <1>4, <1>5 DEF SendInfo

\* A request fails for the command that waits for it.
LEMMA FailsIInv ==
    ASSUME IInv, NEW t \in Tasks, SendFails(t)
    PROVE  IInv'
<1> DEFINE m    == task[t].to
           F(q) == [i \in DOMAIN q |-> IF q[i].reply = t THEN [q[i] EXCEPT !.reply = None]
                                       ELSE q[i]]
<1>1. /\ task \in [Tasks -> TaskStates] /\ task[t] \in TaskStates
      /\ events \in [Nodes -> Seq(Events)]
  BY DEF IInv, TypeOK
<1>2. /\ UNCHANGED <<table, open, held, excuse, changes>>
      /\ events' = [events EXCEPT ![m] = F(@)]
      /\ task' = [task EXCEPT ![t].pc = "Send", ![t].to = None]
  BY DEF SendFails
<1>3. task' \in [Tasks -> TaskStates]
  <2> DEFINE y == [[task[t] EXCEPT !.pc = "Send"] EXCEPT !.to = None]
  <2>1. y \in TaskStates
    BY <1>1 DEF TaskStates, TaskPCs
  <2>2. task' = [task EXCEPT ![t] = y]
    BY <1>1, <1>2
  <2> HIDE DEF y
  <2> QED BY <1>1, <2>1, <2>2
<1>4. ASSUME NEW q \in Seq(Events)
      PROVE  /\ F(q) \in Seq(Events)
             /\ \A p : DownFollows(q, p) => DownFollows(F(q), p)
             /\ \A p : QueuedFrom(q, p) => QueuedFrom(F(q), p)
  <2>1. \A i \in DOMAIN q : q[i] \in Events
    OBVIOUS
  <2>2. \A i \in DOMAIN q : [q[i] EXCEPT !.reply = None] \in Events
    BY <2>1 DEF Events
  <2>3. /\ DOMAIN F(q) = DOMAIN q
        /\ \A i \in DOMAIN q : F(q)[i] \in Events
        /\ \A i \in DOMAIN q : F(q)[i].peer = q[i].peer /\ F(q)[i].kind = q[i].kind
    BY <2>1, <2>2 DEF Events
  <2>4. F(q) \in Seq(Events)
    <3>1. DOMAIN q = 1..Len(q) /\ Len(q) \in Nat
      OBVIOUS
    <3> QED BY <2>1, <2>2, <3>1
  <2> HIDE DEF F
  <2> QED BY <2>3, <2>4 DEF DownFollows, QueuedFrom
<1>5. \A p \in Nodes : events'[p] = IF p = m THEN F(events[p]) ELSE events[p]
  BY <1>1, <1>2
<1>6. events' \in [Nodes -> Seq(Events)]
  <2>1. \A p \in Nodes : F(events[p]) \in Seq(Events)
    BY <1>1, <1>4
  <2> HIDE DEF F
  <2> QED BY <1>1, <1>2, <2>1
<1>7. TypeOK'
  BY <1>2, <1>3, <1>6 DEF IInv, TypeOK
<1>8. \A p, q \in Nodes : ~Linked(p, q) =>
         /\ DownFollows(events[p], q) => DownFollows(events'[p], q)
         /\ QueuedFrom(events[p], q) => QueuedFrom(events'[p], q)
  <2> SUFFICES ASSUME NEW p \in Nodes, NEW q \in Nodes
               PROVE  /\ DownFollows(events[p], q) => DownFollows(events'[p], q)
                      /\ QueuedFrom(events[p], q) => QueuedFrom(events'[p], q)
    BY Zenon
  <2>1. events[p] \in Seq(Events)
    BY <1>1
  <2>2. /\ DownFollows(events[p], q) => DownFollows(F(events[p]), q)
        /\ QueuedFrom(events[p], q) => QueuedFrom(F(events[p]), q)
    BY <1>4, <2>1
  <2>3. events'[p] = F(events[p]) \/ events'[p] = events[p]
    BY <1>5
  <2> HIDE DEF F
  <2> QED BY <2>2, <2>3, Zenon
<1> QED BY <1>2, <1>7, <1>8, QueuesOnly

\* Every step preserves the invariant.
LEMMA NextIInv == IInv /\ [Next]_vars => IInv'
<1> SUFFICES ASSUME IInv, [Next]_vars PROVE IInv'
  OBVIOUS
<1>1. CASE UNCHANGED vars
  <2>1. TypeOK'
    BY <1>1 DEF vars, IInv, TypeOK
  <2> QED BY <1>1, <2>1, Elsewhere DEF vars
<1>2. ASSUME NEW l \in Links, Open(l) \/ Close(l) PROVE IInv'
  BY <1>2, OpenIInv, CloseIInv
<1>3. ASSUME NEW n \in Nodes, NodeStep(n) PROVE IInv'
  <2>1. CASE ConnectionEstablished(n) \/ ConnectionClosed(n) \/ InfoReceived(n)
    BY <2>1, EstablishedIInv, ClosedIInv, InfoIInv
  <2>2. ASSUME NEW m \in Nodes, PingTimeout(n, m) \/ Disconnect(n, m) PROVE IInv'
    BY <2>2, PingIInv, DisconnectIInv
  <2>3. ASSUME NEW name \in NamesOf[n], set_local_name(n, name) PROVE IInv'
    BY <2>3, NameIInv
  <2>4. ASSUME NEW models \in SUBSET ModelFiles, ModelsChange(n, models) PROVE IInv'
    BY <2>4, ModelsIInv
  <2> QED BY <1>3, <2>1, <2>2, <2>3, <2>4, ModelsStep DEF NodeStep
<1>4. ASSUME NEW t \in Tasks, TaskStep(t) PROVE IInv'
  BY <1>4, CommandIInv, UpdateIInv, SendIInv, FailsIInv DEF TaskStep
<1> QED BY <1>1, <1>2, <1>3, <1>4 DEF Next

\* The invariant holds of all runs.
LEMMA AlwaysIInv == Spec => []IInv
<1> QED BY InitIInv, NextIInv, PTL DEF Spec

\* Tables, queues and commands keep their types: in particular no step takes
\* a field of an entry that is not there.
THEOREM PeerTypeCorrect == Spec => []TypeOK
<1>1. IInv => TypeOK
  BY DEF IInv
<1> QED BY <1>1, AlwaysIInv, PTL

\* The local entry survives every disconnect, closed connection and ping
\* timeout, and Info requests never give the mark to another entry: what
\* get_local_peer finds is there and is the node's own.
THEOREM LocalEntryKept == Spec => []OneLocalEntry
<1>1. IInv => OneLocalEntry
  BY DEF IInv
<1> QED BY <1>1, AlwaysIInv, PTL

\* "存在即在线": with any number of nodes and connections between two of them,
\* a listed peer is connected or has events that are still to be handled.
THEOREM OnlineListing == Spec => []ListedIsOnline
<1>1. IInv => ListedIsOnline
  BY DEF IInv
<1> QED BY <1>1, AlwaysIInv, PTL


(***************************************************************************)
(* ListsCurrent.  The invariant follows what one node n is told about      *)
(* another, m: what is queued at n from m, what the commands of m are      *)
(* about to send, and who knows whom.                                      *)
(***************************************************************************)
InfoAt(q, i, m) == q[i].peer = m /\ q[i].kind = "info"

NoSessions(q, m) == \A i \in DOMAIN q : InfoAt(q, i, m) => q[i].info.sessions = 0

\* Nothing is queued from m but ends of connections.
OnlyDowns(q, m) == \A i \in DOMAIN q : q[i].peer = m => q[i].kind = "down"

\* The last thing queued from m, ends of connections aside, is an Info with
\* these lists, which can be read.
LastInfo(q, m, models, sessions) ==
    \E i \in DOMAIN q :
        /\ InfoAt(q, i, m) /\ q[i].info.name # "piped"
        /\ q[i].info.models = models /\ q[i].info.sessions = sessions
        /\ \A j \in DOMAIN q : i < j /\ q[j].peer = m => q[j].kind = "down"

\* The points where a command has not read the peers yet; where it has read
\* the local entry.
Gathering == {"List", "Update", "Read", "Peers"}
Telling   == {"Peers", "Send", "Await"}

\* Of the tasks that end with a broadcast, m runs one at a time.
Publishes(t) == task[t].pc # "Idle" /\ task[t].what # "script"
Sole(m) ==
    \A t, u \in Tasks :
        Owner[t] = m /\ Owner[u] = m /\ Publishes(t) /\ Publishes(u) => t = u

\* Sessions are never closed: a node that reports none never had one, and
\* nobody has heard of one.
NoneHeard(n, m) ==
    table[m][m].sessions = 0 =>
        /\ table[n][m] # None => table[n][m].sessions = 0
        /\ NoSessions(events[n], m)

\* What a session command lists and tells; scripts tell nothing.
TaskShape(m) ==
    \A t \in Tasks : Owner[t] = m =>
        /\ task[t].what = "script" => task[t].pc \in {"List", "Update"}
        /\ task[t].what = "sessions" /\ task[t].pc = "List" => held[m].sessions > 0
        /\ task[t].what = "sessions" /\ task[t].pc = "Update" => task[t].value.sessions > 0
        /\ task[t].pc \in Telling /\ table[m][m].sessions = 0 => task[t].value.sessions = 0

\* The commands of m tell what its own entry has.
Faithful(m) ==
    /\ Sole(m)
    /\ table[m][m].name # "piped"
    /\ \A t \in Tasks : Owner[t] = m /\ task[t].pc \in Telling =>
          /\ task[t].value.name # "piped"
          /\ task[t].value.models = table[m][m].models
          /\ task[t].value.sessions = table[m][m].sessions

\* A connected peer is listed, or about to be.
Known(n, m) == table[n][m] # None \/ UpQueued(events[n], m)

\* Task t has n still to look up, or to tell.
ToTell(t, n) ==
    /\ task[t].what # "script"
    /\ \/ task[t].pc \in Gathering
       \/ task[t].pc \in {"Send", "Await"} /\ n \in task[t].todo

\* n has the lists of m in its table; an empty list of models goes unheard.
HasLists(n, m) ==
    /\ table[n][m] # None
    /\ table[m][m].models \in {{}, table[n][m].models}
    /\ table[n][m].sessions = table[m][m].sessions

\* n has the lists of m, or they are on their way.
Informed(n, m) ==
    \/ UpQueued(events[m], n)
    \/ \E t \in Tasks : Owner[t] = m /\ ToTell(t, n)
    \/ OnlyDowns(events[n], m) /\ HasLists(n, m)
    \/ LastInfo(events[n], m, table[m][m].models, table[m][m].sessions)

\* A node's own entry has what it holds, or its task is about to enter it.
OwnModels(m) ==
    /\ \A t, u \in Entering(m, "models") : t = u
    /\ table[m][m].models = held[m].models \/ Entering(m, "models") # {}
    /\ \A t \in Entering(m, "models") : task[t].pc = "Update" => task[t].value.models = held[m].models

OwnSessions(m) ==
    /\ \A t, u \in Entering(m, "sessions") : t = u
    /\ table[m][m].sessions = held[m].sessions \/ Entering(m, "sessions") # {}
    /\ \A t \in Entering(m, "sessions") : task[t].pc = "Update" => task[t].value.sessions = held[m].sessions

OwnCurrent(m) ==
    /\ <<m, "models">> \notin excuse.unlisted => OwnModels(m)
    /\ <<m, "sessions">> \notin excuse.unlisted => OwnSessions(m)

\* A node's events are about others.
OthersOnly == \A n \in Nodes : ~QueuedFrom(events[n], n)

\* An Info that somebody waits for is the one its command waits for.
Awaited(q, n, tasks) ==
    \A i \in DOMAIN q : q[i].reply # None =>
        /\ tasks[q[i].reply].pc = "Await" /\ tasks[q[i].reply].to = n
        /\ \A j \in DOMAIN q : q[j].reply = q[i].reply => j = i

Replies == \A n \in Nodes : Awaited(events[n], n, task)

QInv == IInv /\ OthersOnly /\ Replies

\* What n knows about m.
Pair(n, m) ==
    /\ NoneHeard(n, m)
    /\ <<n, m>> \notin excuse.untold => Faithful(m)
    /\ Linked(n, m) /\ ~(Both(n, m) \subseteq excuse.lost) => Known(n, m)
    /\ Linked(n, m) /\ ~Excused(n, m) => Informed(n, m)

LInv ==
    /\ QInv
    /\ \A m \in Nodes :
          /\ TaskShape(m)
          /\ OwnCurrent(m)
          /\ \A n \in Nodes \ {m} : Pair(n, m)

\* What a change of a queue must keep for n to hear the same from m.
Keeps(q, r, m) ==
    /\ UpQueued(q, m) => UpQueued(r, m)
    /\ OnlyDowns(q, m) => OnlyDowns(r, m)
    /\ \A models, sessions : LastInfo(q, m, models, sessions) => LastInfo(r, m, models, sessions)
    /\ NoSessions(q, m) => NoSessions(r, m)

\* The events of m move to other places, in the same order, and nothing but
\* ends of connections comes in.
LEMMA Moved ==
    ASSUME NEW q \in Seq(Events), NEW r \in Seq(Events), NEW m, NEW d \in Int,
           \A i \in DOMAIN q : q[i].peer = m /\ q[i].kind # "down" =>
               /\ i + d \in DOMAIN r /\ r[i + d].peer = m
               /\ r[i + d].kind = q[i].kind /\ r[i + d].info = q[i].info,
           \A j \in DOMAIN r : r[j].peer = m /\ r[j].kind # "down" =>
               /\ j - d \in DOMAIN q /\ q[j - d].peer = m
               /\ q[j - d].kind = r[j].kind /\ q[j - d].info = r[j].info
    PROVE  Keeps(q, r, m)
<1>0. DOMAIN q \subseteq Int /\ DOMAIN r \subseteq Int
  OBVIOUS
<1>1. UpQueued(q, m) => UpQueued(r, m)
  BY DEF UpQueued
<1>2. OnlyDowns(q, m) => OnlyDowns(r, m)
  BY DEF OnlyDowns
<1>3. ASSUME NEW models, NEW sessions, LastInfo(q, m, models, sessions)
      PROVE  LastInfo(r, m, models, sessions)
  <2>1. PICK i \in DOMAIN q :
            /\ InfoAt(q, i, m) /\ q[i].info.name # "piped"
            /\ q[i].info.models = models /\ q[i].info.sessions = sessions
            /\ \A j \in DOMAIN q : i < j /\ q[j].peer = m => q[j].kind = "down"
    BY <1>3 DEF LastInfo
  <2>2. /\ i + d \in DOMAIN r /\ InfoAt(r, i + d, m) /\ r[i + d].info.name # "piped"
        /\ r[i + d].info.models = models /\ r[i + d].info.sessions = sessions
    BY <2>1 DEF InfoAt
  <2>3. ASSUME NEW j \in DOMAIN r, i + d < j, r[j].peer = m, r[j].kind # "down"
        PROVE  FALSE
    <3>1. j - d \in DOMAIN q /\ q[j - d].peer = m /\ q[j - d].kind # "down"
      BY <2>3
    <3>2. i < j - d
      BY <1>0, <2>3
    <3> QED BY <2>1, <3>1, <3>2
  <2> QED BY <2>2, <2>3 DEF LastInfo
<1>4. NoSessions(q, m) => NoSessions(r, m)
  BY DEF NoSessions, InfoAt
<1> QED BY <1>1, <1>2, <1>3, <1>4 DEF Keeps

\* A queue that does not change keeps what it says.
LEMMA KeepsSame == ASSUME NEW q, NEW m PROVE Keeps(q, q, m)
  BY DEF Keeps

\* Appending an event.
LEMMA PushKeeps ==
    ASSUME NEW q \in Seq(Events), NEW e \in Events, NEW m
    PROVE  /\ e.peer # m => Keeps(q, Append(q, e), m)
           /\ e.peer # m /\ ~QueuedFrom(q, m) => ~QueuedFrom(Append(q, e), m)
           /\ UpQueued(q, m) => UpQueued(Append(q, e), m)
           /\ e.peer = m /\ e.kind = "up" =>
                 /\ UpQueued(Append(q, e), m)
                 /\ NoSessions(q, m) => NoSessions(Append(q, e), m)
           /\ e.peer = m /\ e.kind = "info" =>
                 /\ e.info.name # "piped" =>
                       LastInfo(Append(q, e), m, e.info.models, e.info.sessions)
                 /\ NoSessions(q, m) /\ e.info.sessions = 0 => NoSessions(Append(q, e), m)
<1> DEFINE r == Append(q, e)
<1>1. /\ Len(q) \in Nat /\ DOMAIN q = 1..Len(q)
      /\ r \in Seq(Events) /\ DOMAIN r = 1..(Len(q) + 1)
      /\ \A i \in 1..Len(q) : r[i] = q[i]
      /\ r[Len(q) + 1] = e
  OBVIOUS
<1> HIDE DEF r
<1>2. ASSUME e.peer # m PROVE Keeps(q, r, m)
  <2>0. PICK z \in Int : z = 0
    OBVIOUS
  <2>1. \A i \in DOMAIN q : q[i].peer = m /\ q[i].kind # "down" =>
               /\ i + z \in DOMAIN r /\ r[i + z].peer = m
               /\ r[i + z].kind = q[i].kind /\ r[i + z].info = q[i].info
    BY <2>0, <1>1
  <2>2. \A j \in DOMAIN r : r[j].peer = m /\ r[j].kind # "down" =>
               /\ j - z \in DOMAIN q /\ q[j - z].peer = m
               /\ q[j - z].kind = r[j].kind /\ q[j - z].info = r[j].info
    BY <2>0, <1>1, <1>2
  <2>3. r \in Seq(Events)
    BY <1>1
  <2> QED BY <2>1, <2>2, <2>3, Moved
<1>3. e.peer # m /\ ~QueuedFrom(q, m) => ~QueuedFrom(r, m)
  BY <1>1 DEF QueuedFrom
<1>4. UpQueued(q, m) => UpQueued(r, m)
  BY <1>1 DEF UpQueued
<1>5. e.peer = m /\ e.kind = "up" =>
                 /\ UpQueued(r, m)
                 /\ NoSessions(q, m) => NoSessions(r, m)
  BY <1>1 DEF UpQueued, NoSessions, InfoAt
<1>6. ASSUME e.peer = m, e.kind = "info"
      PROVE      /\ e.info.name # "piped" => LastInfo(r, m, e.info.models, e.info.sessions)
                 /\ NoSessions(q, m) /\ e.info.sessions = 0 => NoSessions(r, m)
  BY <1>1, <1>6 DEF LastInfo, NoSessions, InfoAt
<1> QED BY <1>2, <1>3, <1>4, <1>5, <1>6 DEF r

\* Appending the reports that connections to a peer went down.
LEMMA DownsKeep ==
    ASSUME NEW q \in Seq(Events), NEW p \in Nodes, NEW k \in Nat
    PROVE  /\ \A m : Keeps(q, q \o Downs(p, k), m)
           /\ \A m : m # p /\ ~QueuedFrom(q, m) => ~QueuedFrom(q \o Downs(p, k), m)
<1> DEFINE d == Downs(p, k)
           r == q \o d
<1>1. Event("down", p) \in Events
  BY Consts DEF Event, Events, NoInfo, Infos, Names
<1>2. /\ d \in Seq(Events) /\ Len(d) = k
      /\ \A i \in 1..k : d[i].peer = p /\ d[i].kind = "down"
  BY <1>1 DEF Downs, Event
<1> HIDE DEF d
<1>3. /\ Len(q) \in Nat /\ DOMAIN q = 1..Len(q)
      /\ r \in Seq(Events) /\ DOMAIN r = 1..(Len(q) + k)
      /\ \A i \in 1..Len(q) : r[i] = q[i]
      /\ \A i \in (Len(q) + 1)..(Len(q) + k) : r[i] = d[i - Len(q)]
  BY <1>2
<1>4. \A i \in (Len(q) + 1)..(Len(q) + k) : r[i].peer = p /\ r[i].kind = "down"
  BY <1>2, <1>3
<1> HIDE DEF r
<1>5. ASSUME NEW m PROVE Keeps(q, r, m)
  <2>0. PICK z \in Int : z = 0
    OBVIOUS
  <2>1. \A i \in DOMAIN q : q[i].peer = m /\ q[i].kind # "down" =>
               /\ i + z \in DOMAIN r /\ r[i + z].peer = m
               /\ r[i + z].kind = q[i].kind /\ r[i + z].info = q[i].info
    BY <2>0, <1>3
  <2>2. \A j \in DOMAIN r : r[j].peer = m /\ r[j].kind # "down" =>
               /\ j - z \in DOMAIN q /\ q[j - z].peer = m
               /\ q[j - z].kind = r[j].kind /\ q[j - z].info = r[j].info
    BY <2>0, <1>3, <1>4
  <2>3. r \in Seq(Events)
    BY <1>3
  <2> QED BY <2>1, <2>2, <2>3, Moved
<1>6. \A m : m # p /\ ~QueuedFrom(q, m) => ~QueuedFrom(r, m)
  BY <1>3, <1>4 DEF QueuedFrom
<1> QED BY <1>5, <1>6 DEF r, d

\* The queue after the request of a command failed.
Unreply(q, t) ==
    [i \in DOMAIN q |-> IF q[i].reply = t THEN [q[i] EXCEPT !.reply = None] ELSE q[i]]

\* Giving up on an answer changes nothing of what is heard.
LEMMA UnreplyKeeps ==
    ASSUME NEW q \in Seq(Events), NEW t
    PROVE  /\ \A m : Keeps(q, Unreply(q, t), m)
           /\ \A m : ~QueuedFrom(q, m) => ~QueuedFrom(Unreply(q, t), m)
           /\ Unreply(q, t) \in Seq(Events)
           /\ DOMAIN Unreply(q, t) = DOMAIN q
           /\ \A i \in DOMAIN q : Unreply(q, t)[i].reply = IF q[i].reply = t THEN None ELSE q[i].reply
<1> DEFINE r == Unreply(q, t)
<1>0. \A i \in DOMAIN q : q[i] \in Events
  OBVIOUS
<1>1. \A i \in DOMAIN q : q[i] \in Events /\ [q[i] EXCEPT !.reply = None] \in Events
  BY <1>0 DEF Events
<1>2. DOMAIN r = DOMAIN q /\ DOMAIN q = 1..Len(q) /\ Len(q) \in Nat
  BY DEF Unreply
<1>3. \A i \in DOMAIN q : /\ r[i] \in Events /\ r[i].peer = q[i].peer /\ r[i].kind = q[i].kind
                          /\ r[i].info = q[i].info
                          /\ r[i].reply = IF q[i].reply = t THEN None ELSE q[i].reply
  BY <1>1 DEF Unreply, Events
<1>4. r \in Seq(Events)
  BY <1>1, <1>2 DEF Unreply
<1> HIDE DEF r
<1>5. ASSUME NEW m PROVE Keeps(q, r, m)
  <2>0. PICK z \in Int : z = 0
    OBVIOUS
  <2>1. \A i \in DOMAIN q : q[i].peer = m /\ q[i].kind # "down" =>
               /\ i + z \in DOMAIN r /\ r[i + z].peer = m
               /\ r[i + z].kind = q[i].kind /\ r[i + z].info = q[i].info
    BY <2>0, <1>2, <1>3
  <2>2. \A j \in DOMAIN r : r[j].peer = m /\ r[j].kind # "down" =>
               /\ j - z \in DOMAIN q /\ q[j - z].peer = m
               /\ q[j - z].kind = r[j].kind /\ q[j - z].info = r[j].info
    BY <2>0, <1>2, <1>3
  <2> QED BY <1>4, <2>1, <2>2, Moved
<1>6. \A m : ~QueuedFrom(q, m) => ~QueuedFrom(r, m)
  BY <1>2, <1>3 DEF QueuedFrom
<1> QED BY <1>2, <1>3, <1>4, <1>5, <1>6 DEF r

\* Taking the head of a queue.
LEMMA PopKeeps ==
    ASSUME NEW q \in Seq(Events), q # <<>>, NEW m
    PROVE  /\ Head(q).peer # m \/ Head(q).kind = "down" => Keeps(q, Tail(q), m)
           /\ ~QueuedFrom(q, m) => ~QueuedFrom(Tail(q), m) /\ Head(q).peer # m
           /\ NoSessions(q, m) => NoSessions(Tail(q), m)
           /\ Head(q).peer = m /\ Head(q).kind = "up" =>
                 /\ ~OnlyDowns(q, m)
                 /\ \A v, s : LastInfo(q, m, v, s) => LastInfo(Tail(q), m, v, s)
           /\ Head(q).peer = m /\ Head(q).kind = "info" =>
                 /\ ~OnlyDowns(q, m)
                 /\ UpQueued(q, m) => UpQueued(Tail(q), m)
                 /\ NoSessions(q, m) => Head(q).info.sessions = 0
                 /\ \A v, s : LastInfo(q, m, v, s) =>
                       \/ LastInfo(Tail(q), m, v, s)
                       \/ /\ OnlyDowns(Tail(q), m) /\ Head(q).info.name # "piped"
                          /\ Head(q).info.models = v /\ Head(q).info.sessions = s
<1> DEFINE r == Tail(q)
<1>1. /\ Len(q) \in Nat /\ Len(q) >= 1 /\ DOMAIN q = 1..Len(q) /\ Head(q) = q[1]
      /\ r \in Seq(Events) /\ DOMAIN r = 1..(Len(q) - 1)
      /\ \A i \in 1..(Len(q) - 1) : r[i] = q[i + 1]
  OBVIOUS
<1> HIDE DEF r
<1>2. ASSUME q[1].peer # m \/ q[1].kind = "down" PROVE Keeps(q, r, m)
  <2>0. PICK z \in Int : z = -1
    OBVIOUS
  <2>1. \A i \in DOMAIN q : q[i].peer = m /\ q[i].kind # "down" =>
               /\ i + z \in DOMAIN r /\ r[i + z].peer = m
               /\ r[i + z].kind = q[i].kind /\ r[i + z].info = q[i].info
    <3> SUFFICES ASSUME NEW i \in DOMAIN q, q[i].peer = m /\ q[i].kind # "down"
                 PROVE  i - 1 \in DOMAIN r /\ r[i - 1] = q[i]
      BY <1>1, <2>0
    <3>1. i # 1
      BY <1>2
    <3> QED BY <1>1, <3>1
  <2>2. \A j \in DOMAIN r : r[j].peer = m /\ r[j].kind # "down" =>
               /\ j - z \in DOMAIN q /\ q[j - z].peer = m
               /\ q[j - z].kind = r[j].kind /\ q[j - z].info = r[j].info
    <3> SUFFICES ASSUME NEW j \in DOMAIN r PROVE j + 1 \in DOMAIN q /\ r[j] = q[j + 1]
      BY <1>1, <2>0
    <3> QED BY <1>1
  <2>3. r \in Seq(Events)
    BY <1>1
  <2> QED BY <2>1, <2>2, <2>3, Moved
<1>3. ~QueuedFrom(q, m) => ~QueuedFrom(r, m) /\ q[1].peer # m
  <2>1. \A j \in DOMAIN r : j + 1 \in DOMAIN q /\ r[j] = q[j + 1]
    BY <1>1
  <2> QED BY <1>1, <2>1 DEF QueuedFrom
<1>4. NoSessions(q, m) => NoSessions(r, m)
  <2>1. \A j \in DOMAIN r : j + 1 \in DOMAIN q /\ r[j] = q[j + 1]
    BY <1>1
  <2> QED BY <2>1 DEF NoSessions, InfoAt
<1>5. ASSUME NEW v, NEW s, LastInfo(q, m, v, s), q[1].peer = m, q[1].kind # "down"
      PROVE  \/ LastInfo(r, m, v, s)
             \/ /\ q[1].kind = "info" /\ OnlyDowns(r, m) /\ q[1].info.name # "piped"
                /\ q[1].info.models = v /\ q[1].info.sessions = s
  <2>1. PICK i \in DOMAIN q :
            /\ InfoAt(q, i, m) /\ q[i].info.name # "piped"
            /\ q[i].info.models = v /\ q[i].info.sessions = s
            /\ \A j \in DOMAIN q : i < j /\ q[j].peer = m => q[j].kind = "down"
    BY <1>5 DEF LastInfo
  <2>2. CASE i = 1
    <3>1. ASSUME NEW j \in DOMAIN r, r[j].peer = m PROVE r[j].kind = "down"
      <4>1. j + 1 \in DOMAIN q /\ 1 < j + 1 /\ q[j + 1] = r[j]
        BY <1>1
      <4> QED BY <2>1, <2>2, <3>1, <4>1
    <3> QED BY <2>1, <2>2, <3>1 DEF OnlyDowns, InfoAt
  <2>3. CASE i # 1
    <3>1. i - 1 \in DOMAIN r /\ r[i - 1] = q[i]
      BY <1>1, <2>3
    <3>2. ASSUME NEW j \in DOMAIN r, i - 1 < j, r[j].peer = m PROVE r[j].kind = "down"
      <4>1. j + 1 \in DOMAIN q /\ i < j + 1 /\ q[j + 1] = r[j]
        BY <1>1, <3>2
      <4> QED BY <2>1, <3>2, <4>1
    <3> QED BY <2>1, <3>1, <3>2 DEF LastInfo, InfoAt
  <2> QED BY <2>2, <2>3
<1>6. q[1].peer = m /\ q[1].kind # "down" => ~OnlyDowns(q, m)
  BY <1>1 DEF OnlyDowns
<1>7. q[1].peer = m /\ q[1].kind = "info" /\ NoSessions(q, m) => q[1].info.sessions = 0
  BY <1>1 DEF NoSessions, InfoAt
<1>8. ASSUME q[1].kind # "up", UpQueued(q, m) PROVE UpQueued(r, m)
  <2>1. PICK i \in DOMAIN q : q[i].peer = m /\ q[i].kind = "up"
    BY <1>8 DEF UpQueued
  <2>2. i # 1
    BY <1>8, <2>1
  <2>3. i - 1 \in DOMAIN r /\ r[i - 1] = q[i]
    BY <1>1, <2>2
  <2> QED BY <2>1, <2>3 DEF UpQueued
<1> QED BY <1>1, <1>2, <1>3, <1>4, <1>5, <1>6, <1>7, <1>8 DEF r

\* Who waits for what, as the queues and the commands change.
LEMMA AwaitedSteps ==
    ASSUME NEW q \in Seq(Events), NEW n, NEW tasks, Awaited(q, n, tasks)
    PROVE  /\ \A e \in Events : e.reply = None => Awaited(Append(q, e), n, tasks)
           /\ \A e \in Events :
                 /\ \A i \in DOMAIN q : q[i].reply # e.reply
                 /\ tasks[e.reply].pc = "Await" /\ tasks[e.reply].to = n
                 => Awaited(Append(q, e), n, tasks)
           /\ \A p \in Nodes, k \in Nat : Awaited(q \o Downs(p, k), n, tasks)
           /\ \A t \in Tasks : /\ Awaited(Unreply(q, t), n, tasks)
                               /\ \A i \in DOMAIN Unreply(q, t) : Unreply(q, t)[i].reply # t
           /\ \A others : (\A i \in DOMAIN q : q[i].reply # None =>
                              others[q[i].reply].pc = tasks[q[i].reply].pc /\ others[q[i].reply].to = tasks[q[i].reply].to)
                          => Awaited(q, n, others)
<1>1. ASSUME NEW e \in Events,
             e.reply = None \/ /\ \A i \in DOMAIN q : q[i].reply # e.reply
                               /\ tasks[e.reply].pc = "Await" /\ tasks[e.reply].to = n
      PROVE  Awaited(Append(q, e), n, tasks)
  <2> DEFINE r == Append(q, e)
  <2>1. /\ Len(q) \in Nat /\ DOMAIN q = 1..Len(q)
        /\ DOMAIN r = 1..(Len(q) + 1)
        /\ \A i \in 1..Len(q) : r[i] = q[i]
        /\ r[Len(q) + 1] = e
    OBVIOUS
  <2> HIDE DEF r
  <2>2. ASSUME NEW i \in DOMAIN r, r[i].reply # None, NEW j \in DOMAIN r, r[j].reply = r[i].reply
        PROVE  tasks[r[i].reply].pc = "Await" /\ tasks[r[i].reply].to = n /\ j = i
    <3>1. CASE i \in DOMAIN q /\ j \in DOMAIN q
      BY <2>1, <2>2, <3>1 DEF Awaited
    <3>2. CASE i \notin DOMAIN q \/ j \notin DOMAIN q
      <4>1. i = Len(q) + 1 \/ j = Len(q) + 1
        BY <2>1, <3>2
      <4>2. e.reply # None /\ r[i].reply = e.reply
        BY <2>1, <2>2, <4>1
      <4>3. i = Len(q) + 1 /\ j = Len(q) + 1
        BY <1>1, <2>1, <2>2, <4>2
      <4> QED BY <1>1, <4>2, <4>3
    <3> QED BY <3>1, <3>2
  <2>3. Awaited(r, n, tasks)
    BY <2>2 DEF Awaited
  <2> QED BY <2>3 DEF r
<1>2. ASSUME NEW p \in Nodes, NEW k \in Nat PROVE Awaited(q \o Downs(p, k), n, tasks)
  <2> DEFINE d == Downs(p, k)
             r == q \o d
  <2>1. Event("down", p) \in Events
    BY EventType
  <2>2. /\ d \in Seq(Events) /\ Len(d) = k
        /\ \A i \in 1..k : d[i].reply = None
    BY <2>1 DEF Downs, Event
  <2> HIDE DEF d
  <2>3. /\ Len(q) \in Nat /\ DOMAIN q = 1..Len(q)
        /\ DOMAIN r = 1..(Len(q) + k)
        /\ \A i \in 1..Len(q) : r[i] = q[i]
        /\ \A i \in (Len(q) + 1)..(Len(q) + k) : r[i] = d[i - Len(q)]
    BY <2>2
  <2>4. \A i \in (Len(q) + 1)..(Len(q) + k) : r[i].reply = None
    BY <2>2, <2>3
  <2> HIDE DEF r
  <2>5. \A i \in DOMAIN r : r[i].reply # None => i \in DOMAIN q /\ r[i] = q[i]
    BY <2>3, <2>4
  <2>6. Awaited(r, n, tasks)
    BY <2>5 DEF Awaited
  <2> QED BY <2>6 DEF r, d
<1>3. ASSUME NEW t \in Tasks
      PROVE  /\ Awaited(Unreply(q, t), n, tasks)
             /\ \A i \in DOMAIN Unreply(q, t) : Unreply(q, t)[i].reply # t
  <2> DEFINE r == Unreply(q, t)
  <2>1. /\ DOMAIN r = DOMAIN q
        /\ \A i \in DOMAIN q : r[i].reply = IF q[i].reply = t THEN None ELSE q[i].reply
    BY UnreplyKeeps
  <2>2. t # None
    BY Consts
  <2> HIDE DEF r
  <2>3. Awaited(r, n, tasks) /\ \A i \in DOMAIN r : r[i].reply # t
    BY <2>1, <2>2 DEF Awaited
  <2> QED BY <2>3 DEF r
<1>4. ASSUME NEW others,
             \A i \in DOMAIN q : q[i].reply # None =>
                 others[q[i].reply].pc = tasks[q[i].reply].pc /\ others[q[i].reply].to = tasks[q[i].reply].to
      PROVE  Awaited(q, n, others)
  BY <1>4 DEF Awaited
<1> QED BY <1>1, <1>2, <1>3, <1>4

\* The answer is to the request that was taken from the queue.
LEMMA AwaitedPop ==
    ASSUME NEW q \in Seq(Events), q # <<>>, NEW n, NEW tasks, Awaited(q, n, tasks)
    PROVE  /\ Awaited(Tail(q), n, tasks)
           /\ Head(q).reply # None =>
                 /\ tasks[Head(q).reply].pc = "Await" /\ tasks[Head(q).reply].to = n
                 /\ \A i \in DOMAIN Tail(q) : Tail(q)[i].reply # Head(q).reply
<1> DEFINE r == Tail(q)
<1>1. /\ Len(q) \in Nat /\ Len(q) >= 1 /\ DOMAIN q = 1..Len(q) /\ Head(q) = q[1]
      /\ DOMAIN r = 1..(Len(q) - 1)
      /\ \A i \in 1..(Len(q) - 1) : r[i] = q[i + 1]
  OBVIOUS
<1> HIDE DEF r
<1>2. \A i \in DOMAIN r : i + 1 \in DOMAIN q /\ i + 1 # 1 /\ r[i] = q[i + 1]
  BY <1>1
<1>3. ASSUME NEW i \in DOMAIN r, r[i].reply # None
      PROVE  /\ tasks[r[i].reply].pc = "Await" /\ tasks[r[i].reply].to = n
             /\ \A j \in DOMAIN r : r[j].reply = r[i].reply => j = i
  <2>1. /\ tasks[r[i].reply].pc = "Await" /\ tasks[r[i].reply].to = n
        /\ \A j \in DOMAIN q : q[j].reply = r[i].reply => j = i + 1
    BY <1>2, <1>3 DEF Awaited
  <2>2. ASSUME NEW j \in DOMAIN r, r[j].reply = r[i].reply PROVE j = i
    <3>1. j + 1 = i + 1
      BY <1>2, <2>1, <2>2
    <3> QED BY <1>1, <3>1
  <2> QED BY <2>1, <2>2
<1>4. Awaited(r, n, tasks)
  BY <1>3 DEF Awaited
<1>5. 1 \in DOMAIN q
  BY <1>1
<1>6. q[1].reply # None =>
         /\ tasks[q[1].reply].pc = "Await" /\ tasks[q[1].reply].to = n
         /\ \A i \in DOMAIN r : r[i].reply # q[1].reply
  BY <1>2, <1>5 DEF Awaited
<1> QED BY <1>1, <1>4, <1>6 DEF r

(***************************************************************************)
(* What each step does, entry by entry and queue by queue.                 *)
(***************************************************************************)
\* Only the entry of m in the table of n may change.
OnlyEntry(n, m) == \A p, q \in Nodes : <<p, q>> # <<n, m>> => table'[p][q] = table[p][q]

\* The commands go on as they were, except that one may have its answer.
TaskSame(t) ==
    /\ task'[t].what = task[t].what /\ task'[t].value = task[t].value /\ task'[t].todo = task[t].todo
    /\ task'[t].pc = task[t].pc \/ (task[t].pc = "Await" /\ task'[t].pc = "Send")

TasksSame == \A t \in Tasks : TaskSame(t)

\* The parts of the type invariant used below.
LEMMA Parts ==
    ASSUME IInv
    PROVE  /\ events \in [Nodes -> Seq(Events)]
           /\ open \in [Links -> BOOLEAN]
           /\ table \in [Nodes -> [Nodes -> Entries \cup {None}]]
           /\ task \in [Tasks -> TaskStates]
           /\ held \in [Nodes -> [models : SUBSET ModelFiles, sessions : 0..MaxSessions]]
           /\ \A n \in Nodes : table[n][n] \in Entries
           /\ \A p, q \in Nodes : Linked(p, q) => p # q /\ Linked(q, p)
  BY EndsType DEF IInv, TypeOK, OneLocalEntry, Linked, LinksOf

\* A connection between a and b comes up.
OpenDoes(a, b) ==
    /\ a \in Nodes /\ b \in Nodes /\ a # b
    /\ events'[a] = Append(events[a], Event("up", b))
    /\ events'[b] = Append(events[b], Event("up", a))
    /\ \A p \in Nodes \ {a, b} : events'[p] = events[p]
    /\ Event("up", a) \in Events /\ Event("up", b) \in Events
    /\ excuse'.unlisted = excuse.unlisted
    /\ excuse.lost \ Both(a, b) \subseteq excuse'.lost
    /\ \A p, q : <<p, q>> \in excuse.untold \ excuse'.untold =>
          <<p, q>> \in Both(a, b) /\ CanTell(q)
    /\ UNCHANGED <<table, held, task>>
    /\ \A p, q \in Nodes : {p, q} # {a, b} => (Linked(p, q)' <=> Linked(p, q))

\* Open.
LEMMA OpenEffect ==
    ASSUME IInv, NEW l \in Links, Open(l), NEW a, NEW b, a = Ends[l][1], b = Ends[l][2]
    PROVE  OpenDoes(a, b)
<1>1. /\ a \in Nodes /\ b \in Nodes /\ a # b
      /\ Ends[l] = <<a, b>>
  BY EndsType
<1>2. /\ open' = [open EXCEPT ![l] = TRUE]
      /\ events' = [[events EXCEPT ![a] = Append(@, Event("up", b))]
                           EXCEPT ![b] = Append(@, Event("up", a))]
      /\ excuse' = [excuse EXCEPT !.lost   = @ \ Both(a, b),
                                  !.untold = @ \ {p \in Both(a, b) : CanTell(p[2])}]
      /\ UNCHANGED <<table, held, task>>
  BY DEF Open
<1>6. /\ excuse'.unlisted = excuse.unlisted
      /\ excuse.lost \ Both(a, b) \subseteq excuse'.lost
      /\ \A p, q : <<p, q>> \in excuse.untold \ excuse'.untold =>
            <<p, q>> \in Both(a, b) /\ CanTell(q)
  <2>1. excuse \in Excuses
    BY DEF IInv, TypeOK
  <2>2. /\ excuse'.unlisted = excuse.unlisted
        /\ excuse'.lost = excuse.lost \ Both(a, b)
        /\ excuse'.untold = excuse.untold \ {p \in Both(a, b) : CanTell(p[2])}
    BY <1>2, <2>1 DEF Excuses
  <2> QED BY <2>2
<1>3. /\ events \in [Nodes -> Seq(Events)]
      /\ open \in [Links -> BOOLEAN]
  BY DEF IInv, TypeOK
<1>4. /\ events'[a] = Append(events[a], Event("up", b))
      /\ events'[b] = Append(events[b], Event("up", a))
      /\ \A p \in Nodes \ {a, b} : events'[p] = events[p]
  BY <1>1, <1>2, <1>3
<1>5. \A p, q \in Nodes : {p, q} # {a, b} => (Linked(p, q)' <=> Linked(p, q))
  <2> SUFFICES ASSUME NEW p \in Nodes, NEW q \in Nodes, {p, q} # {a, b}
               PROVE  \A k \in LinksOf(p, q) : open'[k] = open[k]
    BY DEF Linked, LinksOf
  <2> SUFFICES ASSUME NEW k \in LinksOf(p, q) PROVE k # l
    BY <1>2, <1>3 DEF LinksOf
  <2>1. Ends[k] \in {<<p, q>>, <<q, p>>}
    BY DEF LinksOf
  <2> QED BY <1>1, <2>1
<1> QED BY <1>1, <1>2, <1>4, <1>5, <1>6, EventType DEF OpenDoes

\* Connections between n and m end.
CloseDoes(n, m) ==
    /\ \E k \in Nat : /\ events'[n] = events[n] \o Downs(m, k)
                      /\ events'[m] = events[m] \o Downs(n, k)
    /\ \A p \in Nodes \ {n, m} : events'[p] = events[p]
    /\ \A p, q \in Nodes : Linked(p, q)' => Linked(p, q)
    /\ \A p \in Nodes : \A q : Keeps(events[p], events'[p], q)
    /\ \A p \in Nodes : ~QueuedFrom(events[p], p) => ~QueuedFrom(events'[p], p)
    /\ \A p \in Nodes : Awaited(events[p], p, task) => Awaited(events'[p], p, task)

\* Connections end.
LEMMA CloseEffect ==
    ASSUME IInv, NEW n \in Nodes, NEW m \in Nodes, n # m,
           NEW ls \in SUBSET LinksOf(n, m), CloseLinks(n, m, ls)
    PROVE  CloseDoes(n, m)
<1> DEFINE k == Cardinality(ls)
<1>1. k \in Nat
  <2>1. IsFiniteSet(Links)
    BY ONLY PeerConstants DEF PeerConstants
  <2>2. IsFiniteSet(ls)
    BY <2>1, FS_Subset DEF LinksOf
  <2> QED BY <2>2, FS_CardinalityType
<1> HIDE DEF k
<1>2. /\ open' = [l \in Links |-> open[l] /\ l \notin ls]
      /\ events' = [[events EXCEPT ![n] = @ \o Downs(m, k)] EXCEPT ![m] = @ \o Downs(n, k)]
  BY DEF CloseLinks, k
<1>3. /\ events \in [Nodes -> Seq(Events)]
      /\ open \in [Links -> BOOLEAN]
  BY DEF IInv, TypeOK
<1>4. /\ events'[n] = events[n] \o Downs(m, k)
      /\ events'[m] = events[m] \o Downs(n, k)
      /\ \A p \in Nodes \ {n, m} : events'[p] = events[p]
  BY <1>2, <1>3
<1>5. \A p, q \in Nodes : Linked(p, q)' => Linked(p, q)
  BY <1>2, <1>3 DEF Linked, LinksOf
<1>6. ASSUME NEW p \in Nodes
      PROVE  /\ \A q : Keeps(events[p], events'[p], q)
             /\ ~QueuedFrom(events[p], p) => ~QueuedFrom(events'[p], p)
             /\ Awaited(events[p], p, task) => Awaited(events'[p], p, task)
  <2>1. CASE p \notin {n, m}
    <3>1. events'[p] = events[p]
      BY <1>4, <2>1
    <3> QED BY <3>1, KeepsSame, Zenon
  <2>2. CASE p \in {n, m}
    <3>1. PICK r \in Nodes \ {p} : events'[p] = events[p] \o Downs(r, k)
      BY <1>4, <2>2
    <3>2. events[p] \in Seq(Events)
      BY <1>3
    <3> DEFINE d == events[p] \o Downs(r, k)
    <3>3. /\ \A q : Keeps(events[p], d, q)
          /\ ~QueuedFrom(events[p], p) => ~QueuedFrom(d, p)
      BY <1>1, <3>1, <3>2, DownsKeep
    <3>4. Awaited(events[p], p, task) => Awaited(d, p, task)
      BY <1>1, <3>2, AwaitedSteps
    <3>5. events'[p] = d
      BY <3>1
    <3> HIDE DEF d
    <3> QED BY <3>3, <3>4, <3>5, Zenon
  <2> QED BY <2>1, <2>2
<1> QED BY <1>1, <1>4, <1>5, <1>6 DEF CloseDoes

\* n registers m and sends it its Info.
EstablishedDoes(n, m, info) ==
    /\ events[n] # <<>> /\ Head(events[n]).peer = m /\ Head(events[n]).kind = "up"
    /\ info = InfoEvent(n, build_local_info_payload(table[n][n]), None)
    /\ table'[n][m] = upsert_peer(table[n][m], NewPeer) /\ OnlyEntry(n, m)
    /\ events'[n] = Tail(events[n])
    /\ events'[m] = IF Linked(n, m) THEN Append(events[m], info) ELSE events[m]
    /\ \A p \in Nodes \ {n, m} : events'[p] = events[p]
    /\ UNCHANGED <<open, held, task, excuse>>

\* The handler of a connection that came up.
LEMMA EstablishedEffect ==
    ASSUME QInv, NEW n \in Nodes, ConnectionEstablished(n)
    PROVE  \E m \in Nodes \ {n}, info \in Events : EstablishedDoes(n, m, info)
<1> DEFINE m    == Head(events[n]).peer
           info == InfoEvent(n, build_local_info_payload(table[n][n]), None)
<1>0. IInv
  BY DEF QInv
<1>1. /\ events \in [Nodes -> Seq(Events)]
      /\ table \in [Nodes -> [Nodes -> Entries \cup {None}]]
      /\ table[n][n] \in Entries
  BY <1>0, Parts
<1>2. /\ events[n] # <<>> /\ Head(events[n]).kind = "up"
      /\ table' = [table EXCEPT ![n][m] = upsert_peer(@, NewPeer)]
      /\ events' = [[events EXCEPT ![n] = Tail(@)]
                           EXCEPT ![m] = IF Linked(n, m) THEN Append(@, info) ELSE @]
      /\ UNCHANGED <<open, held, task, excuse>>
  BY DEF ConnectionEstablished
<1>3. m \in Nodes /\ m # n
  <2>1. events[n] \in Seq(Events) /\ events[n] # <<>>
    BY <1>1, <1>2
  <2>2. ~QueuedFrom(events[n], n)
    BY DEF QInv, OthersOnly
  <2> QED BY <2>1, <2>2, HeadType, PopKeeps
<1>4. info \in Events
  <2>1. build_local_info_payload(table[n][n]) \in Infos
    BY <1>1 DEF build_local_info_payload, Infos, Entries
  <2> QED BY <2>1, EventType
<1> HIDE DEF m, info
<1>5. table'[n][m] = upsert_peer(table[n][m], NewPeer) /\ OnlyEntry(n, m)
  BY <1>1, <1>2, <1>3 DEF OnlyEntry
<1>6. /\ events'[n] = Tail(events[n])
      /\ events'[m] = IF Linked(n, m) THEN Append(events[m], info) ELSE events[m]
      /\ \A p \in Nodes \ {n, m} : events'[p] = events[p]
  BY <1>1, <1>2, <1>3
<1>7. Head(events[n]).peer = m /\ info = InfoEvent(n, build_local_info_payload(table[n][n]), None)
  BY DEF m, info
<1> QED BY <1>2, <1>3, <1>4, <1>5, <1>6, <1>7 DEF EstablishedDoes

\* More of what the code leaves wrong.
ExcusesGrow ==
    /\ excuse.unlisted \subseteq excuse'.unlisted
    /\ excuse.untold \subseteq excuse'.untold
    /\ excuse.lost \subseteq excuse'.lost

\* Two that are connected part.
LEMMA LostGrows ==
    ASSUME IInv, NEW n, NEW m
    PROVE  excuse' = [excuse EXCEPT !.lost = @ \cup Both(n, m)] =>
              ExcusesGrow /\ Both(n, m) \subseteq excuse'.lost
<1>1. excuse \in Excuses
  BY DEF IInv, TypeOK
<1> QED BY <1>1 DEF Excuses, ExcusesGrow

\* Nobody is told of a change of m.
LEMMA UntoldGrows ==
    ASSUME IInv, NEW m
    PROVE  excuse' = [excuse EXCEPT !.untold = @ \cup About(m)] =>
              /\ ExcusesGrow /\ excuse'.unlisted = excuse.unlisted /\ excuse'.lost = excuse.lost
              /\ \A n \in Nodes \ {m} : <<n, m>> \in excuse'.untold
<1>1. excuse \in Excuses
  BY DEF IInv, TypeOK
<1> QED BY <1>1 DEF Excuses, ExcusesGrow, About

\* n forgets m.
ClosedDoes(n, m) ==
    /\ events[n] # <<>> /\ Head(events[n]).peer = m /\ Head(events[n]).kind = "down"
    /\ table'[n][m] = None /\ OnlyEntry(n, m)
    /\ events'[n] = Tail(events[n])
    /\ \A p \in Nodes \ {n} : events'[p] = events[p]
    /\ ExcusesGrow
    /\ Linked(n, m) => UpQueued(events'[n], m) \/ Both(n, m) \subseteq excuse'.lost
    /\ UNCHANGED <<open, held, task>>

\* The handler of a connection that went down.
LEMMA ClosedEffect ==
    ASSUME QInv, NEW n \in Nodes, ConnectionClosed(n)
    PROVE  \E m \in Nodes \ {n} : ClosedDoes(n, m)
<1> DEFINE m == Head(events[n]).peer
<1>0. IInv
  BY DEF QInv
<1>1. /\ events \in [Nodes -> Seq(Events)]
      /\ table \in [Nodes -> [Nodes -> Entries \cup {None}]]
  BY <1>0, Parts
<1>2. /\ events[n] # <<>> /\ Head(events[n]).kind = "down"
      /\ table' = [table EXCEPT ![n][m] = remove_peer(@)]
      /\ excuse' = IF Linked(n, m) /\ ~UpQueued(Tail(events[n]), m)
                   THEN [excuse EXCEPT !.lost = @ \cup Both(n, m)] ELSE excuse
      /\ events' = [events EXCEPT ![n] = Tail(@)]
      /\ UNCHANGED <<open, held, task>>
  BY DEF ConnectionClosed
<1>3. m \in Nodes /\ m # n
  <2>1. events[n] \in Seq(Events) /\ events[n] # <<>>
    BY <1>1, <1>2
  <2>2. ~QueuedFrom(events[n], n)
    BY DEF QInv, OthersOnly
  <2> QED BY <2>1, <2>2, HeadType, PopKeeps
<1>4. remove_peer(table[n][m]) = None
  BY <1>0, <1>3, Removed DEF IInv
<1> HIDE DEF m
<1>5. table'[n][m] = None /\ OnlyEntry(n, m)
  BY <1>1, <1>2, <1>3, <1>4 DEF OnlyEntry
<1>6. /\ events'[n] = Tail(events[n])
      /\ \A p \in Nodes \ {n} : events'[p] = events[p]
  BY <1>1, <1>2
<1>7. Head(events[n]).peer = m
  BY DEF m
<1>8. ExcusesGrow /\ (Linked(n, m) => UpQueued(Tail(events[n]), m) \/ Both(n, m) \subseteq excuse'.lost)
  BY <1>0, <1>2, LostGrows DEF ExcusesGrow
<1> QED BY <1>2, <1>3, <1>5, <1>6, <1>7, <1>8 DEF ClosedDoes

\* n hears from m.
InfoDoes(n, m, e) ==
    /\ events[n] # <<>> /\ Head(events[n]) = e /\ e.peer = m /\ e.kind = "info"
    /\ table'[n][m] = ApplyInfo(table[n][m], e.info) /\ OnlyEntry(n, m)
    /\ events'[n] = Tail(events[n])
    /\ \A p \in Nodes \ {n} : events'[p] = events[p]
    /\ TasksSame
    /\ \A t \in Tasks : task'[t] = task[t] \/ t = e.reply
    /\ UNCHANGED <<open, held, excuse>>

\* The handler of an Info request.
LEMMA InfoEffect ==
    ASSUME QInv, NEW n \in Nodes, InfoReceived(n)
    PROVE  \E m \in Nodes \ {n}, e \in Events : InfoDoes(n, m, e)
<1> DEFINE e == Head(events[n])
           m == e.peer
<1>0. IInv /\ Replies
  BY DEF QInv
<1>1. /\ events \in [Nodes -> Seq(Events)]
      /\ table \in [Nodes -> [Nodes -> Entries \cup {None}]]
      /\ task \in [Tasks -> TaskStates]
  BY <1>0, Parts
<1>2. /\ events[n] # <<>> /\ Head(events[n]).kind = "info"
      /\ table' = [table EXCEPT ![n][m] = ApplyInfo(@, e.info)]
      /\ task' = IF e.reply = None THEN task
                 ELSE [task EXCEPT ![e.reply].pc = "Send", ![e.reply].to = None]
      /\ events' = [events EXCEPT ![n] = Tail(@)]
      /\ UNCHANGED <<open, held, excuse>>
  BY DEF InfoReceived
<1>3. m \in Nodes /\ m # n /\ e \in Events
  <2>1. events[n] \in Seq(Events) /\ events[n] # <<>>
    BY <1>1, <1>2
  <2>2. ~QueuedFrom(events[n], n)
    BY DEF QInv, OthersOnly
  <2> QED BY <2>1, <2>2, HeadType, PopKeeps
<1>4. e.reply \in Tasks \cup {None}
  BY <1>3 DEF Events
<1>5. e.reply # None => task[e.reply].pc = "Await"
  <2>1. Awaited(events[n], n, task)
    BY <1>0 DEF Replies
  <2> QED BY <1>1, <1>2, <2>1, AwaitedPop
<1> HIDE DEF m, e
<1>6. table'[n][m] = ApplyInfo(table[n][m], e.info) /\ OnlyEntry(n, m)
  BY <1>1, <1>2, <1>3 DEF OnlyEntry
<1>7. /\ events'[n] = Tail(events[n])
      /\ \A p \in Nodes \ {n} : events'[p] = events[p]
  BY <1>1, <1>2
<1>8. TasksSame /\ \A t \in Tasks : task'[t] = task[t] \/ t = e.reply
  BY <1>1, <1>2, <1>4, <1>5 DEF TasksSame, TaskSame, TaskStates
<1>9. Head(events[n]) = e /\ e.peer = m
  BY DEF m, e
<1> QED BY <1>2, <1>3, <1>6, <1>7, <1>8, <1>9 DEF InfoDoes

\* Disconnect, and a ping that times out.
LEMMA RemoveEffect ==
    ASSUME IInv, NEW n \in Nodes, NEW m \in Nodes, Disconnect(n, m) \/ PingTimeout(n, m)
    PROVE  /\ OnlyEntry(n, m)
           /\ n = m => table'[n][m] = table[n][m]
           /\ n # m => table'[n][m] = None
           /\ UNCHANGED <<held, task>>
           /\ ExcusesGrow
<1>1. /\ table' = [table EXCEPT ![n][m] = remove_peer(@)] /\ UNCHANGED <<held, task>>
      /\ ExcusesGrow
  BY LostGrows DEF Disconnect, PingTimeout, ExcusesGrow
<1>2. /\ table \in [Nodes -> [Nodes -> Entries \cup {None}]]
      /\ n # m => remove_peer(table[n][m]) = None
      /\ table[n][n] # None /\ table[n][n].local
  BY Parts, Removed DEF IInv, OneLocalEntry
<1>3. n = m => remove_peer(table[n][m]) = table[n][m]
  BY <1>2 DEF remove_peer
<1> QED BY <1>1, <1>2, <1>3 DEF OnlyEntry

TaskOnly(t) == \A u \in Tasks \ {t} : task'[u] = task[u]

\* The steps of a command before and after the sending.
LEMMA CommandEffect ==
    ASSUME IInv, NEW t \in Tasks
    PROVE  /\ \A what \in {"sessions", "models", "script"} : Start(t, what) =>
                 /\ task[t].pc = "Idle" /\ task'[t].pc = "List" /\ task'[t].what = what
                 /\ TaskOnly(t) /\ UNCHANGED <<table, open, events>>
           /\ ListHeld(t) =>
                 /\ task[t].pc = "List" /\ task'[t].pc = "Update" /\ task'[t].what = task[t].what
                 /\ task'[t].value.models = held[Owner[t]].models
                 /\ task'[t].value.sessions = held[Owner[t]].sessions
                 /\ TaskOnly(t) /\ UNCHANGED <<table, open, events, held>>
           /\ ReadLocal(t) =>
                 /\ task[t].pc = "Read" /\ task'[t].pc = "Peers" /\ task'[t].what = task[t].what
                 /\ task'[t].value.name = table[Owner[t]][Owner[t]].name
                 /\ task'[t].value.models = table[Owner[t]][Owner[t]].models
                 /\ task'[t].value.sessions = table[Owner[t]][Owner[t]].sessions
                 /\ TaskOnly(t) /\ UNCHANGED <<table, open, events, held, excuse>>
           /\ ReadPeers(t) =>
                 /\ task[t].pc = "Peers" /\ task'[t].pc = "Send" /\ task'[t].what = task[t].what
                 /\ task'[t].value = task[t].value
                 /\ task'[t].todo = {m \in Nodes \ {Owner[t]} : table[Owner[t]][m] # None}
                 /\ TaskOnly(t) /\ UNCHANGED <<table, open, events, held, excuse>>
           /\ BroadcastDone(t) =>
                 /\ task[t].pc = "Send" /\ task[t].todo = {} /\ task'[t].pc = "Idle"
                 /\ task'[t].what = "none"
                 /\ TaskOnly(t) /\ UNCHANGED <<table, open, events, held, excuse>>
<1>1. task \in [Tasks -> TaskStates] /\ task[t] \in TaskStates
  BY Parts
<1>2. ASSUME NEW what \in {"sessions", "models", "script"}, Start(t, what)
      PROVE  /\ task[t].pc = "Idle" /\ task'[t].pc = "List" /\ task'[t].what = what
             /\ TaskOnly(t) /\ UNCHANGED <<table, open, events>>
  BY <1>1, <1>2 DEF Start, TaskOnly, TaskStates
<1>3. ASSUME ListHeld(t)
      PROVE  /\ task[t].pc = "List" /\ task'[t].pc = "Update" /\ task'[t].what = task[t].what
             /\ task'[t].value.models = held[Owner[t]].models
             /\ task'[t].value.sessions = held[Owner[t]].sessions
             /\ TaskOnly(t) /\ UNCHANGED <<table, open, events, held>>
  BY <1>1, <1>3 DEF ListHeld, TaskOnly, TaskStates
<1>4. ASSUME ReadLocal(t)
      PROVE  /\ task[t].pc = "Read" /\ task'[t].pc = "Peers" /\ task'[t].what = task[t].what
             /\ task'[t].value.name = table[Owner[t]][Owner[t]].name
             /\ task'[t].value.models = table[Owner[t]][Owner[t]].models
             /\ task'[t].value.sessions = table[Owner[t]][Owner[t]].sessions
             /\ TaskOnly(t) /\ UNCHANGED <<table, open, events, held, excuse>>
  BY <1>1, <1>4 DEF ReadLocal, build_local_info_payload, TaskOnly, TaskStates
<1>5. ASSUME ReadPeers(t)
      PROVE  /\ task[t].pc = "Peers" /\ task'[t].pc = "Send" /\ task'[t].what = task[t].what
             /\ task'[t].value = task[t].value
             /\ task'[t].todo = {m \in Nodes \ {Owner[t]} : table[Owner[t]][m] # None}
             /\ TaskOnly(t) /\ UNCHANGED <<table, open, events, held, excuse>>
  BY <1>1, <1>5 DEF ReadPeers, TaskOnly, TaskStates
<1>6. ASSUME BroadcastDone(t)
      PROVE  /\ task[t].pc = "Send" /\ task[t].todo = {} /\ task'[t].pc = "Idle"
             /\ task'[t].what = "none"
             /\ TaskOnly(t) /\ UNCHANGED <<table, open, events, held, excuse>>
  BY <1>1, <1>6 DEF BroadcastDone, NoTask, TaskOnly, TaskStates
<1> QED BY <1>2, <1>3, <1>4, <1>5, <1>6

\* A task enters what it found in the local entry; a script is done then.
LEMMA UpdateEffect ==
    ASSUME IInv, NEW t \in Tasks, UpdateLocal(t), NEW m, m = Owner[t]
    PROVE  /\ m \in Nodes
           /\ task[t].pc = "Update"
           /\ task[t].what # "script" => /\ task'[t].pc = "Read" /\ task'[t].what = task[t].what
                                         /\ UNCHANGED excuse
           /\ task[t].what = "script" =>
                 /\ task'[t].pc = "Idle" /\ task'[t].what = "none"
                 /\ \/ task[t].value.models = table[m][m].models /\ UNCHANGED excuse
                    \/ excuse' = [excuse EXCEPT !.untold = @ \cup About(m)]
           /\ OnlyEntry(m, m)
           /\ table'[m][m].name = table[m][m].name
           /\ task[t].what = "sessions" => /\ table'[m][m].sessions = task[t].value.sessions
                                           /\ table'[m][m].models = table[m][m].models
           /\ task[t].what # "sessions" => /\ table'[m][m].models = task[t].value.models
                                           /\ table'[m][m].sessions = table[m][m].sessions
           /\ TaskOnly(t) /\ UNCHANGED <<open, events, held>>
<1>1. /\ task \in [Tasks -> TaskStates] /\ task[t] \in TaskStates /\ m \in Nodes
      /\ table \in [Nodes -> [Nodes -> Entries \cup {None}]] /\ table[m][m] \in Entries
  BY Parts, EndsType
<1>2. task[t].pc = "Update" /\ UNCHANGED <<open, events, held>>
  BY DEF UpdateLocal
<1>3. /\ TaskOnly(t)
      /\ task[t].what # "script" => /\ task'[t].pc = "Read" /\ task'[t].what = task[t].what
                                    /\ UNCHANGED excuse
      /\ task[t].what = "script" =>
            /\ task'[t].pc = "Idle" /\ task'[t].what = "none"
            /\ \/ task[t].value.models = table[m][m].models /\ UNCHANGED excuse
               \/ excuse' = [excuse EXCEPT !.untold = @ \cup About(m)]
  <2>1. CASE task[t].what # "script"
    <3>1. task' = [task EXCEPT ![t].pc = "Read", ![t].value = NoInfo] /\ UNCHANGED excuse
      BY <2>1 DEF UpdateLocal
    <3> QED BY <1>1, <2>1, <3>1 DEF TaskOnly, TaskStates
  <2>2. CASE task[t].what = "script"
    <3>1. /\ task' = [task EXCEPT ![t] = NoTask]
          /\ \/ task[t].value.models = table[m][m].models /\ UNCHANGED excuse
             \/ excuse' = [excuse EXCEPT !.untold = @ \cup About(m)]
      BY <2>2 DEF UpdateLocal
    <3>2. task'[t] = NoTask /\ TaskOnly(t)
      BY <1>1, <3>1 DEF TaskOnly
    <3> QED BY <2>2, <3>1, <3>2 DEF NoTask
  <2> QED BY <2>1, <2>2
<1>4. CASE task[t].what = "sessions"
  <2>1. table' = [table EXCEPT ![m][m].sessions = task[t].value.sessions]
    BY <1>4 DEF UpdateLocal
  <2> QED BY <1>1, <1>2, <1>3, <1>4, <2>1 DEF OnlyEntry, Entries
<1>5. CASE task[t].what # "sessions"
  <2>1. table' = [table EXCEPT ![m][m].models = task[t].value.models]
    BY <1>5 DEF UpdateLocal
  <2> QED BY <1>1, <1>2, <1>3, <1>5, <2>1 DEF OnlyEntry, Entries
<1> QED BY <1>4, <1>5

\* A command sends its Info, or gives up on the answer.
LEMMA SendEffect ==
    ASSUME IInv, NEW t \in Tasks, NEW n \in Nodes, SendInfo(t, n), NEW m, m = Owner[t]
    PROVE  /\ m \in Nodes /\ task[t].pc = "Send" /\ n \in task[t].todo
           /\ task'[t].value = task[t].value /\ task'[t].what = task[t].what
           /\ task'[t].todo = task[t].todo \ {n} /\ task'[t].pc \in {"Send", "Await"}
           /\ Linked(m, n) =>
                 /\ task'[t].pc = "Await" /\ task'[t].to = n
                 /\ InfoEvent(m, task[t].value, t) \in Events
                 /\ events'[n] = Append(events[n], InfoEvent(m, task[t].value, t))
                 /\ \A p \in Nodes \ {n} : events'[p] = events[p]
           /\ ~Linked(m, n) => task'[t].pc = "Send" /\ UNCHANGED events
           /\ TaskOnly(t) /\ UNCHANGED <<table, open, held, excuse>>
<1>1. /\ task \in [Tasks -> TaskStates] /\ task[t] \in TaskStates /\ m \in Nodes
      /\ events \in [Nodes -> Seq(Events)]
  BY Parts, EndsType
<1>2. InfoEvent(m, task[t].value, t) \in Events
  <2>1. task[t].value \in Infos
    BY <1>1 DEF TaskStates
  <2> QED BY <1>1, <2>1, EventType
<1>3. task[t].pc = "Send" /\ n \in task[t].todo /\ UNCHANGED <<table, open, held, excuse>>
  BY DEF SendInfo
<1>4. CASE Linked(m, n)
  <2>1. /\ events' = [events EXCEPT ![n] = Append(@, InfoEvent(m, task[t].value, t))]
        /\ task' = [task EXCEPT ![t].pc = "Await", ![t].to = n, ![t].todo = @ \ {n}]
    BY <1>4 DEF SendInfo
  <2>2. /\ task'[t].value = task[t].value /\ task'[t].what = task[t].what
        /\ task'[t].todo = task[t].todo \ {n} /\ task'[t].pc = "Await" /\ task'[t].to = n /\ TaskOnly(t)
    BY <1>1, <2>1 DEF TaskOnly, TaskStates
  <2>3. /\ events'[n] = Append(events[n], InfoEvent(m, task[t].value, t))
        /\ \A p \in Nodes \ {n} : events'[p] = events[p]
    BY <1>1, <2>1
  <2> QED BY <1>1, <1>2, <1>3, <1>4, <2>2, <2>3
<1>5. CASE ~Linked(m, n)
  <2>1. task' = [task EXCEPT ![t].todo = @ \ {n}] /\ UNCHANGED events
    BY <1>5 DEF SendInfo
  <2>2. /\ task'[t].value = task[t].value /\ task'[t].what = task[t].what
        /\ task'[t].todo = task[t].todo \ {n} /\ task'[t].pc = task[t].pc /\ TaskOnly(t)
    BY <1>1, <2>1 DEF TaskOnly, TaskStates
  <2> QED BY <1>1, <1>3, <1>5, <2>1, <2>2
<1> QED BY <1>4, <1>5

\* A command gives up on the answer.
LEMMA FailsEffect ==
    ASSUME IInv, NEW t \in Tasks, SendFails(t)
    PROVE  /\ task[t].pc = "Await" /\ task'[t].pc = "Send" /\ TasksSame /\ TaskOnly(t)
           /\ \A p \in Nodes : events'[p] = IF p = task[t].to THEN Unreply(events[p], t) ELSE events[p]
           /\ UNCHANGED <<table, open, held, excuse>>
<1>1. /\ task \in [Tasks -> TaskStates] /\ task[t] \in TaskStates
      /\ events \in [Nodes -> Seq(Events)]
  BY Parts
<1>2. /\ UNCHANGED <<table, open, held, excuse>> /\ task[t].pc = "Await"
      /\ events' = [events EXCEPT ![task[t].to] = Unreply(@, t)]
      /\ task' = [task EXCEPT ![t].pc = "Send", ![t].to = None]
  BY DEF SendFails, Unreply
<1>3. \A p \in Nodes : events'[p] = IF p = task[t].to THEN Unreply(events[p], t) ELSE events[p]
  BY <1>1, <1>2
<1>4. task'[t].pc = "Send" /\ TasksSame /\ TaskOnly(t)
  BY <1>1, <1>2 DEF TasksSame, TaskSame, TaskOnly, TaskStates
<1> QED BY <1>2, <1>3, <1>4

(***************************************************************************)
(* Events are about others, and answers go to who waits.                   *)
(***************************************************************************)
\* Steps of a command that does not wait.
LEMMA FrameReplies ==
    ASSUME QInv, UNCHANGED events, NEW t \in Tasks, task[t].pc # "Await", TaskOnly(t)
    PROVE  OthersOnly' /\ Replies'
<1>1. OthersOnly'
  BY DEF QInv, OthersOnly, QueuedFrom
<1>2. ASSUME NEW n \in Nodes PROVE Awaited(events[n], n, task')
  <2>1. Awaited(events[n], n, task) /\ events[n] \in Seq(Events)
    BY Parts DEF QInv, Replies
  <2>2. ASSUME NEW i \in DOMAIN events[n], events[n][i].reply # None
        PROVE  task'[events[n][i].reply] = task[events[n][i].reply]
    <3>1. events[n][i] \in Events
      BY <2>1
    <3>2. events[n][i].reply \in Tasks
      BY <2>2, <3>1 DEF Events
    <3>3. events[n][i].reply # t
      BY <2>1, <2>2 DEF Awaited
    <3> QED BY <3>2, <3>3 DEF TaskOnly
  <2> QED BY <2>1, <2>2, AwaitedSteps
<1>3. Replies'
  BY <1>2 DEF Replies
<1> QED BY <1>1, <1>3

\* Steps that only change the queues.
LEMMA QueueReplies ==
    ASSUME QInv, UNCHANGED task,
           \A n \in Nodes : ~QueuedFrom(events'[n], n) /\ Awaited(events'[n], n, task)
    PROVE  OthersOnly' /\ Replies'
  BY DEF OthersOnly, Replies, QueuedFrom

\* Connections come and go.
LEMMA LinkReplies ==
    ASSUME QInv,
           \/ \E l \in Links : Open(l) \/ Close(l)
           \/ \E n, m \in Nodes : Disconnect(n, m)
    PROVE  OthersOnly' /\ Replies'
<1>0. IInv /\ \A n \in Nodes : ~QueuedFrom(events[n], n) /\ Awaited(events[n], n, task)
  BY DEF QInv, OthersOnly, Replies
<1>1. ASSUME NEW l \in Links, Open(l) PROVE OthersOnly' /\ Replies'
  <2>1. PICK a, b : a = Ends[l][1] /\ b = Ends[l][2]
    OBVIOUS
  <2>a. OpenDoes(a, b)
    BY <1>0, <1>1, <2>1, OpenEffect
  <2>2. /\ a \in Nodes /\ b \in Nodes /\ a # b
        /\ events'[a] = Append(events[a], Event("up", b))
        /\ events'[b] = Append(events[b], Event("up", a))
        /\ \A p \in Nodes \ {a, b} : events'[p] = events[p]
        /\ Event("up", a) \in Events /\ Event("up", b) \in Events
        /\ UNCHANGED <<table, held, task>>
    BY <2>a DEF OpenDoes
  <2>3. ASSUME NEW n \in Nodes PROVE ~QueuedFrom(events'[n], n) /\ Awaited(events'[n], n, task)
    <3>1. CASE n \notin {a, b}
      <4>1. events'[n] = events[n]
        BY <2>2, <3>1
      <4> QED BY <1>0, <4>1
    <3>2. CASE n \in {a, b}
      <4>1. PICK e \in Events : /\ events'[n] = Append(events[n], e)
                                /\ e.peer # n /\ e.reply = None
        BY <2>2, <3>2 DEF Event
      <4>2. events[n] \in Seq(Events)
        BY <1>0, Parts
      <4> DEFINE r == Append(events[n], e)
      <4>3. ~QueuedFrom(r, n) /\ Awaited(r, n, task)
        BY <1>0, <4>1, <4>2, PushKeeps, AwaitedSteps
      <4>4. events'[n] = r
        BY <4>1
      <4> HIDE DEF r
      <4> QED BY <4>3, <4>4
    <3> QED BY <3>1, <3>2
  <2> QED BY <2>2, <2>3, QueueReplies
<1>2. ASSUME NEW n \in Nodes, NEW m \in Nodes, n # m,
             NEW ls \in SUBSET LinksOf(n, m), CloseLinks(n, m, ls), UNCHANGED task
      PROVE  OthersOnly' /\ Replies'
  BY <1>0, <1>2, CloseEffect, QueueReplies DEF CloseDoes
<1>3. ASSUME NEW l \in Links, Close(l) PROVE OthersOnly' /\ Replies'
  <2>1. PICK a, b : a = Ends[l][1] /\ b = Ends[l][2]
    OBVIOUS
  <2>2. a \in Nodes /\ b \in Nodes /\ a # b /\ {l} \in SUBSET LinksOf(a, b)
    BY <2>1, EndsType DEF LinksOf
  <2>3. CloseLinks(a, b, {l}) /\ UNCHANGED task
    BY <1>3, <2>1 DEF Close
  <2> QED BY <1>2, <2>2, <2>3
<1>4. ASSUME NEW n \in Nodes, NEW m \in Nodes, Disconnect(n, m) PROVE OthersOnly' /\ Replies'
  <2>1. CASE UNCHANGED events
    BY <1>0, <1>4, <2>1, QueueReplies DEF Disconnect
  <2>2. CASE Linked(n, m) /\ CloseLinks(n, m, {l \in LinksOf(n, m) : open[l]})
    <3>1. n # m /\ {l \in LinksOf(n, m) : open[l]} \in SUBSET LinksOf(n, m)
      BY <1>0, <2>2, Parts
    <3> QED BY <1>2, <1>4, <2>2, <3>1 DEF Disconnect
  <2> QED BY <1>4, <2>1, <2>2 DEF Disconnect
<1> QED BY <1>1, <1>3, <1>4

\* A node handles an event.
LEMMA HandlerReplies ==
    ASSUME QInv, NEW n \in Nodes,
           ConnectionEstablished(n) \/ ConnectionClosed(n) \/ InfoReceived(n)
    PROVE  OthersOnly' /\ Replies'
<1>0. IInv /\ \A p \in Nodes : ~QueuedFrom(events[p], p) /\ Awaited(events[p], p, task)
  BY DEF QInv, OthersOnly, Replies
<1>a. events \in [Nodes -> Seq(Events)]
  BY <1>0, Parts
<1>1. CASE ConnectionEstablished(n)
  <2>0. PICK m \in Nodes \ {n}, info \in Events : EstablishedDoes(n, m, info)
    BY <1>1, EstablishedEffect
  <2>1. /\ events[n] # <<>>
        /\ info = InfoEvent(n, build_local_info_payload(table[n][n]), None)
        /\ events'[n] = Tail(events[n])
        /\ events'[m] = IF Linked(n, m) THEN Append(events[m], info) ELSE events[m]
        /\ \A p \in Nodes \ {n, m} : events'[p] = events[p]
        /\ UNCHANGED task
    BY <2>0 DEF EstablishedDoes
  <2>2. info.peer = n /\ info.reply = None
    BY <2>1 DEF InfoEvent
  <2>3. ~QueuedFrom(Tail(events[n]), n) /\ Awaited(Tail(events[n]), n, task)
    BY <1>0, <1>a, <2>1, PopKeeps, AwaitedPop
  <2>4. ~QueuedFrom(Append(events[m], info), m) /\ Awaited(Append(events[m], info), m, task)
    BY <1>0, <1>a, <2>2, PushKeeps, AwaitedSteps
  <2>5. ASSUME NEW p \in Nodes
        PROVE  events'[p] \in {events[p]} \/ (p = n /\ events'[p] = Tail(events[n]))
               \/ (p = m /\ events'[p] = Append(events[m], info))
    BY <2>1
  <2>6. ASSUME NEW p \in Nodes PROVE ~QueuedFrom(events'[p], p) /\ Awaited(events'[p], p, task)
    <3>1. CASE events'[p] = events[p]
      BY <1>0, <3>1
    <3>2. CASE p = n /\ events'[p] = Tail(events[n])
      BY <2>3, <3>2
    <3>3. CASE p = m /\ events'[p] = Append(events[m], info)
      BY <2>4, <3>3
    <3> QED BY <2>5, <3>1, <3>2, <3>3
  <2> QED BY <2>1, <2>6, QueueReplies
<1>2. CASE ConnectionClosed(n)
  <2>1. /\ events[n] # <<>> /\ events'[n] = Tail(events[n])
        /\ \A p \in Nodes \ {n} : events'[p] = events[p]
        /\ UNCHANGED task
    BY <1>2, ClosedEffect DEF ClosedDoes
  <2>2. ~QueuedFrom(Tail(events[n]), n) /\ Awaited(Tail(events[n]), n, task)
    BY <1>0, <1>a, <2>1, PopKeeps, AwaitedPop
  <2>3. ASSUME NEW p \in Nodes PROVE ~QueuedFrom(events'[p], p) /\ Awaited(events'[p], p, task)
    <3>1. CASE p = n
      BY <2>1, <2>2, <3>1
    <3>2. CASE p # n
      <4>1. events'[p] = events[p]
        BY <2>1, <3>2
      <4> QED BY <1>0, <4>1
    <3> QED BY <3>1, <3>2
  <2> QED BY <2>1, <2>3, QueueReplies
<1>3. CASE InfoReceived(n)
  <2>0. PICK m \in Nodes \ {n}, e \in Events : InfoDoes(n, m, e)
    BY <1>3, InfoEffect
  <2>1. /\ events[n] # <<>> /\ Head(events[n]) = e /\ events'[n] = Tail(events[n])
        /\ \A p \in Nodes \ {n} : events'[p] = events[p]
        /\ \A t \in Tasks : task'[t] = task[t] \/ t = e.reply
    BY <2>0 DEF InfoDoes
  <2>2. /\ ~QueuedFrom(Tail(events[n]), n) /\ Awaited(Tail(events[n]), n, task)
        /\ e.reply # None => /\ task[e.reply].to = n
                             /\ \A i \in DOMAIN Tail(events[n]) : Tail(events[n])[i].reply # e.reply
    BY <1>0, <1>a, <2>1, PopKeeps, AwaitedPop
  <2>3. ASSUME NEW p \in Nodes PROVE ~QueuedFrom(events'[p], p) /\ Awaited(events'[p], p, task')
    <3>0. events'[p] = events[p] \/ (p = n /\ events'[p] = Tail(events[p]))
      BY <2>1
    <3>a. events[p] \in Seq(Events)
      BY <1>a
    <3>b. p = n => Tail(events[p]) \in Seq(Events)
      BY <2>1, <3>a
    <3>1. PICK q \in Seq(Events) : q = events'[p]
      BY <3>0, <3>a, <3>b
    <3>2. /\ ~QueuedFrom(q, p) /\ Awaited(q, p, task)
          /\ \A i \in DOMAIN q : q[i].reply # None => q[i].reply # e.reply
      <4>1. CASE p = n
        BY <2>1, <2>2, <3>1, <4>1
      <4>2. CASE p # n
        <5>1. q = events[p]
          BY <2>1, <3>1, <4>2
        <5>2. ASSUME NEW i \in DOMAIN q, q[i].reply # None PROVE q[i].reply # e.reply
          BY <1>0, <2>2, <4>2, <5>1, <5>2 DEF Awaited
        <5> QED BY <1>0, <5>1, <5>2
      <4> QED BY <4>1, <4>2
    <3>3. ASSUME NEW i \in DOMAIN q, q[i].reply # None PROVE task'[q[i].reply] = task[q[i].reply]
      <4>1. q[i] \in Events
        OBVIOUS
      <4>2. q[i].reply \in Tasks
        BY <3>3, <4>1 DEF Events
      <4> QED BY <2>1, <3>2, <3>3, <4>2
    <3>4. Awaited(q, p, task')
      BY <3>2, <3>3, AwaitedSteps
    <3> QED BY <3>1, <3>2, <3>4
  <2> QED BY <2>3 DEF OthersOnly, Replies, QueuedFrom
<1> QED BY <1>1, <1>2, <1>3

\* A command sends, or gives up on the answer.
LEMMA SendReplies ==
    ASSUME QInv, NEW t \in Tasks, SendFails(t) \/ \E n \in Nodes : SendInfo(t, n)
    PROVE  OthersOnly' /\ Replies'
<1>0. IInv /\ \A p \in Nodes : ~QueuedFrom(events[p], p) /\ Awaited(events[p], p, task)
  BY DEF QInv, OthersOnly, Replies
<1>a. events \in [Nodes -> Seq(Events)] /\ t # None
  BY <1>0, Parts, Consts
<1>1. ASSUME NEW n \in Nodes, SendInfo(t, n) PROVE OthersOnly' /\ Replies'
  <2>1. PICK m \in Nodes : m = Owner[t]
    BY EndsType
  <2>2. /\ task[t].pc = "Send" /\ TaskOnly(t)
        /\ Linked(m, n) =>
              /\ task'[t].pc = "Await" /\ task'[t].to = n
              /\ InfoEvent(m, task[t].value, t) \in Events
              /\ events'[n] = Append(events[n], InfoEvent(m, task[t].value, t))
              /\ \A p \in Nodes \ {n} : events'[p] = events[p]
        /\ ~Linked(m, n) => UNCHANGED events
    BY <1>0, <1>1, <2>1, SendEffect
  <2>3. CASE ~Linked(m, n)
    BY <2>2, <2>3, FrameReplies
  <2>4. CASE Linked(m, n)
    <3> DEFINE e == InfoEvent(m, task[t].value, t)
               r == Append(events[n], e)
    <3>1. e \in Events /\ e.peer = m /\ e.reply = t /\ m # n
      BY <1>0, <2>2, <2>4, Parts DEF InfoEvent
    <3>2. events'[n] = r /\ events[n] \in Seq(Events)
      BY <1>a, <2>2, <2>4
    <3>3. ASSUME NEW p \in Nodes
          PROVE  Awaited(events[p], p, task') /\ \A i \in DOMAIN events[p] : events[p][i].reply # t
      <4>1. Awaited(events[p], p, task) /\ events[p] \in Seq(Events)
        BY <1>0, <1>a
      <4>2. \A i \in DOMAIN events[p] : events[p][i].reply # t
        BY <1>a, <2>2, <4>1 DEF Awaited
      <4>3. ASSUME NEW i \in DOMAIN events[p], events[p][i].reply # None
            PROVE  task'[events[p][i].reply] = task[events[p][i].reply]
        <5>1. events[p][i] \in Events
          BY <4>1
        <5>2. events[p][i].reply \in Tasks
          BY <4>3, <5>1 DEF Events
        <5> QED BY <2>2, <4>2, <5>2 DEF TaskOnly
      <4> QED BY <4>1, <4>2, <4>3, AwaitedSteps
    <3> HIDE DEF e
    <3>4. ~QueuedFrom(r, n) /\ Awaited(r, n, task')
      <4>1. ~QueuedFrom(r, n)
        BY <1>0, <3>1, <3>2, PushKeeps
      <4>2. Awaited(r, n, task')
        BY <2>2, <2>4, <3>1, <3>2, <3>3, AwaitedSteps
      <4> QED BY <4>1, <4>2
    <3>5. ASSUME NEW p \in Nodes PROVE ~QueuedFrom(events'[p], p) /\ Awaited(events'[p], p, task')
      <4>1. CASE p = n
        BY <3>2, <3>4, <4>1
      <4>2. CASE p # n
        <5>1. events'[p] = events[p]
          BY <2>2, <2>4, <4>2
        <5> QED BY <1>0, <3>3, <5>1
      <4> QED BY <4>1, <4>2
    <3> QED BY <3>5 DEF OthersOnly, Replies, QueuedFrom
  <2> QED BY <2>3, <2>4
<1>2. CASE SendFails(t)
  <2>1. /\ TaskOnly(t)
        /\ \A p \in Nodes : events'[p] = IF p = task[t].to THEN Unreply(events[p], t) ELSE events[p]
    BY <1>0, <1>2, FailsEffect
  <2>2. ASSUME NEW p \in Nodes PROVE ~QueuedFrom(events'[p], p) /\ Awaited(events'[p], p, task')
    <3>1. events[p] \in Seq(Events) /\ Unreply(events[p], t) \in Seq(Events)
      BY <1>a, UnreplyKeeps
    <3>2. PICK q \in Seq(Events) : q = events'[p]
      BY <2>1, <3>1
    <3>3. /\ ~QueuedFrom(q, p) /\ Awaited(q, p, task)
          /\ \A i \in DOMAIN q : q[i].reply # t
      <4>1. CASE p = task[t].to
        <5>1. q = Unreply(events[p], t)
          BY <2>1, <3>2, <4>1
        <5> QED BY <1>0, <3>1, <5>1, UnreplyKeeps, AwaitedSteps
      <4>2. CASE p # task[t].to
        <5>1. q = events[p]
          BY <2>1, <3>2, <4>2
        <5>2. \A i \in DOMAIN q : q[i].reply # t
          BY <1>0, <1>a, <4>2, <5>1 DEF Awaited
        <5> QED BY <1>0, <5>1, <5>2
      <4> QED BY <4>1, <4>2
    <3>4. ASSUME NEW i \in DOMAIN q, q[i].reply # None PROVE task'[q[i].reply] = task[q[i].reply]
      <4>1. q[i] \in Events
        OBVIOUS
      <4>2. q[i].reply \in Tasks
        BY <3>4, <4>1 DEF Events
      <4> QED BY <2>1, <3>3, <4>2 DEF TaskOnly
    <3>5. Awaited(q, p, task')
      BY <3>3, <3>4, AwaitedSteps
    <3> QED BY <3>2, <3>3, <3>5
  <2> QED BY <2>2 DEF OthersOnly, Replies, QueuedFrom
<1> QED BY <1>1, <1>2

\* Every step preserves both.
LEMMA NextQInv == QInv /\ [Next]_vars => QInv'
<1> SUFFICES ASSUME QInv, [Next]_vars PROVE QInv'
  OBVIOUS
<1>1. IInv /\ IInv'
  BY NextIInv DEF QInv
<1>2. CASE UNCHANGED vars
  BY <1>1, <1>2, QueueReplies DEF vars, QInv, OthersOnly, Replies
<1>3. ASSUME NEW l \in Links, Open(l) \/ Close(l) PROVE QInv'
  BY <1>1, <1>3, LinkReplies DEF QInv
<1>4. ASSUME NEW n \in Nodes, NodeStep(n) PROVE QInv'
  <2>1. CASE ConnectionEstablished(n) \/ ConnectionClosed(n) \/ InfoReceived(n)
    BY <1>1, <2>1, HandlerReplies DEF QInv
  <2>2. ASSUME NEW m \in Nodes, Disconnect(n, m) PROVE QInv'
    BY <1>1, <2>2, LinkReplies DEF QInv
  <2>3. CASE \/ \E m \in Nodes : PingTimeout(n, m)
             \/ \E name \in NamesOf[n] : set_local_name(n, name)
             \/ \E models \in SUBSET ModelFiles : FlushFails(n, models)
             \/ \E f \in ModelFiles : DropModel(n, f)
    <3>1. UNCHANGED <<events, task>>
      BY <2>3 DEF PingTimeout, set_local_name, FlushFails, DropModel, ModelsChange
    <3> QED BY <1>1, <3>1, QueueReplies DEF QInv, OthersOnly, Replies
  <2> QED BY <1>4, <2>1, <2>2, <2>3 DEF NodeStep
<1>5. ASSUME NEW t \in Tasks, TaskStep(t) PROVE QInv'
  <2>1. CASE SendFails(t) \/ \E m \in Nodes : SendInfo(t, m)
    BY <1>1, <2>1, SendReplies DEF QInv
  <2>2. ASSUME task[t].pc # "Await", TaskOnly(t), UNCHANGED events PROVE QInv'
    BY <1>1, <2>2, FrameReplies DEF QInv
  <2>3. ASSUME NEW what \in {"sessions", "models", "script"}, Start(t, what) PROVE QInv'
    BY <1>1, <2>2, <2>3, CommandEffect
  <2>4. CASE ListHeld(t) \/ ReadLocal(t) \/ ReadPeers(t) \/ BroadcastDone(t)
    <3>1. task[t].pc # "Await" /\ TaskOnly(t) /\ UNCHANGED events
      BY <1>1, <2>4, CommandEffect
    <3> QED BY <2>2, <3>1
  <2>5. CASE UpdateLocal(t)
    <3>1. task[t].pc # "Await" /\ TaskOnly(t) /\ UNCHANGED events
      BY <1>1, <2>5, UpdateEffect
    <3> QED BY <2>2, <3>1
  <2> QED BY <1>5, <2>1, <2>3, <2>4, <2>5 DEF TaskStep, CreateSession, Flush
<1> QED BY <1>2, <1>3, <1>4, <1>5 DEF Next

(***************************************************************************)
(* Steps that leave a node's own affairs alone.                            *)
(***************************************************************************)
QuietAt(m) ==
    /\ held'[m].sessions = held[m].sessions
    /\ held'[m].models = held[m].models \/ <<m, "models">> \in excuse'.unlisted
    /\ \A list : <<m, list>> \in excuse.unlisted => <<m, list>> \in excuse'.unlisted
    /\ table'[m][m].models = table[m][m].models
    /\ table'[m][m].sessions = table[m][m].sessions
    /\ table'[m][m].name = "piped" =>
          table[m][m].name = "piped" \/ \A n \in Nodes \ {m} : <<n, m>> \in excuse'.untold
    /\ \A t \in Tasks : Owner[t] = m => TaskSame(t)

\* What such a step must keep between n and m.
PairKept(n, m) ==
    /\ <<n, m>> \in excuse.untold => <<n, m>> \in excuse'.untold
    /\ excuse.lost \cap Both(n, m) \subseteq excuse'.lost
    /\ Linked(n, m)' => Linked(n, m)
    /\ table'[n][m] = table[n][m]
    /\ Keeps(events[n], events'[n], m)
    /\ UpQueued(events[m], n) => UpQueued(events'[m], n)

\* The tasks about to enter a list.
LEMMA EnteringTasks ==
    ASSUME NEW m, NEW list, NEW u
    PROVE  /\ u \in Entering(m, list) <=>
                 /\ u \in Tasks /\ Owner[u] = m
                 /\ task[u].pc \in {"List", "Update"} /\ ListOf(task[u].what) = list
           /\ u \in Entering(m, list)' <=>
                 /\ u \in Tasks /\ Owner[u] = m
                 /\ task'[u].pc \in {"List", "Update"} /\ ListOf(task'[u].what) = list
  BY DEF Entering, ListOf

\* Who does not enter a list leaves the own entry as right as it was.
LEMMA OwnKept ==
    ASSUME NEW m, OwnCurrent(m),
           \A t \in Tasks : Owner[t] = m =>
               \/ TaskSame(t)
               \/ task[t].pc \notin {"List", "Update"} /\ task'[t].pc \notin {"List", "Update"},
           held'[m].sessions = held[m].sessions,
           held'[m].models = held[m].models \/ <<m, "models">> \in excuse'.unlisted,
           \A list : <<m, list>> \in excuse.unlisted => <<m, list>> \in excuse'.unlisted,
           table'[m][m].models = table[m][m].models,
           table'[m][m].sessions = table[m][m].sessions
    PROVE  OwnCurrent(m)'
<1>1. ASSUME NEW list PROVE Entering(m, list)' = Entering(m, list)
  <2>1. ASSUME NEW u PROVE u \in Entering(m, list)' <=> u \in Entering(m, list)
    BY EnteringTasks DEF TaskSame
  <2> QED BY <2>1
<1>2. ASSUME NEW list, NEW u \in Entering(m, list)
      PROVE  task'[u].value = task[u].value /\ task'[u].pc = task[u].pc
  BY <1>2, EnteringTasks DEF TaskSame
<1>3. ASSUME <<m, "models">> \notin excuse'.unlisted PROVE OwnModels(m)'
  <2>1. OwnModels(m) /\ held'[m].models = held[m].models
    BY <1>3 DEF OwnCurrent
  <2> QED BY <1>1, <1>2, <2>1 DEF OwnModels
<1>4. ASSUME <<m, "sessions">> \notin excuse'.unlisted PROVE OwnSessions(m)'
  <2>1. OwnSessions(m)
    BY <1>4 DEF OwnCurrent
  <2> QED BY <1>1, <1>2, <2>1 DEF OwnSessions
<1> QED BY <1>3, <1>4 DEF OwnCurrent

\* What a node says of itself.
LEMMA QuietOwn ==
    ASSUME NEW m \in Nodes, QuietAt(m)
    PROVE  /\ TaskShape(m) => TaskShape(m)'
           /\ OwnCurrent(m) => OwnCurrent(m)'
           /\ Faithful(m) /\ table'[m][m].name # "piped" => Faithful(m)'
<1>1. Sole(m) => Sole(m)'
  BY DEF QuietAt, TaskSame, Sole, Publishes
<1>2. TaskShape(m) => TaskShape(m)'
  BY DEF QuietAt, TaskSame, TaskShape, Telling
<1>3. ASSUME OwnCurrent(m) PROVE OwnCurrent(m)'
  BY <1>3, OwnKept DEF QuietAt
<1>4. ASSUME Faithful(m), table'[m][m].name # "piped" PROVE Faithful(m)'
  BY <1>1, <1>4 DEF QuietAt, TaskSame, Faithful, Telling
<1> QED BY <1>2, <1>3, <1>4

\* A node stays informed while those who will tell it go on.
LEMMA InformedKept ==
    ASSUME NEW n, NEW m, Informed(n, m),
           table'[m][m].models = table[m][m].models,
           table'[m][m].sessions = table[m][m].sessions,
           table'[n][m] = table[n][m],
           Keeps(events[n], events'[n], m),
           UpQueued(events[m], n) => UpQueued(events'[m], n),
           \A t \in Tasks : Owner[t] = m /\ ToTell(t, n) => ToTell(t, n)'
    PROVE  Informed(n, m)'
<1> DEFINE v == table[m][m].models
           s == table[m][m].sessions
<1>1. CASE UpQueued(events[m], n)
  BY <1>1 DEF Informed
<1>2. ASSUME NEW t \in Tasks, Owner[t] = m, ToTell(t, n) PROVE Informed(n, m)'
  BY <1>2 DEF Informed
<1>3. CASE OnlyDowns(events[n], m) /\ HasLists(n, m)
  BY <1>3 DEF Informed, HasLists, Keeps
<1>4. CASE LastInfo(events[n], m, v, s)
  <2>1. LastInfo(events'[n], m, v, s)
    BY <1>4 DEF Keeps
  <2> QED BY <2>1 DEF Informed
<1> QED BY <1>1, <1>2, <1>3, <1>4 DEF Informed

\* A command goes on telling.
LEMMA TellingSame ==
    ASSUME NEW t, NEW n, TaskSame(t), ToTell(t, n)
    PROVE  ToTell(t, n)'
  BY DEF TaskSame, ToTell, Gathering

\* What others know of it.
LEMMA QuietPair ==
    ASSUME NEW m \in Nodes, NEW n \in Nodes \ {m}, Pair(n, m), QuietAt(m), PairKept(n, m)
    PROVE  Pair(n, m)'
<1>1. NoneHeard(n, m)'
  BY DEF Pair, NoneHeard, QuietAt, PairKept, Keeps
<1>2. ASSUME <<n, m>> \notin excuse'.untold PROVE Faithful(m)'
  <2>1. Faithful(m)
    BY <1>2 DEF Pair, PairKept
  <2>2. table'[m][m].name # "piped"
    BY <1>2, <2>1 DEF QuietAt, Faithful
  <2> QED BY <2>1, <2>2, QuietOwn
<1>3. Known(n, m) => Known(n, m)'
  BY DEF Known, PairKept, Keeps
<1>4. Informed(n, m) => Informed(n, m)'
  BY InformedKept, TellingSame DEF QuietAt, PairKept
<1>5. Linked(n, m)' /\ ~(Both(n, m) \subseteq excuse'.lost) => Known(n, m)'
  BY <1>3 DEF Pair, PairKept
<1>6. Linked(n, m)' /\ ~Excused(n, m)' => Informed(n, m)'
  BY <1>4 DEF Pair, PairKept, Excused, Both
<1> QED BY <1>1, <1>2, <1>5, <1>6 DEF Pair

\* Steps of the network, a new name, a change of models.
LEMMA QuietStep ==
    ASSUME LInv, QInv',
           \A m \in Nodes : QuietAt(m),
           \A m \in Nodes : \A n \in Nodes \ {m} : PairKept(n, m) \/ Pair(n, m)'
    PROVE  LInv'
<1>1. ASSUME NEW m \in Nodes PROVE TaskShape(m)' /\ OwnCurrent(m)'
  BY QuietOwn DEF LInv
<1>2. ASSUME NEW m \in Nodes, NEW n \in Nodes \ {m} PROVE Pair(n, m)'
  BY QuietPair DEF LInv
<1> QED BY <1>1, <1>2 DEF LInv

(***************************************************************************)
(* The network.                                                            *)
(***************************************************************************)
\* Quiet steps, in the terms of their effects.
LEMMA QuietByParts ==
    ASSUME IInv, UNCHANGED held, TasksSame, \A m \in Nodes : table'[m][m] = table[m][m],
           excuse.unlisted \subseteq excuse'.unlisted
    PROVE  \A m \in Nodes : QuietAt(m)
  BY DEF QuietAt, TasksSame

\* Commands that do not move go on as they were.
LEMMA TasksUnmoved == UNCHANGED task => TasksSame
  BY DEF TasksSame, TaskSame

\* Pairs that a step does not touch.
LEMMA KeptByParts ==
    ASSUME NEW n, NEW m,
           <<n, m>> \in excuse.untold => <<n, m>> \in excuse'.untold,
           excuse.lost \cap Both(n, m) \subseteq excuse'.lost,
           Linked(n, m)' => Linked(n, m), table'[n][m] = table[n][m],
           Keeps(events[n], events'[n], m), Keeps(events[m], events'[m], n)
    PROVE  PairKept(n, m)
  BY DEF PairKept, Keeps

\* The pair whose connection comes up: everything is still to come.
LEMMA OpenPair ==
    ASSUME LInv, NEW a, NEW b, OpenDoes(a, b) \/ OpenDoes(b, a)
    PROVE  Pair(a, b)'
<1>1. /\ a \in Nodes /\ b \in Nodes /\ a # b
      /\ events'[a] = Append(events[a], Event("up", b))
      /\ events'[b] = Append(events[b], Event("up", a))
      /\ Event("up", a) \in Events /\ Event("up", b) \in Events
      /\ UNCHANGED <<table, held, task>>
      /\ <<a, b>> \in excuse.untold \ excuse'.untold => CanTell(b)
  BY DEF OpenDoes
<1>2. events[a] \in Seq(Events) /\ events[b] \in Seq(Events)
  BY <1>1, Parts DEF LInv, QInv
<1>3. ASSUME NEW n \in Nodes, NEW m \in Nodes, events'[n] = Append(events[n], Event("up", m)),
             events[n] \in Seq(Events), Event("up", m) \in Events
      PROVE  /\ UpQueued(events'[n], m)
             /\ NoSessions(events[n], m) => NoSessions(events'[n], m)
  <2>1. PICK e \in Events : e = Event("up", m)
    BY <1>3
  <2>2. e.peer = m /\ e.kind = "up"
    BY <2>1 DEF Event
  <2> DEFINE r == Append(events[n], e)
  <2>3. /\ UpQueued(r, m)
        /\ NoSessions(events[n], m) => NoSessions(r, m)
    BY <1>3, <2>2, PushKeeps
  <2>4. events'[n] = r
    BY <1>3, <2>1
  <2> HIDE DEF r
  <2> QED BY <2>3, <2>4
<1>4. /\ UpQueued(events'[a], b) /\ UpQueued(events'[b], a)
      /\ NoSessions(events[a], b) => NoSessions(events'[a], b)
  BY <1>1, <1>2, <1>3
<1>5. Known(a, b)' /\ Informed(a, b)'
  BY <1>4 DEF Known, Informed
<1>6. Pair(a, b) /\ TaskShape(b)
  BY <1>1 DEF LInv
<1>7. NoneHeard(a, b)'
  BY <1>1, <1>4, <1>6 DEF Pair, NoneHeard
<1>8. ASSUME <<a, b>> \notin excuse'.untold PROVE Faithful(b)'
  <2>1. CASE <<a, b>> \notin excuse.untold
    <3>1. Faithful(b)
      BY <1>6, <2>1 DEF Pair
    <3> QED BY <1>1, <3>1 DEF Faithful, Sole, Publishes
  <2>2. CASE <<a, b>> \in excuse.untold
    <3>1. ~Publishing(b) /\ table[b][b].name # "piped"
      BY <1>1, <1>8, <2>2 DEF CanTell
    <3>2. \A t \in Tasks : Owner[t] = b => ~Publishes(t) /\ task[t].pc \notin Telling
      BY <1>6, <3>1 DEF TaskShape, Publishing, Publishes, Telling
    <3> QED BY <1>1, <3>1, <3>2 DEF Faithful, Sole, Publishes
  <2> QED BY <2>1, <2>2
<1> QED BY <1>5, <1>7, <1>8 DEF Pair

\* A connection comes up.
LEMMA OpenLInv ==
    ASSUME LInv, QInv', NEW l \in Links, Open(l)
    PROVE  LInv'
<1>0. IInv
  BY DEF LInv, QInv
<1>1. PICK a, b : a = Ends[l][1] /\ b = Ends[l][2]
  OBVIOUS
<1>2. OpenDoes(a, b)
  BY <1>0, <1>1, OpenEffect
<1>3. /\ a \in Nodes /\ b \in Nodes /\ a # b
      /\ events'[a] = Append(events[a], Event("up", b))
      /\ events'[b] = Append(events[b], Event("up", a))
      /\ \A p \in Nodes \ {a, b} : events'[p] = events[p]
      /\ Event("up", a) \in Events /\ Event("up", b) \in Events
      /\ UNCHANGED <<table, held, task>>
      /\ \A p, q \in Nodes : {p, q} # {a, b} => (Linked(p, q)' <=> Linked(p, q))
      /\ excuse'.unlisted = excuse.unlisted
      /\ \A p, q : {p, q} # {a, b} =>
            /\ <<p, q>> \in excuse.untold => <<p, q>> \in excuse'.untold
            /\ excuse.lost \cap Both(p, q) \subseteq excuse'.lost
  BY <1>2 DEF OpenDoes, Both
<1>4. \A m \in Nodes : QuietAt(m)
  BY <1>0, <1>3, QuietByParts, TasksUnmoved
<1>5. ASSUME NEW p \in Nodes, NEW q \in Nodes, {p, q} # {a, b}, p # q
      PROVE  Keeps(events[p], events'[p], q)
  <2>0. events[p] \in Seq(Events)
    BY <1>0, Parts
  <2>1. CASE p \notin {a, b}
    BY <1>3, <2>1, KeepsSame
  <2>2. CASE p \in {a, b}
    <3>1. PICK e \in Events : events'[p] = Append(events[p], e) /\ e.peer # q
      BY <1>3, <1>5, <2>2 DEF Event
    <3> DEFINE r == Append(events[p], e)
    <3>2. Keeps(events[p], r, q)
      BY <2>0, <3>1, PushKeeps
    <3>3. events'[p] = r
      BY <3>1
    <3> HIDE DEF r
    <3> QED BY <3>2, <3>3
  <2> QED BY <2>1, <2>2
<1>6. ASSUME NEW m \in Nodes, NEW n \in Nodes \ {m} PROVE PairKept(n, m) \/ Pair(n, m)'
  <2>1. CASE {n, m} = {a, b}
    <3>1. OpenDoes(n, m) \/ OpenDoes(m, n)
      BY <1>2, <2>1
    <3> QED BY <3>1, OpenPair
  <2>2. CASE {n, m} # {a, b}
    <3>1. Keeps(events[n], events'[n], m) /\ Keeps(events[m], events'[m], n)
      BY <1>5, <2>2
    <3>2. /\ <<n, m>> \in excuse.untold => <<n, m>> \in excuse'.untold
          /\ excuse.lost \cap Both(n, m) \subseteq excuse'.lost
          /\ Linked(n, m)' => Linked(n, m)
          /\ table'[n][m] = table[n][m]
      BY <1>3, <2>2
    <3> QED BY <3>1, <3>2, KeptByParts
  <2> QED BY <2>1, <2>2
<1> QED BY <1>4, <1>6, QuietStep

\* Connections end; with Disconnect, the entry goes with the last of them.
LEMMA CloseLInv ==
    ASSUME LInv, QInv', (\E l \in Links : Close(l)) \/ (\E n, m \in Nodes : Disconnect(n, m))
    PROVE  LInv'
<1>0. IInv
  BY DEF LInv, QInv
<1>1. ASSUME UNCHANGED <<held, task, excuse>>, NEW n \in Nodes, NEW m \in Nodes, OnlyEntry(n, m),
             n = m => table'[n][m] = table[n][m],
             table'[n][m] = table[n][m] \/ (table'[n][m] = None /\ ~Linked(n, m)'),
             \A p, q \in Nodes : Linked(p, q)' => Linked(p, q),
             \A p \in Nodes : \A q : Keeps(events[p], events'[p], q)
      PROVE  LInv'
  <2>1. \A p \in Nodes : table'[p][p] = table[p][p]
    BY <1>1 DEF OnlyEntry
  <2>2. \A p \in Nodes : QuietAt(p)
    BY <1>0, <1>1, <2>1, QuietByParts, TasksUnmoved
  <2>3. ASSUME NEW q \in Nodes, NEW p \in Nodes \ {q} PROVE PairKept(p, q) \/ Pair(p, q)'
    <3>1. CASE table'[p][q] = table[p][q]
      BY <1>1, <3>1, KeptByParts
    <3>2. CASE table'[p][q] # table[p][q]
      <4>1. p = n /\ q = m /\ table'[p][q] = None /\ ~Linked(p, q)'
        BY <1>1, <3>2 DEF OnlyEntry
      <4>2. Pair(p, q) /\ QuietAt(q) /\ Keeps(events[p], events'[p], q)
        BY <1>1, <2>2 DEF LInv
      <4>3. NoneHeard(p, q)'
        BY <4>1, <4>2 DEF Pair, NoneHeard, QuietAt, Keeps
      <4>4. ASSUME <<p, q>> \notin excuse'.untold PROVE Faithful(q)'
        <5>1. Faithful(q)
          BY <1>1, <4>2, <4>4 DEF Pair
        <5> QED BY <2>1, <4>2, <5>1, QuietOwn DEF Faithful
      <4> QED BY <4>1, <4>3, <4>4 DEF Pair
    <3> QED BY <3>1, <3>2
  <2> QED BY <2>2, <2>3, QuietStep
<1>2. ASSUME NEW l \in Links, Close(l) PROVE LInv'
  <2>1. PICK a, b : a = Ends[l][1] /\ b = Ends[l][2]
    OBVIOUS
  <2>2. a \in Nodes /\ b \in Nodes /\ a # b /\ {l} \in SUBSET LinksOf(a, b)
    BY <2>1, EndsType DEF LinksOf
  <2>3. CloseLinks(a, b, {l}) /\ UNCHANGED <<table, held, task, excuse>>
    BY <1>2, <2>1 DEF Close
  <2>4. CloseDoes(a, b)
    BY <1>0, <2>2, <2>3, CloseEffect
  <2>5. /\ \A p, q \in Nodes : Linked(p, q)' => Linked(p, q)
        /\ \A p \in Nodes : \A q : Keeps(events[p], events'[p], q)
    BY <2>4 DEF CloseDoes
  <2>6. OnlyEntry(a, b)
    BY <2>3 DEF OnlyEntry
  <2> QED BY <1>1, <2>2, <2>3, <2>5, <2>6
<1>3. ASSUME NEW n \in Nodes, NEW m \in Nodes, Disconnect(n, m) PROVE LInv'
  <2>1. /\ OnlyEntry(n, m) /\ UNCHANGED <<held, task, excuse>>
        /\ n = m => table'[n][m] = table[n][m]
        /\ n # m => table'[n][m] = None
    BY <1>0, <1>3, RemoveEffect DEF Disconnect
  <2>2. CASE ~Linked(n, m) /\ UNCHANGED <<open, events>>
    <3>1. \A p, q \in Nodes : Linked(p, q)' <=> Linked(p, q)
      BY <2>2 DEF Linked, LinksOf
    <3>2. \A p \in Nodes : \A q : Keeps(events[p], events'[p], q)
      BY <2>2, KeepsSame
    <3> QED BY <1>1, <2>1, <2>2, <3>1, <3>2
  <2>3. CASE Linked(n, m) /\ CloseLinks(n, m, {l \in LinksOf(n, m) : open[l]})
    <3> DEFINE ls == {l \in LinksOf(n, m) : open[l]}
    <3>1. n # m /\ ls \in SUBSET LinksOf(n, m)
      BY <1>0, <2>3, Parts
    <3>2. CloseDoes(n, m)
      BY <1>0, <2>3, <3>1, CloseEffect
    <3>3. /\ \A p, q \in Nodes : Linked(p, q)' => Linked(p, q)
          /\ \A p \in Nodes : \A q : Keeps(events[p], events'[p], q)
      BY <3>2 DEF CloseDoes
    <3>4. ~Linked(n, m)'
      BY <2>3 DEF CloseLinks, Linked, LinksOf
    <3> QED BY <1>1, <2>1, <3>1, <3>3, <3>4
  <2> QED BY <1>3, <2>2, <2>3 DEF Disconnect
<1> QED BY <1>2, <1>3
(***************************************************************************)
(* The handlers.                                                           *)
(***************************************************************************)
\* The lists of an entry after upsert_peer with a new entry.
LEMMA UpsertLists ==
    ASSUME NEW old \in Entries \cup {None}
    PROVE  /\ upsert_peer(old, NewPeer) # None
           /\ upsert_peer(old, NewPeer).sessions = 0
           /\ upsert_peer(old, NewPeer).models = IF old = None THEN {} ELSE old.models
<1>1. upsert_peer(old, NewPeer) \in Entries
  BY Upsert, NewPeerType
<1> QED BY <1>1, Consts DEF upsert_peer, NewPeer, Entries

\* The lists of an entry after an Info.
LEMMA ApplyLists ==
    ASSUME NEW old \in Entries \cup {None}, NEW info \in Infos, NEW new, new = ApplyInfo(old, info)
    PROVE  /\ old # None => new # None
           /\ new # None /\ info.sessions = 0 /\ (old # None => old.sessions = 0) => new.sessions = 0
           /\ new # None /\ info.models = {} /\ (old # None => old.models = {}) => new.models = {}
           /\ old # None /\ info.name # "piped" =>
                 /\ info.models # {} => new.models = info.models
                 /\ info.models = {} => new.models = old.models
                 /\ info.sessions # 0 => new.sessions = info.sessions
                 /\ info.sessions = 0 => new.sessions \in {0, old.sessions}
<1> DEFINE heard == ParseInfo(info)
           fresh == [NewPeer EXCEPT !.name = heard.name]
           named == IF heard.name = "" THEN old ELSE upsert_peer(old, fresh)
<1>1. /\ heard \in Infos
      /\ info.sessions = 0 => heard.sessions = 0
      /\ info.models = {} => heard.models = {}
      /\ info.name # "piped" => heard = info
  BY Consts DEF ParseInfo, Infos, NoInfo, Names
<1>2. fresh \in Entries /\ fresh.models = {} /\ fresh.sessions = 0
  BY <1>1, NewPeerType DEF Entries, Infos, NewPeer
<1> HIDE DEF heard, fresh
<1>3. named \in Entries \cup {None} /\ (old # None => named # None)
  BY <1>2, Upsert, Consts
<1>4. /\ named # None /\ (old # None => old.sessions = 0) => named.sessions = 0
      /\ old # None => named.models = old.models /\ named.sessions \in {0, old.sessions}
      /\ named # None /\ (old # None => old.models = {}) => named.models = {}
  BY <1>2, Consts DEF upsert_peer, Entries
<1> HIDE DEF named
<1>5. new =
        IF named = None THEN None
        ELSE [named EXCEPT !.models   = IF heard.models = {} THEN @ ELSE heard.models,
                           !.sessions = IF heard.sessions = 0 THEN @ ELSE heard.sessions]
  BY DEF ApplyInfo, heard, fresh, named
<1>6. named # None =>
        /\ new \in Entries
        /\ new.models = IF heard.models = {} THEN named.models ELSE heard.models
        /\ new.sessions = IF heard.sessions = 0 THEN named.sessions ELSE heard.sessions
  BY <1>1, <1>3, <1>5 DEF Entries, Infos
<1> QED BY <1>1, <1>3, <1>4, <1>5, <1>6, Consts

\* A pair of which one side changes its mind.
LEMMA PairTurns ==
    ASSUME NEW m \in Nodes, NEW n \in Nodes \ {m}, Pair(n, m), QuietAt(m),
           table'[m][m] = table[m][m],
           <<n, m>> \in excuse.untold => <<n, m>> \in excuse'.untold,
           NoneHeard(n, m) => NoneHeard(n, m)',
           Linked(n, m)' /\ ~(Both(n, m) \subseteq excuse'.lost) => Known(n, m)',
           Linked(n, m)' /\ ~Excused(n, m)' => Informed(n, m)'
    PROVE  Pair(n, m)'
<1>1. ASSUME <<n, m>> \notin excuse'.untold PROVE Faithful(m)'
  <2>1. Faithful(m)
    BY <1>1 DEF Pair
  <2> QED BY <2>1, QuietOwn DEF Faithful
<1> QED BY <1>1 DEF Pair

\* A command that has n still to tell, or to look up, has it after the step.
LEMMA StillTelling ==
    ASSUME NEW n, NEW m, TasksSame, \E t \in Tasks : Owner[t] = m /\ ToTell(t, n)
    PROVE  Informed(n, m)'
  BY TellingSame DEF TasksSame, Informed

\* An excuse that goes was there.
LEMMA ExcusesLast ==
    ASSUME NEW n, NEW m, ExcusesGrow, ~Excused(n, m)'
    PROVE  ~Excused(n, m)
  BY DEF ExcusesGrow, Excused

\* The connections stay.
LEMMA LinkedSame == UNCHANGED open => \A n, m : Linked(n, m)' <=> Linked(n, m)
  BY DEF Linked, LinksOf

\* A node registers a peer and tells it about itself.
LEMMA EstablishedLInv ==
    ASSUME LInv, QInv', NEW n \in Nodes, ConnectionEstablished(n)
    PROVE  LInv'
<1>0. QInv /\ IInv
  BY DEF LInv, QInv
<1>1. PICK m \in Nodes \ {n}, info \in Events : EstablishedDoes(n, m, info)
  BY <1>0, EstablishedEffect
<1>2. /\ events[n] # <<>> /\ Head(events[n]).peer = m /\ Head(events[n]).kind = "up"
      /\ info = InfoEvent(n, build_local_info_payload(table[n][n]), None)
      /\ table'[n][m] = upsert_peer(table[n][m], NewPeer) /\ OnlyEntry(n, m)
      /\ events'[n] = Tail(events[n])
      /\ events'[m] = IF Linked(n, m) THEN Append(events[m], info) ELSE events[m]
      /\ \A p \in Nodes \ {n, m} : events'[p] = events[p]
      /\ UNCHANGED <<open, held, task, excuse>>
  BY <1>1 DEF EstablishedDoes
<1>3. \A p \in Nodes : table'[p][p] = table[p][p]
  BY <1>2 DEF OnlyEntry
<1>4. \A p \in Nodes : QuietAt(p)
  BY <1>0, <1>2, <1>3, QuietByParts, TasksUnmoved
<1>a. \A p, q : Linked(p, q)' <=> Linked(p, q)
  BY <1>2, LinkedSame
<1>b. /\ events[n] \in Seq(Events) /\ events[m] \in Seq(Events)
      /\ table[n][m] \in Entries \cup {None} /\ (Linked(m, n) => Linked(n, m))
  BY <1>0, Parts
<1>5. /\ info.peer = n /\ info.kind = "info"
      /\ info.info.name = table[n][n].name /\ info.info.models = table[n][n].models
      /\ info.info.sessions = table[n][n].sessions
  BY <1>2 DEF InfoEvent, build_local_info_payload
<1>c. PICK r : r = Append(events[m], info)
  OBVIOUS
<1>d. /\ \A q : q # n => Keeps(events[m], r, q)
      /\ UpQueued(events[m], n) => UpQueued(r, n)
      /\ table[n][n].name # "piped" => LastInfo(r, n, table[n][n].models, table[n][n].sessions)
      /\ NoSessions(events[m], n) /\ table[n][n].sessions = 0 => NoSessions(r, n)
  BY <1>b, <1>c, <1>5, PushKeeps
<1>e. events'[m] = IF Linked(n, m) THEN r ELSE events[m]
  BY <1>2, <1>c
<1>6. ASSUME NEW p \in Nodes, NEW q \in Nodes, p # q, <<p, q>> \notin {<<n, m>>, <<m, n>>}
      PROVE  Keeps(events[p], events'[p], q)
  <2>1. CASE p \notin {n, m}
    BY <1>2, <2>1, KeepsSame
  <2>2. CASE p = n
    <3>1. Head(events[n]).peer # q
      BY <1>2, <1>6, <2>2
    <3> QED BY <1>2, <1>b, <2>2, <3>1, PopKeeps
  <2>3. CASE p = m
    <3>1. q # n
      BY <1>6, <2>3
    <3> QED BY <1>d, <1>e, <2>3, <3>1, KeepsSame
  <2> QED BY <2>1, <2>2, <2>3
<1>7. Pair(n, m)'
  <2>0. Pair(n, m)
    BY DEF LInv
  <2>1. /\ table'[n][m] # None /\ table'[n][m].sessions = 0
        /\ table'[n][m].models = IF table[n][m] = None THEN {} ELSE table[n][m].models
    BY <1>2, <1>b, UpsertLists
  <2>2. /\ NoSessions(events[n], m) => NoSessions(events'[n], m)
        /\ ~OnlyDowns(events[n], m)
        /\ \A v, s : LastInfo(events[n], m, v, s) => LastInfo(events'[n], m, v, s)
    <3>1. PICK h \in Seq(Events) : h = events[n]
      BY <1>b
    <3>2. h # <<>> /\ Head(h).peer = m /\ Head(h).kind = "up" /\ events'[n] = Tail(h)
      BY <1>2, <3>1
    <3>3. /\ NoSessions(h, m) => NoSessions(Tail(h), m)
          /\ ~OnlyDowns(h, m)
          /\ \A v, s : LastInfo(h, m, v, s) => LastInfo(Tail(h), m, v, s)
      BY <3>2, PopKeeps, Zenon
    <3> QED BY <3>1, <3>2, <3>3, Zenon
  <2>3. NoneHeard(n, m) => NoneHeard(n, m)'
    BY <1>3, <2>1, <2>2 DEF NoneHeard
  <2>5. Known(n, m)'
    BY <2>1 DEF Known
  <2>6. ASSUME Informed(n, m) PROVE Informed(n, m)'
    <3>1. CASE UpQueued(events[m], n)
      <4>1. UpQueued(events'[m], n)
        BY <1>d, <1>e, <3>1
      <4> QED BY <4>1 DEF Informed
    <3>2. CASE LastInfo(events[n], m, table[m][m].models, table[m][m].sessions)
      <4>1. LastInfo(events'[n], m, table'[m][m].models, table'[m][m].sessions)
        BY <1>3, <2>2, <3>2
      <4> QED BY <4>1 DEF Informed
    <3> QED BY <1>2, <2>2, <2>6, <3>1, <3>2, StillTelling, TasksUnmoved DEF Informed
  <2>7. Linked(n, m)' /\ ~Excused(n, m)' => Informed(n, m)'
    BY <1>2, <1>a, <2>0, <2>6 DEF Pair, Excused
  <2> QED BY <1>2, <1>3, <1>4, <2>0, <2>3, <2>5, <2>7, PairTurns
<1>8. Pair(m, n)'
  <2>0. Pair(m, n)
    BY DEF LInv
  <2>a. table'[m][n] = table[m][n]
    BY <1>2 DEF OnlyEntry
  <2>1. CASE ~Linked(n, m)
    <3>1. events'[m] = events[m] /\ ~Linked(m, n)'
      BY <1>a, <1>b, <1>e, <2>1
    <3>2. NoneHeard(m, n) => NoneHeard(m, n)'
      BY <1>3, <2>a, <3>1 DEF NoneHeard
    <3> QED BY <1>2, <1>3, <1>4, <2>0, <3>1, <3>2, PairTurns
  <2>2. CASE Linked(n, m)
    <3>1. events'[m] = r
      BY <1>e, <2>2
    <3>2. NoneHeard(m, n) => NoneHeard(m, n)'
      BY <1>3, <1>d, <2>a, <3>1 DEF NoneHeard
    <3>3. ASSUME <<m, n>> \notin excuse.untold PROVE Faithful(n)' /\ table[n][n].name # "piped"
      <4>1. Faithful(n)
        BY <2>0, <3>3 DEF Pair
      <4>2. table[n][n].name # "piped"
        BY <4>1 DEF Faithful
      <4> QED BY <1>3, <1>4, <4>1, <4>2, QuietOwn
    <3>4. Known(m, n) => Known(m, n)'
      BY <1>d, <2>a, <3>1 DEF Known
    <3>5. ASSUME <<m, n>> \notin excuse.untold PROVE Informed(m, n)'
      <4>1. LastInfo(events'[m], n, table'[n][n].models, table'[n][n].sessions)
        BY <1>3, <1>d, <3>1, <3>3, <3>5
      <4> QED BY <4>1 DEF Informed
    <3> QED BY <1>2, <1>a, <2>0, <3>2, <3>3, <3>4, <3>5 DEF Pair, Excused
  <2> QED BY <2>1, <2>2
<1>9. ASSUME NEW q \in Nodes, NEW p \in Nodes \ {q} PROVE PairKept(p, q) \/ Pair(p, q)'
  <2>1. CASE <<p, q>> \in {<<n, m>>, <<m, n>>}
    BY <1>7, <1>8, <2>1
  <2>2. CASE <<p, q>> \notin {<<n, m>>, <<m, n>>}
    <3>1. Keeps(events[p], events'[p], q) /\ Keeps(events[q], events'[q], p)
      BY <1>6, <2>2
    <3>2. table'[p][q] = table[p][q]
      BY <1>2, <2>2 DEF OnlyEntry
    <3> QED BY <1>2, <1>a, <3>1, <3>2, KeptByParts
  <2> QED BY <2>1, <2>2
<1> QED BY <1>2, <1>4, <1>9, QuietStep

\* What a handler leaves at the node when it takes the head of its queue.
LEMMA PoppedKeeps ==
    ASSUME IInv, NEW n \in Nodes, NEW m \in Nodes, events[n] # <<>>, Head(events[n]).peer = m,
           events'[n] = Tail(events[n]), \A p \in Nodes \ {n} : events'[p] = events[p]
    PROVE  /\ \A p, q \in Nodes : <<p, q>> # <<n, m>> => Keeps(events[p], events'[p], q)
           /\ Head(events[n]).kind = "down" => Keeps(events[n], events'[n], m)
<1>1. events[n] \in Seq(Events)
  BY Parts
<1>2. ASSUME NEW p \in Nodes, NEW q \in Nodes, <<p, q>> # <<n, m>>
      PROVE  Keeps(events[p], events'[p], q)
  <2>1. CASE p # n
    BY <2>1, KeepsSame
  <2>2. CASE p = n
    <3>1. Head(events[n]).peer # q
      BY <1>2, <2>2
    <3> QED BY <1>1, <2>2, <3>1, PopKeeps
  <2> QED BY <2>1, <2>2
<1>3. Head(events[n]).kind = "down" => Keeps(events[n], events'[n], m)
  BY <1>1, PopKeeps
<1> QED BY <1>2, <1>3

\* A node forgets a peer whose connection ended.
LEMMA ClosedLInv ==
    ASSUME LInv, QInv', NEW n \in Nodes, ConnectionClosed(n)
    PROVE  LInv'
<1>0. QInv /\ IInv
  BY DEF LInv, QInv
<1>1. PICK m \in Nodes \ {n} : ClosedDoes(n, m)
  BY <1>0, ClosedEffect
<1>2. /\ events[n] # <<>> /\ Head(events[n]).peer = m /\ Head(events[n]).kind = "down"
      /\ table'[n][m] = None /\ OnlyEntry(n, m)
      /\ events'[n] = Tail(events[n])
      /\ \A p \in Nodes \ {n} : events'[p] = events[p]
      /\ ExcusesGrow
      /\ Linked(n, m) => UpQueued(events'[n], m) \/ Both(n, m) \subseteq excuse'.lost
      /\ UNCHANGED <<open, held, task>>
  BY <1>1 DEF ClosedDoes
<1>3. \A p \in Nodes : table'[p][p] = table[p][p]
  BY <1>2 DEF OnlyEntry
<1>4. \A p \in Nodes : QuietAt(p)
  BY <1>0, <1>2, <1>3, QuietByParts, TasksUnmoved DEF ExcusesGrow
<1>5. \A p, q : Linked(p, q)' <=> Linked(p, q)
  BY <1>2, LinkedSame
<1>6. /\ \A p, q \in Nodes : <<p, q>> # <<n, m>> => Keeps(events[p], events'[p], q)
      /\ Keeps(events[n], events'[n], m)
  BY <1>0, <1>2, PoppedKeeps
<1>7. Pair(n, m)'
  <2>0. Pair(n, m)
    BY DEF LInv
  <2>1. NoneHeard(n, m) => NoneHeard(n, m)'
    BY <1>2, <1>3, <1>6 DEF NoneHeard, Keeps
  <2>3. Linked(n, m)' /\ ~(Both(n, m) \subseteq excuse'.lost) => Known(n, m)'
    BY <1>2, <1>5 DEF Known
  <2>4. ASSUME Linked(n, m)', ~Excused(n, m)' PROVE Informed(n, m)'
    <3>1. Informed(n, m) /\ UpQueued(events'[n], m)
      <4>1. ~Excused(n, m)
        BY <1>2, <2>4, ExcusesLast
      <4>2. ~(Both(n, m) \subseteq excuse'.lost)
        BY <2>4 DEF Excused, Both
      <4> QED BY <1>2, <1>5, <2>0, <2>4, <4>1, <4>2 DEF Pair
    <3>2. ~OnlyDowns(events[n], m)
      <4>1. ~OnlyDowns(events'[n], m)
        BY <3>1 DEF UpQueued, OnlyDowns
      <4> QED BY <1>6, <4>1 DEF Keeps
    <3>3. CASE UpQueued(events[m], n)
      BY <1>2, <3>3 DEF Informed
    <3>4. CASE LastInfo(events[n], m, table[m][m].models, table[m][m].sessions)
      <4>1. LastInfo(events'[n], m, table[m][m].models, table[m][m].sessions)
        BY <1>6, <3>4 DEF Keeps
      <4> QED BY <1>3, <4>1 DEF Informed
    <3> QED BY <1>2, <3>1, <3>2, <3>3, <3>4, StillTelling, TasksUnmoved DEF Informed
  <2> QED BY <1>2, <1>3, <1>4, <2>0, <2>1, <2>3, <2>4, PairTurns DEF ExcusesGrow
<1>8. ASSUME NEW q \in Nodes, NEW p \in Nodes \ {q} PROVE PairKept(p, q) \/ Pair(p, q)'
  <2>1. CASE <<p, q>> = <<n, m>>
    BY <1>7, <2>1
  <2>2. CASE <<p, q>> # <<n, m>>
    <3>1. Keeps(events[p], events'[p], q) /\ Keeps(events[q], events'[q], p)
      BY <1>6, <2>2
    <3>2. table'[p][q] = table[p][q]
      BY <1>2, <2>2 DEF OnlyEntry
    <3> QED BY <1>2, <1>5, <3>1, <3>2, KeptByParts DEF ExcusesGrow
  <2> QED BY <2>1, <2>2
<1> QED BY <1>2, <1>4, <1>8, QuietStep

\* A node hears from a peer.
LEMMA InfoLInv ==
    ASSUME LInv, QInv', NEW n \in Nodes, InfoReceived(n)
    PROVE  LInv'
<1>0. QInv /\ IInv
  BY DEF LInv, QInv
<1>1. PICK m \in Nodes \ {n}, e \in Events : InfoDoes(n, m, e)
  BY <1>0, InfoEffect
<1>2. /\ events[n] # <<>> /\ Head(events[n]) = e /\ e.peer = m /\ e.kind = "info"
      /\ table'[n][m] = ApplyInfo(table[n][m], e.info) /\ OnlyEntry(n, m)
      /\ events'[n] = Tail(events[n])
      /\ \A p \in Nodes \ {n} : events'[p] = events[p]
      /\ TasksSame
      /\ UNCHANGED <<open, held, excuse>>
  BY <1>1 DEF InfoDoes
<1>3. \A p \in Nodes : table'[p][p] = table[p][p]
  BY <1>2 DEF OnlyEntry
<1>4. \A p \in Nodes : QuietAt(p)
  BY <1>0, <1>2, <1>3, QuietByParts
<1>5. \A p, q : Linked(p, q)' <=> Linked(p, q)
  BY <1>2, LinkedSame
<1>6. \A p, q \in Nodes : <<p, q>> # <<n, m>> => Keeps(events[p], events'[p], q)
  BY <1>0, <1>2, PoppedKeeps
<1>a. PICK h \in Seq(Events) : h = events[n]
  BY <1>0, Parts
<1>b. h # <<>> /\ Head(h) = e /\ Head(h).peer = m /\ Head(h).kind = "info" /\ events'[n] = Tail(h)
  BY <1>2, <1>a
<1>7. UpQueued(events[n], m) => UpQueued(events'[n], m)
  <2>1. UpQueued(h, m) => UpQueued(Tail(h), m)
    BY <1>b, PopKeeps, Zenon
  <2> QED BY <1>a, <1>b, <2>1
<1>8. Pair(n, m)'
  <2>0. Pair(n, m)
    BY DEF LInv
  <2> DEFINE v == table[m][m].models
             s == table[m][m].sessions
  <2>a. /\ NoSessions(events[n], m) => NoSessions(events'[n], m) /\ e.info.sessions = 0
        /\ ~OnlyDowns(events[n], m)
        /\ LastInfo(events[n], m, v, s) =>
              \/ LastInfo(events'[n], m, v, s)
              \/ /\ OnlyDowns(events'[n], m) /\ e.info.name # "piped"
                 /\ e.info.models = v /\ e.info.sessions = s
    <3>1. NoSessions(h, m) => NoSessions(Tail(h), m)
      BY <1>b, PopKeeps, Zenon
    <3>2. /\ ~OnlyDowns(h, m)
          /\ NoSessions(h, m) => Head(h).info.sessions = 0
      BY <1>b, PopKeeps, Zenon
    <3>3. \A w, k : LastInfo(h, m, w, k) =>
             \/ LastInfo(Tail(h), m, w, k)
             \/ /\ OnlyDowns(Tail(h), m) /\ Head(h).info.name # "piped"
                /\ Head(h).info.models = w /\ Head(h).info.sessions = k
      BY <1>b, PopKeeps, Zenon
    <3> HIDE DEF v, s
    <3> QED BY <1>a, <1>b, <3>1, <3>2, <3>3
  <2>b. PICK old \in Entries \cup {None} : old = table[n][m]
    BY <1>0, Parts
  <2> DEFINE new == table'[n][m]
  <2>c. e.info \in Infos /\ new = ApplyInfo(old, e.info)
    BY <1>2, <2>b DEF Events
  <2>d. /\ old # None => new # None
        /\ new # None /\ e.info.sessions = 0 /\ (old # None => old.sessions = 0) => new.sessions = 0
        /\ new # None /\ e.info.models = {} /\ (old # None => old.models = {}) => new.models = {}
        /\ old # None /\ e.info.name # "piped" =>
              /\ e.info.models # {} => new.models = e.info.models
              /\ e.info.models = {} => new.models = old.models
              /\ e.info.sessions # 0 => new.sessions = e.info.sessions
              /\ e.info.sessions = 0 => new.sessions \in {0, old.sessions}
    BY <2>c, ApplyLists
  <2>1. NoneHeard(n, m) => NoneHeard(n, m)'
    BY <1>3, <2>a, <2>b, <2>d DEF NoneHeard
  <2>3. Known(n, m) => Known(n, m)'
    BY <1>7, <2>b, <2>d DEF Known
  <2>4. ASSUME Linked(n, m)', ~Excused(n, m)' PROVE Informed(n, m)'
    <3>1. Informed(n, m) /\ Known(n, m) /\ NoneHeard(n, m)
      BY <1>2, <1>5, <2>0, <2>4 DEF Pair, Excused, Both
    <3>2. CASE UpQueued(events[m], n)
      BY <1>2, <3>2 DEF Informed
    <3>3. CASE LastInfo(events[n], m, v, s)
      <4>1. CASE LastInfo(events'[n], m, v, s)
        BY <1>3, <4>1 DEF Informed
      <4>2. CASE /\ OnlyDowns(events'[n], m) /\ e.info.name # "piped"
                 /\ e.info.models = v /\ e.info.sessions = s
        <5>1. ~UpQueued(events'[n], m)
          BY <4>2 DEF OnlyDowns, UpQueued
        <5>2. old # None
          BY <1>7, <2>b, <3>1, <5>1 DEF Known
        <5>3. s = 0 => old.sessions = 0
          BY <2>b, <3>1, <5>2 DEF NoneHeard
        <5>4. new # None /\ v \in {{}, new.models} /\ new.sessions = s
          BY <2>d, <4>2, <5>2, <5>3
        <5> QED BY <1>3, <2>b, <4>2, <5>4 DEF Informed, HasLists
      <4> QED BY <2>a, <3>3, <4>1, <4>2
    <3> QED BY <1>2, <2>a, <3>1, <3>2, <3>3, StillTelling DEF Informed
  <2>5. Linked(n, m)' /\ ~(Both(n, m) \subseteq excuse'.lost) => Known(n, m)'
    BY <1>2, <1>5, <2>0, <2>3 DEF Pair
  <2> QED BY <1>2, <1>3, <1>4, <2>0, <2>1, <2>4, <2>5, PairTurns
<1>9. ASSUME NEW q \in Nodes, NEW p \in Nodes \ {q} PROVE PairKept(p, q) \/ Pair(p, q)'
  <2>1. CASE <<p, q>> = <<n, m>>
    BY <1>8, <2>1
  <2>2. CASE <<p, q>> # <<n, m>>
    <3>1. Keeps(events[p], events'[p], q)
      BY <1>6, <2>2
    <3>2. UpQueued(events[q], p) => UpQueued(events'[q], p)
      BY <1>6, <1>7 DEF Keeps
    <3>3. table'[p][q] = table[p][q]
      BY <1>2, <2>2 DEF OnlyEntry
    <3> QED BY <1>2, <1>5, <3>1, <3>2, <3>3 DEF PairKept
  <2> QED BY <2>1, <2>2
<1> QED BY <1>2, <1>4, <1>9, QuietStep

\* A ping times out: both sides are excused.
LEMMA PingLInv ==
    ASSUME LInv, QInv', NEW n \in Nodes, NEW m \in Nodes, PingTimeout(n, m)
    PROVE  LInv'
<1>0. IInv
  BY DEF LInv, QInv
<1>1. /\ OnlyEntry(n, m) /\ UNCHANGED <<open, events, held, task>>
      /\ ExcusesGrow /\ Both(n, m) \subseteq excuse'.lost /\ Linked(n, m)
  BY <1>0, RemoveEffect, LostGrows DEF PingTimeout
<1>2. n # m /\ table'[n][m] = None
  BY <1>0, <1>1, Parts, RemoveEffect
<1>3. \A p \in Nodes : table'[p][p] = table[p][p]
  BY <1>1, <1>2 DEF OnlyEntry
<1>4. \A p \in Nodes : QuietAt(p)
  BY <1>0, <1>1, <1>3, QuietByParts, TasksUnmoved DEF ExcusesGrow
<1>5. \A p, q : Linked(p, q)' <=> Linked(p, q)
  BY <1>1, LinkedSame
<1>6. Pair(n, m)'
  <2>1. Pair(n, m)
    BY <1>2 DEF LInv
  <2>2. NoneHeard(n, m)'
    BY <1>1, <1>2, <1>3, <2>1 DEF Pair, NoneHeard
  <2>3. Excused(n, m)'
    BY <1>1 DEF Both, Excused
  <2> QED BY <1>1, <1>2, <1>3, <1>4, <2>1, <2>2, <2>3, PairTurns DEF ExcusesGrow
<1>7. ASSUME NEW q \in Nodes, NEW p \in Nodes \ {q} PROVE PairKept(p, q) \/ Pair(p, q)'
  <2>1. CASE <<p, q>> = <<n, m>>
    BY <1>6, <2>1
  <2>2. CASE <<p, q>> # <<n, m>>
    <3>1. Keeps(events[p], events'[p], q) /\ Keeps(events[q], events'[q], p)
      BY <1>1, KeepsSame
    <3>2. table'[p][q] = table[p][q]
      BY <1>1, <2>2 DEF OnlyEntry
    <3> QED BY <1>1, <1>5, <3>1, <3>2, KeptByParts DEF ExcusesGrow
  <2> QED BY <2>1, <2>2
<1> QED BY <1>1, <1>4, <1>7, QuietStep

\* A new name: one with a '|' excuses everybody who hears it.
LEMMA NameLInv ==
    ASSUME LInv, QInv', NEW n \in Nodes, NEW name \in NamesOf[n], set_local_name(n, name)
    PROVE  LInv'
<1>0. IInv
  BY DEF LInv, QInv
<1>1. /\ table \in [Nodes -> [Nodes -> Entries \cup {None}]] /\ table[n][n] \in Entries
  BY <1>0, Parts
<1>2. /\ table' = [table EXCEPT ![n][n].name = name]
      /\ excuse' = IF name = "piped" THEN [excuse EXCEPT !.untold = @ \cup About(n)] ELSE excuse
      /\ UNCHANGED <<open, events, held, task>>
  BY DEF set_local_name
<1>3. /\ OnlyEntry(n, n) /\ table'[n][n].name = name
      /\ table'[n][n].models = table[n][n].models /\ table'[n][n].sessions = table[n][n].sessions
  BY <1>1, <1>2 DEF OnlyEntry, Entries
<1>4. ExcusesGrow /\ (name = "piped" => \A p \in Nodes \ {n} : <<p, n>> \in excuse'.untold)
  BY <1>0, <1>2, UntoldGrows DEF ExcusesGrow
<1>5. ASSUME NEW m \in Nodes PROVE QuietAt(m)
  <2>1. \A t \in Tasks : TaskSame(t)
    BY <1>2 DEF TaskSame
  <2>2. CASE m = n
    BY <1>2, <1>3, <1>4, <2>1, <2>2 DEF QuietAt, ExcusesGrow
  <2>3. CASE m # n
    <3>1. table'[m][m] = table[m][m]
      BY <1>3, <2>3 DEF OnlyEntry
    <3> QED BY <1>2, <1>4, <2>1, <3>1 DEF QuietAt, ExcusesGrow
  <2> QED BY <2>2, <2>3
<1>6. ASSUME NEW q \in Nodes, NEW p \in Nodes \ {q} PROVE PairKept(p, q)
  <2>1. Keeps(events[p], events'[p], q) /\ Keeps(events[q], events'[q], p)
    BY <1>2, KeepsSame
  <2>2. table'[p][q] = table[p][q] /\ (Linked(p, q)' <=> Linked(p, q))
    BY <1>2, <1>3, LinkedSame DEF OnlyEntry
  <2> QED BY <1>4, <2>1, <2>2, KeptByParts DEF ExcusesGrow
<1> QED BY <1>4, <1>5, <1>6, QuietStep

\* The models of a node change: its own entry is behind.
LEMMA ModelsLInv ==
    ASSUME LInv, QInv', NEW n \in Nodes, NEW models \in SUBSET ModelFiles, ModelsChange(n, models)
    PROVE  LInv'
<1>0. IInv
  BY DEF LInv, QInv
<1>1. /\ held' = [held EXCEPT ![n].models = models]
      /\ excuse' = [excuse EXCEPT !.unlisted = @ \cup {<<n, "models">>}]
      /\ UNCHANGED <<table, open, events, task>>
  BY DEF ModelsChange
<1>2. ExcusesGrow /\ <<n, "models">> \in excuse'.unlisted
  <2>1. excuse \in Excuses
    BY <1>0 DEF IInv, TypeOK
  <2> QED BY <1>1, <2>1 DEF Excuses, ExcusesGrow
<1>3. ASSUME NEW m \in Nodes PROVE QuietAt(m)
  <2>1. held'[m].sessions = held[m].sessions /\ (held'[m].models = held[m].models \/ m = n)
    BY <1>0, <1>1, Parts
  <2> QED BY <1>1, <1>2, <2>1 DEF QuietAt, TaskSame, ExcusesGrow
<1>4. ASSUME NEW q \in Nodes, NEW p \in Nodes \ {q} PROVE PairKept(p, q)
  <2>1. Keeps(events[p], events'[p], q) /\ Keeps(events[q], events'[q], p)
    BY <1>1, KeepsSame
  <2>2. Linked(p, q)' <=> Linked(p, q)
    BY <1>1, LinkedSame
  <2> QED BY <1>1, <1>2, <2>1, <2>2, KeptByParts DEF ExcusesGrow
<1> QED BY <1>3, <1>4, QuietStep

\* A command gives up on an answer.
LEMMA FailsLInv ==
    ASSUME LInv, QInv', NEW t \in Tasks, SendFails(t)
    PROVE  LInv'
<1>0. IInv
  BY DEF LInv, QInv
<1>1. /\ TasksSame
      /\ \A p \in Nodes : events'[p] = IF p = task[t].to THEN Unreply(events[p], t) ELSE events[p]
      /\ UNCHANGED <<table, open, held, excuse>>
  BY <1>0, FailsEffect
<1>2. \A m \in Nodes : QuietAt(m)
  BY <1>0, <1>1, QuietByParts
<1>3. ASSUME NEW p \in Nodes, NEW q PROVE Keeps(events[p], events'[p], q)
  <2>1. events[p] \in Seq(Events)
    BY <1>0, Parts
  <2> QED BY <1>1, <2>1, UnreplyKeeps, KeepsSame
<1>4. ASSUME NEW q \in Nodes, NEW p \in Nodes \ {q} PROVE PairKept(p, q)
  <2>1. Linked(p, q)' <=> Linked(p, q)
    BY <1>1, LinkedSame
  <2> QED BY <1>1, <1>3, <2>1, KeptByParts
<1> QED BY <1>1, <1>2, <1>4, QuietStep
(***************************************************************************)
(* The commands.                                                           *)
(***************************************************************************)
\* A step of task t of node m that sends nothing.
LEMMA CommandStep ==
    ASSUME LInv, QInv', NEW t \in Tasks, NEW m \in Nodes, m = Owner[t], TaskOnly(t),
           UNCHANGED <<open, events>>, OnlyEntry(m, m), excuse'.lost = excuse.lost,
           \A p \in Nodes \ {m} : held'[p] = held[p],
           \A p \in Nodes \ {m} : \A list : <<p, list>> \in excuse.unlisted => <<p, list>> \in excuse'.unlisted,
           \A p \in Nodes \ {m} : \A n : <<n, p>> \in excuse.untold => <<n, p>> \in excuse'.untold,
           TaskShape(m)', OwnCurrent(m)',
           table'[m][m].sessions = 0 => table[m][m].sessions = 0,
           \A n \in Nodes \ {m} : <<n, m>> \notin excuse'.untold =>
               /\ Faithful(m)'
               /\ Linked(n, m) /\ <<n, m>> \notin excuse.lost => Informed(n, m)'
    PROVE  LInv'
<1>1. ASSUME NEW p \in Nodes \ {m} PROVE QuietAt(p)
  <2>1. table'[p][p] = table[p][p]
    BY DEF OnlyEntry
  <2>2. \A u \in Tasks : Owner[u] = p => TaskSame(u)
    BY DEF TaskOnly, TaskSame
  <2> QED BY <2>1, <2>2 DEF QuietAt
<1>2. \A p, q : Linked(p, q)' <=> Linked(p, q)
  BY LinkedSame
<1>3. ASSUME NEW p \in Nodes \ {m}, NEW n \in Nodes \ {p} PROVE Pair(n, p)'
  <2>1. Keeps(events[n], events'[n], p) /\ Keeps(events[p], events'[p], n)
    BY KeepsSame
  <2>2. table'[n][p] = table[n][p]
    BY DEF OnlyEntry
  <2>3. PairKept(n, p)
    BY <1>2, <2>1, <2>2, KeptByParts
  <2>4. Pair(n, p) /\ QuietAt(p)
    BY <1>1 DEF LInv
  <2> QED BY <2>3, <2>4, QuietPair
<1>4. ASSUME NEW n \in Nodes \ {m} PROVE Pair(n, m)'
  <2>0. Pair(n, m)
    BY DEF LInv
  <2>1. table'[n][m] = table[n][m]
    BY DEF OnlyEntry
  <2>2. NoneHeard(n, m)'
    BY <2>0, <2>1 DEF Pair, NoneHeard
  <2>3. <<n, m>> \notin excuse'.untold => Faithful(m)'
    OBVIOUS
  <2>4. Known(n, m) => Known(n, m)'
    BY <2>1 DEF Known
  <2>5. Linked(n, m)' /\ ~Excused(n, m)' => Informed(n, m)'
    BY <1>2 DEF Excused
  <2>6. Linked(n, m)' /\ ~(Both(n, m) \subseteq excuse'.lost) => Known(n, m)'
    BY <1>2, <2>0, <2>4 DEF Pair
  <2> QED BY <2>2, <2>3, <2>5, <2>6 DEF Pair
<1>5. ASSUME NEW p \in Nodes \ {m} PROVE TaskShape(p)' /\ OwnCurrent(p)'
  BY <1>1, QuietOwn DEF LInv
<1> QED BY <1>3, <1>4, <1>5 DEF LInv

\* Something of m has to be looked up: everybody will be told.
LEMMA GatheringTells ==
    ASSUME NEW t \in Tasks, task'[t].pc \in Gathering, task'[t].what # "script"
    PROVE  \A n : Informed(n, Owner[t])'
  BY DEF Informed, ToTell

\* Who was told, or will be, when t is not one that tells.
LEMMA SilentStep ==
    ASSUME NEW t \in Tasks, NEW m, NEW n, m = Owner[t], TaskOnly(t), ~Publishes(t), Informed(n, m),
           UNCHANGED events, table'[n][m] = table[n][m],
           table'[m][m].models = table[m][m].models, table'[m][m].sessions = table[m][m].sessions
    PROVE  Informed(n, m)'
<1>1. ASSUME NEW u \in Tasks, ToTell(u, n) PROVE ToTell(u, n)'
  <2>1. u # t
    BY <1>1 DEF ToTell, Publishes, Gathering
  <2> QED BY <1>1, <2>1 DEF ToTell, TaskOnly
<1>2. Keeps(events[n], events'[n], m)
  BY KeepsSame
<1> QED BY <1>1, <1>2, InformedKept

\* What the commands tell stays right when another task moves.
LEMMA SilentFaithful ==
    ASSUME NEW t \in Tasks, NEW m, m = Owner[t], TaskOnly(t), Faithful(m),
           ~Publishes(t)', task'[t].pc \notin Telling,
           table'[m][m].models = table[m][m].models, table'[m][m].sessions = table[m][m].sessions,
           table'[m][m].name = table[m][m].name
    PROVE  Faithful(m)'
<1>1. Sole(m)'
  <2>1. ASSUME NEW u \in Tasks, Publishes(u)' PROVE u # t /\ Publishes(u)
    BY <2>1 DEF Publishes, TaskOnly
  <2> QED BY <2>1 DEF Faithful, Sole
<1>2. \A u \in Tasks : task'[u].pc \in Telling => task'[u] = task[u]
  BY DEF TaskOnly
<1> QED BY <1>1, <1>2 DEF Faithful

\* What a start excuses.
LEMMA StartExcuses ==
    ASSUME IInv, NEW t \in Tasks, NEW m \in Nodes, m = Owner[t], NEW what, Start(t, what)
    PROVE  /\ excuse'.lost = excuse.lost
           /\ excuse.unlisted \subseteq excuse'.unlisted
           /\ Entering(m, ListOf(what)) # {} => <<m, ListOf(what)>> \in excuse'.unlisted
           /\ \A n, p : p # m => (<<n, p>> \in excuse.untold => <<n, p>> \in excuse'.untold)
           /\ what = "script" => excuse'.untold = excuse.untold
           /\ what # "script" /\ Publishing(m) => \A n \in Nodes \ {m} : <<n, m>> \in excuse'.untold
           /\ what # "script" /\ ~Publishing(m) /\ table[m][m].name = "piped" =>
                 excuse'.untold = excuse.untold
<1>1. excuse \in Excuses
  BY DEF IInv, TypeOK
<1>2. excuse' = [excuse EXCEPT
          !.unlisted = @ \cup (IF Entering(m, ListOf(what)) = {} THEN {} ELSE {<<m, ListOf(what)>>}),
          !.untold   = IF what # "script" /\ Publishing(m) THEN @ \cup About(m)
                       ELSE IF what # "script" /\ CanTell(m) THEN @ \ About(m) ELSE @]
  BY DEF Start
<1>3. /\ excuse'.lost = excuse.lost
      /\ excuse'.unlisted = excuse.unlisted \cup
            (IF Entering(m, ListOf(what)) = {} THEN {} ELSE {<<m, ListOf(what)>>})
      /\ excuse'.untold = IF what # "script" /\ Publishing(m) THEN excuse.untold \cup About(m)
                          ELSE IF what # "script" /\ CanTell(m) THEN excuse.untold \ About(m)
                          ELSE excuse.untold
  BY <1>1, <1>2 DEF Excuses
<1> QED BY <1>3 DEF About, CanTell

\* A task starts.  If it is a command and no other is under way, everybody
\* will be told.
LEMMA StartLInv ==
    ASSUME LInv, QInv', NEW t \in Tasks,
           \/ CreateSession(t)
           \/ \E what \in {"models", "script"}, models \in SUBSET ModelFiles : Flush(t, what, models)
    PROVE  LInv'
<1>0. IInv
  BY DEF LInv, QInv
<1>1. PICK m \in Nodes : m = Owner[t]
  BY EndsType
<1>2. PICK what \in {"sessions", "models", "script"} :
          /\ Start(t, what)
          /\ \A p \in Nodes \ {m} : held'[p] = held[p]
          /\ what = "sessions" => held'[m].models = held[m].models /\ held'[m].sessions > 0
          /\ what # "sessions" => held'[m].sessions = held[m].sessions
  <2>0. held \in [Nodes -> [models : SUBSET ModelFiles, sessions : 0..MaxSessions]] /\ MaxSessions \in Nat
    BY <1>0, Parts, PeerConstants
  <2>1. CASE CreateSession(t)
    <3>1. Start(t, "sessions") /\ held' = [held EXCEPT ![m].sessions = @ + 1]
      BY <1>1, <2>1 DEF CreateSession
    <3>2. held'[m].models = held[m].models /\ held'[m].sessions > 0
      BY <2>0, <3>1
    <3> QED BY <3>1, <3>2
  <2>2. ASSUME NEW w \in {"models", "script"}, NEW models \in SUBSET ModelFiles, Flush(t, w, models)
        PROVE  /\ Start(t, w)
               /\ \A p \in Nodes \ {m} : held'[p] = held[p]
               /\ held'[m].sessions = held[m].sessions
    <3>1. Start(t, w) /\ held' = [held EXCEPT ![m].models = models]
      BY <1>1, <2>2 DEF Flush
    <3> QED BY <2>0, <3>1
  <2> QED BY <2>1, <2>2
<1>3. /\ task[t].pc = "Idle" /\ task'[t].pc = "List" /\ task'[t].what = what
      /\ TaskOnly(t) /\ UNCHANGED <<table, open, events>>
  BY <1>0, <1>2, CommandEffect
<1>4. /\ excuse'.lost = excuse.lost
      /\ excuse.unlisted \subseteq excuse'.unlisted
      /\ Entering(m, ListOf(what)) # {} => <<m, ListOf(what)>> \in excuse'.unlisted
      /\ \A n, p : p # m => (<<n, p>> \in excuse.untold => <<n, p>> \in excuse'.untold)
      /\ what = "script" => excuse'.untold = excuse.untold
      /\ what # "script" /\ Publishing(m) => \A n \in Nodes \ {m} : <<n, m>> \in excuse'.untold
      /\ what # "script" /\ ~Publishing(m) /\ table[m][m].name = "piped" =>
            excuse'.untold = excuse.untold
  BY <1>0, <1>1, <1>2, StartExcuses
<1>5. TaskShape(m) /\ OwnCurrent(m) /\ \A n \in Nodes \ {m} : Pair(n, m)
  BY DEF LInv
<1>6. TaskShape(m)'
  <2>2. ASSUME NEW u \in Tasks, Owner[u] = m
        PROVE  /\ task'[u].what = "script" => task'[u].pc \in {"List", "Update"}
               /\ task'[u].what = "sessions" /\ task'[u].pc = "List" => held'[m].sessions > 0
               /\ task'[u].what = "sessions" /\ task'[u].pc = "Update" => task'[u].value.sessions > 0
               /\ task'[u].pc \in Telling /\ table'[m][m].sessions = 0 => task'[u].value.sessions = 0
    <3>1. CASE u = t
      BY <1>2, <1>3, <3>1 DEF Telling
    <3>2. CASE u # t
      BY <1>2, <1>3, <1>5, <2>2, <3>2 DEF TaskShape, TaskOnly
    <3> QED BY <3>1, <3>2
  <2> QED BY <2>2 DEF TaskShape
<1>7. OwnCurrent(m)'
  <2>1. ASSUME NEW list, list # ListOf(what), NEW u
        PROVE  /\ u \in Entering(m, list)' <=> u \in Entering(m, list)
               /\ u \in Entering(m, list) => task'[u] = task[u]
    BY <1>3, <2>1, EnteringTasks DEF TaskOnly
  <2>2. ASSUME Entering(m, ListOf(what)) = {}, NEW u
        PROVE  u \in Entering(m, ListOf(what))' <=> u = t
    BY <1>1, <1>3, <2>2, EnteringTasks DEF TaskOnly
  <2>3. ASSUME <<m, "models">> \notin excuse'.unlisted PROVE OwnModels(m)'
    <3>1. CASE ListOf(what) = "models"
      <4>1. Entering(m, "models") = {}
        BY <1>4, <2>3, <3>1
      <4>2. \A u : u \in Entering(m, "models")' <=> u = t
        BY <2>2, <3>1, <4>1
      <4> QED BY <1>3, <4>2 DEF OwnModels
    <3>2. CASE ListOf(what) # "models"
      <4>1. OwnModels(m) /\ held'[m].models = held[m].models
        BY <1>2, <1>4, <1>5, <2>3, <3>2 DEF OwnCurrent, ListOf
      <4>2. \A u : u \in Entering(m, "models")' <=> u \in Entering(m, "models")
        BY <2>1, <3>2
      <4>3. \A u \in Entering(m, "models") : task'[u] = task[u]
        BY <2>1, <3>2
      <4> QED BY <1>3, <4>1, <4>2, <4>3 DEF OwnModels
    <3> QED BY <3>1, <3>2
  <2>4. ASSUME <<m, "sessions">> \notin excuse'.unlisted PROVE OwnSessions(m)'
    <3>1. CASE ListOf(what) = "sessions"
      <4>1. Entering(m, "sessions") = {}
        BY <1>4, <2>4, <3>1
      <4>2. \A u : u \in Entering(m, "sessions")' <=> u = t
        BY <2>2, <3>1, <4>1
      <4> QED BY <1>3, <4>2 DEF OwnSessions
    <3>2. CASE ListOf(what) # "sessions"
      <4>1. OwnSessions(m) /\ held'[m].sessions = held[m].sessions
        BY <1>2, <1>4, <1>5, <2>4, <3>2 DEF OwnCurrent, ListOf
      <4>2. \A u : u \in Entering(m, "sessions")' <=> u \in Entering(m, "sessions")
        BY <2>1, <3>2
      <4>3. \A u \in Entering(m, "sessions") : task'[u] = task[u]
        BY <2>1, <3>2
      <4> QED BY <1>3, <4>1, <4>2, <4>3 DEF OwnSessions
    <3> QED BY <3>1, <3>2
  <2> QED BY <2>3, <2>4 DEF OwnCurrent
<1>8. ASSUME NEW n \in Nodes \ {m}, <<n, m>> \notin excuse'.untold
      PROVE  /\ Faithful(m)'
             /\ Linked(n, m) /\ <<n, m>> \notin excuse.lost => Informed(n, m)'
  <2>0. Pair(n, m)
    BY <1>5
  <2>1. CASE what = "script"
    <3>1. <<n, m>> \notin excuse.untold
      BY <1>4, <1>8, <2>1
    <3>2. Faithful(m) /\ (Linked(n, m) /\ <<n, m>> \notin excuse.lost => Informed(n, m))
      BY <2>0, <3>1 DEF Pair, Excused
    <3>3. ~Publishes(t) /\ ~Publishes(t)' /\ task'[t].pc \notin Telling
      BY <1>3, <2>1 DEF Publishes, Telling
    <3>4. Faithful(m)'
      BY <1>1, <1>3, <3>2, <3>3, SilentFaithful
    <3>5. Informed(n, m) => Informed(n, m)'
      BY <1>1, <1>3, <3>3, SilentStep
    <3> QED BY <3>2, <3>4, <3>5
  <2>2. CASE what # "script"
    <3>1. ~Publishing(m)
      BY <1>4, <1>8, <2>2
    <3>2. table[m][m].name # "piped"
      <4>1. ASSUME table[m][m].name = "piped" PROVE FALSE
        <5>1. Faithful(m)
          BY <1>4, <1>8, <2>0, <2>2, <3>1, <4>1 DEF Pair
        <5> QED BY <4>1, <5>1 DEF Faithful
      <4> QED BY <4>1
    <3>3. \A u \in Tasks : Owner[u] = m /\ u # t => ~Publishes(u)' /\ task'[u].pc \notin Telling
      BY <1>3, <1>5, <3>1 DEF TaskShape, Publishing, Publishes, Telling, TaskOnly
    <3>4. Faithful(m)'
      BY <1>1, <1>3, <3>2, <3>3 DEF Faithful, Sole, Telling
    <3>5. Informed(n, m)'
      BY <1>1, <1>3, <2>2, GatheringTells DEF Gathering
    <3> QED BY <3>4, <3>5
  <2> QED BY <2>1, <2>2
<1>9. OnlyEntry(m, m)
  BY <1>3 DEF OnlyEntry
<1> QED BY <1>1, <1>2, <1>3, <1>4, <1>6, <1>7, <1>8, <1>9, CommandStep

\* Only one command of m is under way before a step of t: it is t.
LEMMA SoleStep ==
    ASSUME NEW t \in Tasks, NEW m \in Nodes, m = Owner[t], Sole(m), TaskOnly(t), Publishes(t), TaskShape(m)
    PROVE  /\ Sole(m)'
           /\ \A u \in Tasks : Owner[u] = m /\ u # t =>
                 /\ ~Publishes(u) /\ task'[u] = task[u]
                 /\ task[u].pc \notin Telling
<1>1. \A u \in Tasks : Owner[u] = m /\ u # t => ~Publishes(u) /\ task'[u] = task[u]
  BY DEF Sole, TaskOnly
<1>2. \A u \in Tasks : Owner[u] = m /\ u # t => task[u].pc \notin Telling
  BY <1>1 DEF TaskShape, Publishes, Telling
<1>3. \A u \in Tasks : Owner[u] = m /\ u # t => ~Publishes(u)'
  BY <1>1 DEF Publishes
<1> QED BY <1>1, <1>2, <1>3 DEF Sole

\* A task lists what the node holds.
LEMMA ListLInv ==
    ASSUME LInv, QInv', NEW t \in Tasks, ListHeld(t)
    PROVE  LInv'
<1>0. IInv
  BY DEF LInv, QInv
<1>1. PICK m \in Nodes : m = Owner[t]
  BY EndsType
<1>2. /\ task[t].pc = "List" /\ task'[t].pc = "Update" /\ task'[t].what = task[t].what
      /\ task'[t].value.models = held[m].models
      /\ task'[t].value.sessions = held[m].sessions
      /\ TaskOnly(t) /\ UNCHANGED <<table, open, events, held>>
  BY <1>0, <1>1, CommandEffect
<1> DEFINE own == ListOf(task[t].what)
<1>3. /\ excuse'.untold = excuse.untold /\ excuse'.lost = excuse.lost
      /\ \A p, list : <<p, list>> \in excuse.unlisted =>
            \/ <<p, list>> \in excuse'.unlisted
            \/ p = m /\ list = own /\ Entering(m, own) = {t}
  <2>1. excuse \in Excuses
    BY <1>0 DEF IInv, TypeOK
  <2>2. excuse' = IF Entering(m, own) = {t} THEN [excuse EXCEPT !.unlisted = @ \ {<<m, own>>}] ELSE excuse
    BY <1>1 DEF ListHeld
  <2> QED BY <2>1, <2>2 DEF Excuses
<1>4. TaskShape(m) /\ OwnCurrent(m) /\ \A n \in Nodes \ {m} : Pair(n, m)
  BY DEF LInv
<1>5. TaskShape(m)'
  BY <1>1, <1>2, <1>4 DEF TaskShape, TaskOnly, Telling
<1>6. OwnCurrent(m)'
  <2>1. ASSUME NEW list, NEW u
        PROVE  /\ u \in Entering(m, list)' <=> u \in Entering(m, list)
               /\ u # t /\ u \in Entering(m, list) => task'[u] = task[u]
    BY <1>2, EnteringTasks DEF TaskOnly
  <2>2. t \in Entering(m, own)
    BY <1>1, <1>2, EnteringTasks
  <2>3. \A list : t \in Entering(m, list) => list = own
    BY EnteringTasks
  <2> HIDE DEF own
  <2>4. ASSUME <<m, "models">> \notin excuse'.unlisted PROVE OwnModels(m)'
    <3>1. CASE <<m, "models">> \notin excuse.unlisted
      <4>1. OwnModels(m)
        BY <1>4, <3>1 DEF OwnCurrent
      <4> QED BY <1>2, <2>1, <4>1 DEF OwnModels
    <3>2. CASE <<m, "models">> \in excuse.unlisted
      <4>1. Entering(m, "models") = {t}
        BY <1>3, <2>4, <3>2
      <4> QED BY <1>2, <2>1, <4>1 DEF OwnModels
    <3> QED BY <3>1, <3>2
  <2>5. ASSUME <<m, "sessions">> \notin excuse'.unlisted PROVE OwnSessions(m)'
    <3>1. CASE <<m, "sessions">> \notin excuse.unlisted
      <4>1. OwnSessions(m)
        BY <1>4, <3>1 DEF OwnCurrent
      <4> QED BY <1>2, <2>1, <4>1 DEF OwnSessions
    <3>2. CASE <<m, "sessions">> \in excuse.unlisted
      <4>1. Entering(m, "sessions") = {t}
        BY <1>3, <2>5, <3>2
      <4> QED BY <1>2, <2>1, <4>1 DEF OwnSessions
    <3> QED BY <3>1, <3>2
  <2> QED BY <2>4, <2>5 DEF OwnCurrent
<1>7. ASSUME NEW n \in Nodes \ {m}, <<n, m>> \notin excuse'.untold
      PROVE  /\ Faithful(m)'
             /\ Linked(n, m) /\ <<n, m>> \notin excuse.lost => Informed(n, m)'
  <2>1. Faithful(m) /\ (Linked(n, m) /\ <<n, m>> \notin excuse.lost => Informed(n, m))
    BY <1>3, <1>4, <1>7 DEF Pair, Excused
  <2>2. CASE task[t].what = "script"
    <3>1. ~Publishes(t) /\ ~Publishes(t)' /\ task'[t].pc \notin Telling
      BY <1>2, <2>2 DEF Publishes, Telling
    <3>2. Faithful(m)'
      BY <1>1, <1>2, <2>1, <3>1, SilentFaithful
    <3>3. Informed(n, m) => Informed(n, m)'
      BY <1>1, <1>2, <3>1, SilentStep
    <3> QED BY <2>1, <3>2, <3>3
  <2>3. CASE task[t].what # "script"
    <3>1. Publishes(t)
      BY <1>2, <2>3 DEF Publishes
    <3>2. /\ Sole(m)'
          /\ \A u \in Tasks : Owner[u] = m /\ u # t => task'[u] = task[u] /\ task[u].pc \notin Telling
      BY <1>1, <1>2, <1>4, <2>1, <3>1, SoleStep DEF Faithful
    <3>3. Faithful(m)'
      BY <1>1, <1>2, <2>1, <3>2 DEF Faithful, Telling
    <3> QED BY <1>1, <1>2, <2>3, <3>3, GatheringTells DEF Gathering
  <2> QED BY <2>2, <2>3
<1>8. OnlyEntry(m, m)
  BY <1>2 DEF OnlyEntry
<1> HIDE DEF own
<1> QED BY <1>1, <1>2, <1>3, <1>5, <1>6, <1>7, <1>8, CommandStep

\* A task enters what it listed in the local entry.
LEMMA UpdateLInv ==
    ASSUME LInv, QInv', NEW t \in Tasks, UpdateLocal(t)
    PROVE  LInv'
<1>0. IInv
  BY DEF LInv, QInv
<1>1. PICK m \in Nodes : m = Owner[t]
  BY EndsType
<1>2. /\ task[t].pc = "Update"
      /\ task[t].what # "script" => /\ task'[t].pc = "Read" /\ task'[t].what = task[t].what
                                    /\ UNCHANGED excuse
      /\ task[t].what = "script" =>
            /\ task'[t].pc = "Idle" /\ task'[t].what = "none"
            /\ \/ task[t].value.models = table[m][m].models /\ UNCHANGED excuse
               \/ excuse' = [excuse EXCEPT !.untold = @ \cup About(m)]
      /\ OnlyEntry(m, m)
      /\ table'[m][m].name = table[m][m].name
      /\ task[t].what = "sessions" => /\ table'[m][m].sessions = task[t].value.sessions
                                      /\ table'[m][m].models = table[m][m].models
      /\ task[t].what # "sessions" => /\ table'[m][m].models = task[t].value.models
                                      /\ table'[m][m].sessions = table[m][m].sessions
      /\ TaskOnly(t) /\ UNCHANGED <<open, events, held>>
  BY <1>0, <1>1, UpdateEffect
<1>3. /\ excuse'.unlisted = excuse.unlisted /\ excuse'.lost = excuse.lost
      /\ excuse.untold \subseteq excuse'.untold
  BY <1>0, <1>2, UntoldGrows DEF ExcusesGrow
<1>4. TaskShape(m) /\ OwnCurrent(m) /\ \A n \in Nodes \ {m} : Pair(n, m)
  BY DEF LInv
<1>5. table'[m][m].sessions = 0 => table[m][m].sessions = 0
  <2>1. task[t].what = "sessions" => task[t].value.sessions > 0
    BY <1>1, <1>2, <1>4 DEF TaskShape
  <2> QED BY <1>2, <2>1
<1>6. TaskShape(m)'
  <2>1. ASSUME NEW u \in Tasks, Owner[u] = m
        PROVE  /\ task'[u].what = "script" => task'[u].pc \in {"List", "Update"}
               /\ task'[u].what = "sessions" /\ task'[u].pc = "List" => held'[m].sessions > 0
               /\ task'[u].what = "sessions" /\ task'[u].pc = "Update" => task'[u].value.sessions > 0
               /\ task'[u].pc \in Telling /\ table'[m][m].sessions = 0 => task'[u].value.sessions = 0
    <3>1. CASE u = t
      BY <1>2, <3>1 DEF Telling
    <3>2. CASE u # t
      BY <1>2, <1>4, <1>5, <2>1, <3>2 DEF TaskShape, TaskOnly
    <3> QED BY <3>1, <3>2
  <2> QED BY <2>1 DEF TaskShape
<1>7. OwnCurrent(m)'
  <2>0. task'[t].pc \notin {"List", "Update"}
    BY <1>2
  <2>1. ASSUME NEW list, NEW u
        PROVE  /\ u \in Entering(m, list)' <=> u \in Entering(m, list) /\ u # t
               /\ u # t /\ u \in Entering(m, list) => task'[u] = task[u]
    BY <1>2, <2>0, EnteringTasks DEF TaskOnly
  <2>2. t \in Entering(m, ListOf(task[t].what))
    BY <1>1, <1>2, EnteringTasks
  <2>3. ASSUME <<m, "models">> \notin excuse'.unlisted PROVE OwnModels(m)'
    <3>0. OwnModels(m)
      BY <1>3, <1>4, <2>3 DEF OwnCurrent
    <3>1. CASE task[t].what = "sessions"
      <4>1. t \notin Entering(m, "models")
        BY <3>1, EnteringTasks DEF ListOf
      <4> QED BY <1>2, <2>1, <3>0, <3>1, <4>1 DEF OwnModels
    <3>2. CASE task[t].what # "sessions"
      <4>1. t \in Entering(m, "models")
        BY <2>2, <3>2 DEF ListOf
      <4>2. table'[m][m].models = held'[m].models
        BY <1>2, <3>0, <3>2, <4>1 DEF OwnModels
      <4>3. \A u : u \notin Entering(m, "models")'
        BY <2>1, <3>0, <4>1 DEF OwnModels
      <4> QED BY <4>2, <4>3 DEF OwnModels
    <3> QED BY <3>1, <3>2
  <2>4. ASSUME <<m, "sessions">> \notin excuse'.unlisted PROVE OwnSessions(m)'
    <3>0. OwnSessions(m)
      BY <1>3, <1>4, <2>4 DEF OwnCurrent
    <3>1. CASE task[t].what # "sessions"
      <4>1. t \notin Entering(m, "sessions")
        BY <3>1, EnteringTasks DEF ListOf
      <4> QED BY <1>2, <2>1, <3>0, <3>1, <4>1 DEF OwnSessions
    <3>2. CASE task[t].what = "sessions"
      <4>1. t \in Entering(m, "sessions")
        BY <2>2, <3>2 DEF ListOf
      <4>2. table'[m][m].sessions = held'[m].sessions
        BY <1>2, <3>0, <3>2, <4>1 DEF OwnSessions
      <4>3. \A u : u \notin Entering(m, "sessions")'
        BY <2>1, <3>0, <4>1 DEF OwnSessions
      <4> QED BY <4>2, <4>3 DEF OwnSessions
    <3> QED BY <3>1, <3>2
  <2> QED BY <2>3, <2>4 DEF OwnCurrent
<1>8. ASSUME NEW n \in Nodes \ {m}, <<n, m>> \notin excuse'.untold
      PROVE  /\ Faithful(m)'
             /\ Linked(n, m) /\ <<n, m>> \notin excuse.lost => Informed(n, m)'
  <2>1. Faithful(m) /\ (Linked(n, m) /\ <<n, m>> \notin excuse.lost => Informed(n, m))
    BY <1>3, <1>4, <1>8 DEF Pair, Excused
  <2>2. CASE task[t].what = "script"
    <3>1. ~Publishes(t) /\ ~Publishes(t)' /\ task'[t].pc \notin Telling
      BY <1>2, <2>2 DEF Publishes, Telling
    <3>2. table'[m][m].models = table[m][m].models /\ table'[m][m].sessions = table[m][m].sessions
      BY <1>0, <1>2, <1>8, <2>2, UntoldGrows
    <3>3. Faithful(m)'
      BY <1>1, <1>2, <2>1, <3>1, <3>2, SilentFaithful
    <3>4. table'[n][m] = table[n][m]
      BY <1>2 DEF OnlyEntry
    <3>5. Informed(n, m) => Informed(n, m)'
      BY <1>1, <1>2, <3>1, <3>2, <3>4, SilentStep
    <3> QED BY <2>1, <3>3, <3>5
  <2>3. CASE task[t].what # "script"
    <3>1. Publishes(t)
      BY <1>2, <2>3 DEF Publishes
    <3>2. /\ Sole(m)'
          /\ \A u \in Tasks : Owner[u] = m /\ u # t => task'[u] = task[u] /\ task[u].pc \notin Telling
      BY <1>1, <1>2, <1>4, <2>1, <3>1, SoleStep DEF Faithful
    <3>3. Faithful(m)'
      <4>1. \A u \in Tasks : Owner[u] = m => task'[u].pc \notin Telling
        BY <1>2, <2>3, <3>2 DEF Telling
      <4>2. table'[m][m].name # "piped"
        BY <1>2, <2>1 DEF Faithful
      <4> QED BY <3>2, <4>1, <4>2 DEF Faithful
    <3> QED BY <1>1, <1>2, <2>3, <3>3, GatheringTells DEF Gathering
  <2> QED BY <2>2, <2>3
<1> QED BY <1>1, <1>2, <1>3, <1>5, <1>6, <1>7, <1>8, CommandStep

\* A command reads the local entry, or the peers, or is done.
LEMMA ReadLInv ==
    ASSUME LInv, QInv', NEW t \in Tasks, ReadLocal(t) \/ ReadPeers(t) \/ BroadcastDone(t)
    PROVE  LInv'
<1>0. IInv
  BY DEF LInv, QInv
<1>1. PICK m \in Nodes : m = Owner[t]
  BY EndsType
<1>2. /\ task[t].pc \in {"Read", "Peers", "Send"} /\ task'[t].pc \in {"Peers", "Send", "Idle"}
      /\ task'[t].what \in {task[t].what, "none"}
      /\ task'[t].pc \in Telling =>
            \/ /\ task'[t].value.name = table[m][m].name
               /\ task'[t].value.models = table[m][m].models
               /\ task'[t].value.sessions = table[m][m].sessions
            \/ task'[t].value = task[t].value /\ task[t].pc \in Telling
      /\ TaskOnly(t) /\ UNCHANGED <<table, open, events, held, excuse>>
  BY <1>0, <1>1, CommandEffect DEF Telling
<1>3. TaskShape(m) /\ OwnCurrent(m) /\ \A n \in Nodes \ {m} : Pair(n, m)
  BY DEF LInv
<1>a. task[t].what # "script" /\ Publishes(t)
  BY <1>1, <1>2, <1>3 DEF TaskShape, Publishes
<1>4. TaskShape(m)'
  <2>1. ASSUME NEW u \in Tasks, Owner[u] = m
        PROVE  /\ task'[u].what = "script" => task'[u].pc \in {"List", "Update"}
               /\ task'[u].what = "sessions" /\ task'[u].pc = "List" => held'[m].sessions > 0
               /\ task'[u].what = "sessions" /\ task'[u].pc = "Update" => task'[u].value.sessions > 0
               /\ task'[u].pc \in Telling /\ table'[m][m].sessions = 0 => task'[u].value.sessions = 0
    <3>1. CASE u = t
      BY <1>1, <1>2, <1>3, <1>a, <3>1 DEF TaskShape
    <3>2. CASE u # t
      BY <1>2, <1>3, <2>1, <3>2 DEF TaskShape, TaskOnly
    <3> QED BY <3>1, <3>2
  <2> QED BY <2>1 DEF TaskShape
<1>b. OwnCurrent(m)'
  <2>1. \A u \in Tasks \ {t} : TaskSame(u)
    BY <1>2 DEF TaskOnly, TaskSame
  <2>2. task[t].pc \notin {"List", "Update"} /\ task'[t].pc \notin {"List", "Update"}
    BY <1>2
  <2> QED BY <1>2, <1>3, <2>1, <2>2, OwnKept
<1>5. ASSUME NEW n \in Nodes \ {m}, <<n, m>> \notin excuse'.untold
      PROVE  /\ Faithful(m)'
             /\ Linked(n, m) /\ <<n, m>> \notin excuse.lost => Informed(n, m)'
  <2>1. Faithful(m) /\ Sole(m)
    BY <1>2, <1>3, <1>5 DEF Pair, Faithful
  <2>2. /\ Sole(m)'
        /\ \A u \in Tasks : Owner[u] = m /\ u # t =>
              ~Publishes(u) /\ task'[u] = task[u] /\ task[u].pc \notin Telling
    BY <1>1, <1>2, <1>3, <1>a, <2>1, SoleStep
  <2>3. Faithful(m)'
    BY <1>1, <1>2, <2>1, <2>2 DEF Faithful
  <2>4. ASSUME Linked(n, m), <<n, m>> \notin excuse.lost PROVE Informed(n, m)'
    <3>1. Informed(n, m) /\ Pair(m, n) /\ Linked(m, n)
      BY <1>0, <1>2, <1>5, <2>4, Parts DEF LInv, Pair, Excused
    <3>2. Known(m, n)
      <4>1. ~(Both(m, n) \subseteq excuse.lost)
        BY <2>4 DEF Both
      <4> QED BY <3>1, <4>1 DEF Pair
    <3>3. CASE ReadLocal(t)
      <4>1. task'[t].pc = "Peers" /\ task'[t].what # "script"
        BY <1>0, <1>a, <3>3, CommandEffect
      <4> QED BY <1>1, <4>1, GatheringTells DEF Gathering
    <3>4. CASE ReadPeers(t)
      <4>1. /\ task'[t].pc = "Send" /\ task'[t].what # "script"
            /\ task'[t].todo = {p \in Nodes \ {m} : table[m][p] # None}
        BY <1>0, <1>1, <1>a, <3>4, CommandEffect
      <4>2. CASE table[m][n] # None
        <5>1. n \in task'[t].todo
          BY <4>1, <4>2
        <5> QED BY <1>1, <4>1, <5>1 DEF Informed, ToTell
      <4>3. CASE UpQueued(events[m], n)
        BY <1>2, <4>3 DEF Informed
      <4> QED BY <3>2, <4>2, <4>3 DEF Known
    <3>5. CASE BroadcastDone(t)
      <4>1. task[t].pc = "Send" /\ task[t].todo = {}
        BY <1>0, <3>5, CommandEffect
      <4>2. ~\E u \in Tasks : Owner[u] = m /\ ToTell(u, n)
        BY <2>2, <4>1 DEF Gathering, ToTell, Publishes
      <4> QED BY <1>2, <3>1, <4>2 DEF Informed, HasLists
    <3> QED BY <3>3, <3>4, <3>5
  <2> QED BY <2>3, <2>4
<1>6. OnlyEntry(m, m)
  BY <1>2 DEF OnlyEntry
<1> QED BY <1>1, <1>2, <1>4, <1>b, <1>5, <1>6, CommandStep

\* A command sends its Info to a peer, or finds that it is not connected.
LEMMA SendLInv ==
    ASSUME LInv, QInv', NEW t \in Tasks, NEW k \in Nodes, SendInfo(t, k)
    PROVE  LInv'
<1>0. IInv
  BY DEF LInv, QInv
<1>1. PICK m \in Nodes : m = Owner[t]
  BY EndsType
<1>2. /\ task[t].pc = "Send" /\ k \in task[t].todo
      /\ task'[t].value = task[t].value /\ task'[t].what = task[t].what
      /\ task'[t].todo = task[t].todo \ {k} /\ task'[t].pc \in {"Send", "Await"}
      /\ TaskOnly(t) /\ UNCHANGED <<table, open, held, excuse>>
  BY <1>0, <1>1, SendEffect
<1>a. TaskShape(m) /\ OwnCurrent(m) /\ \A n \in Nodes \ {m} : Pair(n, m)
  BY DEF LInv
<1>b. Publishes(t) /\ task[t].what # "script"
  BY <1>1, <1>2, <1>a DEF TaskShape, Publishes
<1>3. TaskShape(m)'
  <2>1. ASSUME NEW u \in Tasks, Owner[u] = m
        PROVE  /\ task'[u].what = "script" => task'[u].pc \in {"List", "Update"}
               /\ task'[u].what = "sessions" /\ task'[u].pc = "List" => held'[m].sessions > 0
               /\ task'[u].what = "sessions" /\ task'[u].pc = "Update" => task'[u].value.sessions > 0
               /\ task'[u].pc \in Telling /\ table'[m][m].sessions = 0 => task'[u].value.sessions = 0
    <3>1. CASE u = t
      BY <1>1, <1>2, <1>a, <1>b, <3>1 DEF TaskShape, Telling
    <3>2. CASE u # t
      BY <1>2, <1>a, <2>1, <3>2 DEF TaskShape, TaskOnly
    <3> QED BY <3>1, <3>2
  <2> QED BY <2>1 DEF TaskShape
<1>4. OwnCurrent(m)'
  <2>1. \A u \in Tasks \ {t} : TaskSame(u)
    BY <1>2 DEF TaskOnly, TaskSame
  <2>2. task[t].pc \notin {"List", "Update"} /\ task'[t].pc \notin {"List", "Update"}
    BY <1>2
  <2> QED BY <1>2, <1>a, <2>1, <2>2, OwnKept
<1>5. ASSUME Faithful(m)
      PROVE  /\ Faithful(m)'
             /\ task[t].value.name # "piped"
             /\ task[t].value.models = table[m][m].models
             /\ task[t].value.sessions = table[m][m].sessions
  <2>1. /\ Sole(m)'
        /\ \A u \in Tasks : Owner[u] = m /\ u # t => task'[u] = task[u]
    BY <1>1, <1>2, <1>5, <1>a, <1>b, SoleStep DEF Faithful
  <2> QED BY <1>1, <1>2, <1>5, <2>1 DEF Faithful, Telling
<1>6. ASSUME NEW n \in Nodes \ {m}, n # k, Informed(n, m),
             Keeps(events[n], events'[n], m), UpQueued(events[m], n) => UpQueued(events'[m], n)
      PROVE  Informed(n, m)'
  <2>1. ASSUME NEW u \in Tasks, ToTell(u, n) PROVE ToTell(u, n)'
    <3>1. CASE u = t
      BY <1>2, <1>6, <1>b, <2>1, <3>1 DEF ToTell, Gathering
    <3>2. CASE u # t
      BY <1>2, <2>1, <3>2 DEF TaskOnly, ToTell
    <3> QED BY <3>1, <3>2
  <2> QED BY <1>2, <1>6, <2>1, InformedKept
<1>7. CASE ~Linked(m, k)
  <2>1. UNCHANGED events
    BY <1>0, <1>1, <1>7, SendEffect
  <2>2. ASSUME NEW n \in Nodes \ {m}, <<n, m>> \notin excuse'.untold
        PROVE  /\ Faithful(m)'
               /\ Linked(n, m) /\ <<n, m>> \notin excuse.lost => Informed(n, m)'
    <3>1. Faithful(m) /\ (Linked(n, m) /\ <<n, m>> \notin excuse.lost => Informed(n, m))
      BY <1>2, <1>a, <2>2 DEF Pair, Excused
    <3>2. Linked(n, m) => n # k
      BY <1>0, <1>7, Parts
    <3>3. Keeps(events[n], events'[n], m)
      BY <2>1, KeepsSame
    <3> QED BY <1>5, <1>6, <2>1, <3>1, <3>2, <3>3
  <2>3. OnlyEntry(m, m)
    BY <1>2 DEF OnlyEntry
  <2> QED BY <1>1, <1>2, <1>3, <1>4, <2>1, <2>2, <2>3, CommandStep
<1>8. CASE Linked(m, k)
  <2>a. m # k
    BY <1>0, <1>8, Parts
  <2>1. PICK e \in Events : e = InfoEvent(m, task[t].value, t)
    BY <1>0, <1>1, <1>8, SendEffect
  <2>2. /\ events'[k] = Append(events[k], e)
        /\ \A p \in Nodes \ {k} : events'[p] = events[p]
    BY <1>0, <1>1, <1>8, <2>1, SendEffect
  <2>3. e.peer = m /\ e.kind = "info" /\ e.info = task[t].value
    BY <2>1 DEF InfoEvent
  <2>4. PICK r : r = Append(events[k], e)
    OBVIOUS
  <2>5. events[k] \in Seq(Events)
    BY <1>0, Parts
  <2>6. /\ \A q : q # m => Keeps(events[k], r, q)
        /\ UpQueued(events[k], m) => UpQueued(r, m)
        /\ e.info.name # "piped" => LastInfo(r, m, e.info.models, e.info.sessions)
        /\ NoSessions(events[k], m) /\ e.info.sessions = 0 => NoSessions(r, m)
    BY <2>3, <2>4, <2>5, PushKeeps
  <2>7. \A p, q \in Nodes : Linked(p, q)' <=> Linked(p, q)
    BY <1>2, LinkedSame
  <2>8. ASSUME NEW p \in Nodes, NEW q \in Nodes
        PROVE  /\ <<p, q>> # <<k, m>> => Keeps(events[p], events'[p], q)
               /\ UpQueued(events[p], q) => UpQueued(events'[p], q)
    <3>1. CASE p # k
      <4>1. events'[p] = events[p]
        BY <2>2, <3>1
      <4> QED BY <4>1, KeepsSame
    <3>2. CASE p = k
      <4>1. q # m => Keeps(events[p], events'[p], q)
        BY <2>2, <2>4, <2>6, <3>2
      <4>2. q = m => (UpQueued(events[p], q) => UpQueued(events'[p], q))
        BY <2>2, <2>4, <2>6, <3>2
      <4> QED BY <3>2, <4>1, <4>2 DEF Keeps
    <3> QED BY <3>1, <3>2
  <2>9. ASSUME NEW p \in Nodes \ {m}, NEW n \in Nodes \ {p}
        PROVE  Pair(n, p)' /\ TaskShape(p)' /\ OwnCurrent(p)'
    <3>1. QuietAt(p)
      BY <1>1, <1>2 DEF QuietAt, TaskOnly, TaskSame
    <3>2. PairKept(n, p)
      BY <1>2, <2>7, <2>8 DEF PairKept
    <3> QED BY <1>2, <3>1, <3>2, QuietPair, QuietOwn DEF LInv
  <2>10. ASSUME NEW n \in Nodes \ {m}, n # k PROVE Pair(n, m)'
    <3>1. Pair(n, m) /\ Keeps(events[n], events'[n], m)
      BY <2>8, <2>10 DEF LInv
    <3>2. NoneHeard(n, m)'
      BY <1>2, <3>1 DEF Pair, NoneHeard, Keeps
    <3>3. <<n, m>> \notin excuse'.untold => Faithful(m)'
      BY <1>2, <1>5, <3>1 DEF Pair
    <3>4. Known(n, m) => Known(n, m)'
      BY <1>2, <3>1 DEF Known, Keeps
    <3>5. Informed(n, m) => Informed(n, m)'
      BY <1>6, <2>8, <2>10, <3>1
    <3> QED BY <1>2, <2>7, <3>1, <3>2, <3>3, <3>4, <3>5 DEF Pair, Excused
  <2>11. Pair(k, m)'
    <3>1. Pair(k, m)
      BY <2>a DEF LInv
    <3>2. events'[k] = r /\ table'[k][m] = table[k][m] /\ table'[m][m] = table[m][m]
      BY <1>2, <2>2, <2>4
    <3>3. NoneHeard(k, m)'
      <4>1. table[m][m].sessions = 0 => e.info.sessions = 0
        BY <1>1, <1>2, <1>a, <2>3 DEF TaskShape, Telling
      <4> QED BY <2>6, <3>1, <3>2, <4>1 DEF Pair, NoneHeard
    <3>4. ASSUME <<k, m>> \notin excuse'.untold PROVE Faithful(m)' /\ Informed(k, m)'
      <4>1. Faithful(m)
        BY <1>2, <3>1, <3>4 DEF Pair
      <4>2. /\ Faithful(m)'
            /\ e.info.name # "piped" /\ e.info.models = table[m][m].models
            /\ e.info.sessions = table[m][m].sessions
        BY <1>5, <2>3, <4>1
      <4>3. LastInfo(events'[k], m, table'[m][m].models, table'[m][m].sessions)
        BY <2>6, <3>2, <4>2
      <4>4. Informed(k, m)'
        BY <4>3 DEF Informed
      <4> QED BY <4>2, <4>4
    <3>5. Known(k, m) => Known(k, m)'
      BY <2>6, <3>2 DEF Known
    <3> QED BY <1>2, <2>7, <3>1, <3>3, <3>4, <3>5 DEF Pair, Excused
  <2>12. \A p \in Nodes \ {m} : TaskShape(p)' /\ OwnCurrent(p)'
    BY <2>9
  <2> QED BY <1>3, <1>4, <2>9, <2>10, <2>11, <2>12 DEF LInv
<1> QED BY <1>7, <1>8

(***************************************************************************)
(* The invariant, and what it says when nothing is under way.              *)
(***************************************************************************)
\* A node that has just started holds nothing and knows nobody.
LEMMA InitLInv == Init => LInv
<1> SUFFICES ASSUME Init PROVE LInv
  OBVIOUS
<1>1. PICK name \in [Nodes -> Names] :
          /\ \A n \in Nodes : name[n] \in NamesOf[n] \ {"piped"}
          /\ table = [n \in Nodes |->
                        [m \in Nodes |-> IF m = n THEN NewLocal(name[n]) ELSE None]]
  BY DEF Init
<1>2. /\ open = [l \in Links |-> FALSE]
      /\ events = [n \in Nodes |-> <<>>]
      /\ held = [n \in Nodes |-> [models |-> {}, sessions |-> 0]]
      /\ task = [t \in Tasks |-> NoTask]
  BY DEF Init
<1>3. ASSUME NEW n \in Nodes
      PROVE  events[n] = <<>> /\ DOMAIN events[n] = {}
  BY <1>2
<1>4. \A t \in Tasks : task[t].pc = "Idle"
  BY <1>2 DEF NoTask
<1>5. IInv
  BY InitIInv
<1>6. OthersOnly /\ Replies
  BY <1>3 DEF OthersOnly, Replies, QueuedFrom, Awaited
<1>7. ASSUME NEW m \in Nodes
      PROVE  /\ table[m][m].name # "piped"
             /\ table[m][m].models = held[m].models
             /\ table[m][m].sessions = held[m].sessions
  BY <1>1, <1>2, <1>7 DEF NewLocal, NewPeer
<1>8. ASSUME NEW m \in Nodes, NEW n \in Nodes \ {m} PROVE Pair(n, m)
  <2>1. table[n][m] = None
    BY <1>1
  <2>2. ~Linked(n, m)
    BY <1>2 DEF Linked, LinksOf
  <2>3. NoSessions(events[n], m)
    BY <1>3 DEF NoSessions
  <2>4. NoneHeard(n, m)
    BY <2>1, <2>3 DEF NoneHeard
  <2>5. Faithful(m)
    BY <1>4, <1>7 DEF Faithful, Sole, Publishes, Telling
  <2> QED BY <2>2, <2>4, <2>5 DEF Pair
<1>9. ASSUME NEW m \in Nodes PROVE TaskShape(m) /\ OwnCurrent(m)
  <2>1. \A t \in Tasks : task[t].what = "none"
    BY <1>2 DEF NoTask
  <2>2. \A list : Entering(m, list) = {}
    BY <1>4 DEF Entering
  <2> QED BY <1>4, <1>7, <2>1, <2>2 DEF TaskShape, OwnCurrent, OwnModels, OwnSessions, Telling
<1> QED BY <1>5, <1>6, <1>8, <1>9 DEF LInv, QInv

\* Every step preserves the invariant.
LEMMA NextLInv == LInv /\ [Next]_vars => LInv'
<1> SUFFICES ASSUME LInv, [Next]_vars PROVE LInv'
  OBVIOUS
<1>1. QInv'
  BY NextQInv DEF LInv
<1>2. CASE UNCHANGED vars
  <2>1. /\ \A m \in Nodes : TaskShape(m)' <=> TaskShape(m)
        /\ \A m \in Nodes : OwnCurrent(m)' <=> OwnCurrent(m)
    BY <1>2 DEF vars, TaskShape, OwnCurrent, OwnModels, OwnSessions, Entering
  <2>2. \A n, m \in Nodes : Pair(n, m)' <=> Pair(n, m)
    <3>1. \A n, m \in Nodes : NoneHeard(n, m)' <=> NoneHeard(n, m)
      BY <1>2 DEF vars, NoneHeard
    <3>2. \A m \in Nodes : Faithful(m)' <=> Faithful(m)
      BY <1>2 DEF vars, Faithful, Sole, Publishes
    <3>3. \A n, m \in Nodes : /\ Known(n, m)' <=> Known(n, m)
                              /\ Linked(n, m)' <=> Linked(n, m)
      BY <1>2 DEF vars, Known, Linked, LinksOf
    <3>4. \A n, m \in Nodes : Informed(n, m)' <=> Informed(n, m)
      BY <1>2 DEF vars, Informed, ToTell, HasLists
    <3>5. excuse' = excuse
      BY <1>2 DEF vars
    <3> QED BY <3>1, <3>2, <3>3, <3>4, <3>5 DEF Pair, Excused
  <2> QED BY <1>1, <1>2, <2>1, <2>2 DEF LInv, vars
<1>3. ASSUME NEW l \in Links, Open(l) \/ Close(l) PROVE LInv'
  BY <1>1, <1>3, OpenLInv, CloseLInv
<1>4. ASSUME NEW n \in Nodes, NodeStep(n) PROVE LInv'
  <2>1. CASE ConnectionEstablished(n) \/ ConnectionClosed(n) \/ InfoReceived(n)
    BY <1>1, <2>1, EstablishedLInv, ClosedLInv, InfoLInv
  <2>2. ASSUME NEW m \in Nodes, PingTimeout(n, m) \/ Disconnect(n, m) PROVE LInv'
    BY <1>1, <2>2, PingLInv, CloseLInv
  <2>3. ASSUME NEW name \in NamesOf[n], set_local_name(n, name) PROVE LInv'
    BY <1>1, <2>3, NameLInv
  <2>4. ASSUME NEW models \in SUBSET ModelFiles, ModelsChange(n, models) PROVE LInv'
    BY <1>1, <2>4, ModelsLInv
  <2>5. IInv
    BY DEF LInv, QInv
  <2> QED BY <1>4, <2>1, <2>2, <2>3, <2>4, <2>5, ModelsStep DEF NodeStep
<1>5. ASSUME NEW t \in Tasks, TaskStep(t) PROVE LInv'
  BY <1>1, <1>5, StartLInv, ListLInv, UpdateLInv, ReadLInv, SendLInv, FailsLInv DEF TaskStep
<1> QED BY <1>2, <1>3, <1>4, <1>5 DEF Next

\* When nothing is under way, what is known is current.
LEMMA LInvLists == LInv => ListsCurrent
<1> SUFFICES ASSUME LInv PROVE ListsCurrent
  OBVIOUS
<1>0. IInv
  BY DEF LInv, QInv
<1>1. ASSUME NEW m \in Nodes, ~Busy(m)
      PROVE  /\ <<m, "models">> \notin excuse.unlisted => table[m][m].models = held[m].models
             /\ <<m, "sessions">> \notin excuse.unlisted => table[m][m].sessions = held[m].sessions
  <2>1. \A list : Entering(m, list) = {}
    BY <1>1 DEF Busy, Entering
  <2>2. OwnCurrent(m)
    BY DEF LInv
  <2> QED BY <2>1, <2>2 DEF OwnCurrent, OwnModels, OwnSessions
<1>2. ASSUME NEW n \in Nodes, NEW m \in Nodes, Settled(n, m), ~Excused(n, m)
      PROVE  HasLists(n, m)
  <2>1. Linked(n, m) /\ ~Busy(m) /\ ~QueuedFrom(events[n], m) /\ ~UpQueued(events[m], n)
    BY <1>2 DEF Settled
  <2>2. n # m
    BY <1>0, <2>1, Parts
  <2>3. Informed(n, m)
    BY <1>2, <2>1, <2>2 DEF LInv, Pair
  <2>4. ~LastInfo(events[n], m, table[m][m].models, table[m][m].sessions)
    BY <2>1 DEF LastInfo, InfoAt, QueuedFrom
  <2>5. ~\E t \in Tasks : Owner[t] = m /\ ToTell(t, n)
    BY <2>1 DEF Busy, Gathering, ToTell
  <2> QED BY <2>1, <2>3, <2>4, <2>5 DEF Informed
<1> QED BY <1>1, <1>2 DEF ListsCurrent, HasLists

\* When nothing is under way between two connected nodes, each lists the
\* other with the models and sessions of the other's own entry, which are
\* those it has, however connections, handlers and commands interleaved; what
\* is excused is in the comment of ListsCurrent.
THEOREM ListsBecomeCurrent == Spec => []ListsCurrent
<1>1. Init => LInv
  BY InitLInv
<1>2. LInv /\ [Next]_vars => LInv'
  BY NextLInv
<1>3. LInv => ListsCurrent
  BY LInvLists
<1> QED BY <1>1, <1>2, <1>3, PTL DEF Spec

=============================================================================
