------------------------------ MODULE PeerTable ------------------------------
(***************************************************************************)
(* The peer tables of a set of nodes: PeerManager (Src/PeerManagement),    *)
(* the swarm events that fill it (Src/Network/swarm_events.rs) and the     *)
(* tasks that publish what a node has (Session and flush commands of       *)
(* Orchestrator/core/branch_user.rs, broadcast_local_info), or change it   *)
(* without telling anybody (a flush that fails, the storage functions of   *)
(* VM/capability_binding.rs).                                              *)
(*                                                                         *)
(* A node's network loop handles one swarm event at a time.  Only the loop *)
(* writes the entries of other peers, so a handler is one step; the tasks, *)
(* which write the local entry, interleave with it between their awaits.   *)
(* Two nodes may have several connections at once: both dial each other    *)
(* when mDNS discovers them.                                               *)
(***************************************************************************)
EXTENDS Integers, Sequences, FiniteSets

CONSTANTS Nodes,       \* peer ids
          Links,       \* connections that can exist
          Ends,        \* the two nodes of each connection
          Tasks,       \* in flight: commands (`session`, `flush`), flushes of scripts
          Owner,       \* the node each task runs on
          NamesOf,     \* the names the user of each node gives it
          ModelFiles,  \* models a node can have
          MaxSessions, \* bound on the sessions of a node
          MaxChanges,  \* bound on what users and the network do
          None

VARIABLES
    table,   \* PeerManager.peers of each node
    open,    \* the connections that are up
    events,  \* swarm events each node has still to handle, in order
    held,    \* what a node really has: indexed models, sessions of its manager
    task,    \* the commands and where they are
    excuse,  \* history: which entries the code itself leaves wrong (see below)
    changes  \* how many changes there have been

vars == <<table, open, events, held, task, excuse, changes>>

\* Names matter by whether they are empty and whether they contain the '|'
\* that separates the fields of an Info payload.
Names == {"", "plain", "piped"}
Infos == [name : Names, models : SUBSET ModelFiles, sessions : 0..MaxSessions]
Entries == [local : BOOLEAN, name : Names, models : SUBSET ModelFiles,
            sessions : 0..MaxSessions]

NoInfo == [name |-> "", models |-> {}, sessions |-> 0]

Events == [kind : {"up", "down", "info"}, peer : Nodes, info : Infos, reply : Tasks \cup {None}]

ASSUME PeerConstants ==
    /\ Ends \in [Links -> {p \in Nodes \X Nodes : p[1] # p[2]}]
    /\ IsFiniteSet(Links)
    /\ Owner \in [Tasks -> Nodes]
    /\ NamesOf \in [Nodes -> SUBSET {"", "plain", "piped"}]
    /\ MaxSessions \in Nat
    /\ MaxChanges \in Nat
    /\ None \notin Tasks \cup Entries

TaskPCs == {"Idle", "List", "Update", "Read", "Peers", "Send", "Await"}
TaskStates == [pc : TaskPCs, what : {"none", "sessions", "models", "script"}, value : Infos,
               todo : SUBSET Nodes, to : Nodes \cup {None}]
NoTask == [pc |-> "Idle", what |-> "none", value |-> NoInfo, todo |-> {}, to |-> None]

(***************************************************************************)
(* PeerManager: what each operation makes of an entry.                     *)
(***************************************************************************)
NewPeer == [local |-> FALSE, name |-> "", models |-> {}, sessions |-> 0]
NewLocal(name) == [NewPeer EXCEPT !.local = TRUE, !.name = name]

\* The models and the local flag of an old entry are kept, and its name when
\* the new one is empty; the sessions are dropped.
upsert_peer(old, new) ==
    IF old = None THEN new
    ELSE [new EXCEPT !.models = old.models,
                     !.local  = old.local,
                     !.name   = IF new.name = "" THEN old.name ELSE new.name]

\* Wrong variant: the local entry is not protected.
remove_any_peer(old) == None

remove_peer(old) == IF old # None /\ old.local THEN old ELSE None

(***************************************************************************)
(* The Info payload "name|models|sessions" and its reading with splitn: a  *)
(* '|' in the name moves the fields, which then do not parse.              *)
(***************************************************************************)
build_local_info_payload(e) == [name |-> e.name, models |-> e.models, sessions |-> e.sessions]

ParseInfo(info) ==
    IF info.name = "piped" THEN [NoInfo EXCEPT !.name = "plain"] ELSE info

\* Name first, then the lists, each only when it is not empty; the updates
\* of the lists fail for a peer that is not in the table.
ApplyInfo(old, info) ==
    LET heard == ParseInfo(info)
        named == IF heard.name = "" THEN old
                 ELSE upsert_peer(old, [NewPeer EXCEPT !.name = heard.name])
    IN  IF named = None THEN None
        ELSE [named EXCEPT !.models   = IF heard.models = {} THEN @ ELSE heard.models,
                           !.sessions = IF heard.sessions = 0 THEN @ ELSE heard.sessions]

(***************************************************************************)
(* Connections and what is queued at a node.                               *)
(***************************************************************************)
LinksOf(n, m) == {l \in Links : Ends[l] \in {<<n, m>>, <<m, n>>}}
Linked(n, m)  == \E l \in LinksOf(n, m) : open[l]

Event(kind, peer) == [kind |-> kind, peer |-> peer, info |-> NoInfo, reply |-> None]
InfoEvent(peer, info, reply) ==
    [kind |-> "info", peer |-> peer, info |-> info, reply |-> reply]

QueuedFrom(q, m) == \E i \in DOMAIN q : q[i].peer = m
UpQueued(q, m)   == \E i \in DOMAIN q : q[i].peer = m /\ q[i].kind = "up"

Busy(n) == \E t \in Tasks : Owner[t] = n /\ task[t].pc # "Idle"

\* A command of n is under way that ends with a broadcast.
Publishing(n) == \E t \in Tasks : Owner[t] = n /\ task[t].pc # "Idle" /\ task[t].what # "script"

\* The list of the local entry a task enters; those of n that have still to.
Lists        == {"models", "sessions"}
ListOf(what) == IF what = "sessions" THEN "sessions" ELSE "models"
Entering(n, list) ==
    {t \in Tasks : Owner[t] = n /\ task[t].pc \in {"List", "Update"} /\ ListOf(task[t].what) = list}

(***************************************************************************)
(* What the code itself leaves wrong, and until when.                      *)
(*   <<m, list>> \in unlisted: m's own entry may lack a change of this list *)
(*     of what m holds, until it is listed with no other task about it.    *)
(*   <<n, m>> \in untold: n may lack a change of m's own entry, until m      *)
(*     starts a command on its own or the two connect.                     *)
(*   <<n, m>> \in lost: one of the two has removed the other though they are *)
(*     connected, until they connect once more.                            *)
(***************************************************************************)
Excuses == [unlisted : SUBSET (Nodes \X Lists),
            untold   : SUBSET (Nodes \X Nodes),
            lost     : SUBSET (Nodes \X Nodes)]

About(m)   == (Nodes \ {m}) \X {m}
Both(n, m) == {<<n, m>>, <<m, n>>}
Excused(n, m) == <<n, m>> \in excuse.untold \cup excuse.lost

\* Nothing keeps a broadcast or a greeting of m from being right.
CanTell(m) == ~Publishing(m) /\ table[m][m].name # "piped"

Init ==
    /\ \E name \in [Nodes -> Names] :
          /\ \A n \in Nodes : name[n] \in NamesOf[n] \ {"piped"}
          /\ table = [n \in Nodes |->
                        [m \in Nodes |-> IF m = n THEN NewLocal(name[n]) ELSE None]]
    /\ open = [l \in Links |-> FALSE]
    /\ events = [n \in Nodes |-> <<>>]
    /\ held = [n \in Nodes |-> [models |-> {}, sessions |-> 0]]
    /\ task = [t \in Tasks |-> NoTask]
    /\ excuse = [unlisted |-> {}, untold |-> {}, lost |-> {}]
    /\ changes = 0

\* Users, scripts and the network act from outside.
Change == changes < MaxChanges /\ changes' = changes + 1

\* A dial succeeds (mDNS discovery, the dial command or the other side's).
Open(l) ==
    LET a == Ends[l][1]
        b == Ends[l][2]
    IN  /\ Change
        /\ ~open[l]
        /\ open' = [open EXCEPT ![l] = TRUE]
        /\ events' = [[events EXCEPT ![a] = Append(@, Event("up", b))]
                             EXCEPT ![b] = Append(@, Event("up", a))]
        /\ excuse' = [excuse EXCEPT !.lost   = @ \ Both(a, b),
                                    !.untold = @ \ {p \in Both(a, b) : CanTell(p[2])}]
        /\ UNCHANGED <<table, held, task>>

\* Connections between n and m go down; each is reported at both ends.
Downs(m, k) == [i \in 1..k |-> Event("down", m)]

CloseLinks(n, m, ls) ==
    /\ open' = [l \in Links |-> open[l] /\ l \notin ls]
    /\ events' = [[events EXCEPT ![n] = @ \o Downs(m, Cardinality(ls))]
                         EXCEPT ![m] = @ \o Downs(n, Cardinality(ls))]

Close(l) ==
    /\ Change
    /\ open[l]
    /\ CloseLinks(Ends[l][1], Ends[l][2], {l})
    /\ UNCHANGED <<table, held, task, excuse>>

\* NodeCommand::Disconnect, from a script: the entry goes at once, whatever
\* is queued.  For the own id the swarm finds no connection.
Disconnect(n, m) ==
    /\ table' = [table EXCEPT ![n][m] = remove_peer(@)]
    /\ \/ Linked(n, m) /\ CloseLinks(n, m, {l \in LinksOf(n, m) : open[l]}) /\ Change
       \/ ~Linked(n, m) /\ UNCHANGED <<open, events, changes>>
    /\ UNCHANGED <<held, task, excuse>>

(***************************************************************************)
(* The swarm events.                                                       *)
(***************************************************************************)
\* Wrong variant: the new peer is not told about this node.
ConnectionEstablishedSilent(n) ==
    /\ events[n] # <<>> /\ Head(events[n]).kind = "up"
    /\ table' = [table EXCEPT ![n][Head(events[n]).peer] = upsert_peer(@, NewPeer)]
    /\ events' = [events EXCEPT ![n] = Tail(@)]
    /\ UNCHANGED <<open, held, task, excuse, changes>>

\* Register the peer and send it this node's Info; the request is lost when
\* the connection is gone by then.
ConnectionEstablished(n) ==
    /\ events[n] # <<>> /\ Head(events[n]).kind = "up"
    /\ LET m == Head(events[n]).peer
       IN  /\ table' = [table EXCEPT ![n][m] = upsert_peer(@, NewPeer)]
           /\ events' = [[events EXCEPT ![n] = Tail(@)] EXCEPT
                ![m] = IF Linked(n, m)
                       THEN Append(@, InfoEvent(n, build_local_info_payload(table[n][n]), None))
                       ELSE @]
    /\ UNCHANGED <<open, held, task, excuse, changes>>

\* Wrong variant: only the event bus is told.
ConnectionClosedKeeps(n) ==
    /\ events[n] # <<>> /\ Head(events[n]).kind = "down"
    /\ events' = [events EXCEPT ![n] = Tail(@)]
    /\ UNCHANGED <<table, open, held, task, excuse, changes>>

\* The peer is removed, whether or not this was its only connection.
ConnectionClosed(n) ==
    /\ events[n] # <<>> /\ Head(events[n]).kind = "down"
    /\ LET m == Head(events[n]).peer
       IN  /\ table' = [table EXCEPT ![n][m] = remove_peer(@)]
           /\ excuse' = IF Linked(n, m) /\ ~UpQueued(Tail(events[n]), m)
                        THEN [excuse EXCEPT !.lost = @ \cup Both(n, m)] ELSE excuse
    /\ events' = [events EXCEPT ![n] = Tail(@)]
    /\ UNCHANGED <<open, held, task, changes>>

\* An Info request: update the table and answer "OK".
InfoReceived(n) ==
    /\ events[n] # <<>> /\ Head(events[n]).kind = "info"
    /\ LET e == Head(events[n])
       IN  /\ table' = [table EXCEPT ![n][e.peer] = ApplyInfo(@, e.info)]
           /\ task' = IF e.reply = None THEN task
                      ELSE [task EXCEPT ![e.reply].pc = "Send", ![e.reply].to = None]
    /\ events' = [events EXCEPT ![n] = Tail(@)]
    /\ UNCHANGED <<open, held, excuse, changes>>

\* A ping timeout removes the peer; its connection stays.  (A ping that is
\* answered only enters its latency, which the model leaves out.)
PingTimeout(n, m) ==
    /\ Change
    /\ Linked(n, m) /\ table[n][m] # None
    /\ table' = [table EXCEPT ![n][m] = remove_peer(@)]
    /\ excuse' = [excuse EXCEPT !.lost = @ \cup Both(n, m)]
    /\ UNCHANGED <<open, events, held, task>>

(***************************************************************************)
(* The commands: change something, enter it in the local entry, broadcast. *)
(***************************************************************************)
set_local_name(n, name) ==
    /\ Change
    /\ name # table[n][n].name
    /\ table' = [table EXCEPT ![n][n].name = name]
    /\ excuse' = IF name = "piped" THEN [excuse EXCEPT !.untold = @ \cup About(n)] ELSE excuse
    /\ UNCHANGED <<open, events, held, task>>

\* A task starts.  When another one has still to enter the same list, or to
\* broadcast, the two may pass each other; a command on its own tells everybody.
Start(t, what) ==
    LET n == Owner[t]
        unlisted == IF Entering(n, ListOf(what)) = {} THEN {} ELSE {<<n, ListOf(what)>>}
    IN  /\ Change
        /\ task[t].pc = "Idle"
        /\ task' = [task EXCEPT ![t].pc = "List", ![t].what = what]
        /\ excuse' = [excuse EXCEPT
              !.unlisted = @ \cup unlisted,
              !.untold   = IF what # "script" /\ Publishing(n) THEN @ \cup About(n)
                           ELSE IF what # "script" /\ CanTell(n) THEN @ \ About(n) ELSE @]
        /\ UNCHANGED <<table, open, events>>

\* UserCommand::Session: create_session, in a task of its own.
CreateSession(t) ==
    /\ Start(t, "sessions")
    /\ held[Owner[t]].sessions < MaxSessions
    /\ held' = [held EXCEPT ![Owner[t]].sessions = @ + 1]

\* do_flush: Storage::Flush finds the models that are there now; "models".
\* storage_flush of a script: nothing is broadcast afterwards; "script".
Flush(t, what, models) ==
    /\ Start(t, what)
    /\ held' = [held EXCEPT ![Owner[t]].models = models]

\* The models of a node change, and no task follows.
ModelsChange(n, models) ==
    /\ Change
    /\ models # held[n].models
    /\ held' = [held EXCEPT ![n].models = models]
    /\ excuse' = [excuse EXCEPT !.unlisted = @ \cup {<<n, "models">>}]
    /\ UNCHANGED <<table, open, events, task>>

\* Storage::Flush ends with an error in the middle of its scan: it returns
\* before Sync_Models_To_Peer_Manager, and do_flush does not broadcast.
FlushFails(n, models) == ModelsChange(n, models)

\* storage_remove or storage_exists of a script takes a model out of the index.
DropModel(n, f) == f \in held[n].models /\ ModelsChange(n, held[n].models \ {f})

\* Wrong variant: the new session is counted again.
ListHeldTwice(t) ==
    /\ task[t].pc = "List"
    /\ task' = [task EXCEPT ![t].pc = "Update",
                            ![t].value = [name |-> "", models |-> held[Owner[t]].models,
                                          sessions |-> held[Owner[t]].sessions + 1]]
    /\ UNCHANGED <<table, open, events, held, excuse, changes>>

\* list_sessions, or the List of Sync_Models_To_Peer_Manager.
ListHeld(t) ==
    /\ task[t].pc = "List"
    /\ task' = [task EXCEPT ![t].pc = "Update",
                            ![t].value = [name |-> "", models |-> held[Owner[t]].models,
                                          sessions |-> held[Owner[t]].sessions]]
    /\ LET own == <<Owner[t], ListOf(task[t].what)>>
       IN  excuse' = IF Entering(own[1], own[2]) = {t}
                     THEN [excuse EXCEPT !.unlisted = @ \ {own}] ELSE excuse
    /\ UNCHANGED <<table, open, events, held, changes>>

\* Update_Sessions or Update_Supported_Models of the local entry; a script
\* goes on without a broadcast.
UpdateLocal(t) ==
    LET n == Owner[t]
    IN  /\ task[t].pc = "Update"
        /\ \/ /\ task[t].what = "sessions"
              /\ table' = [table EXCEPT ![n][n].sessions = task[t].value.sessions]
           \/ /\ task[t].what # "sessions"
              /\ table' = [table EXCEPT ![n][n].models = task[t].value.models]
        /\ \/ /\ task[t].what # "script"
              /\ task' = [task EXCEPT ![t].pc = "Read", ![t].value = NoInfo]
              /\ UNCHANGED excuse
           \/ /\ task[t].what = "script"
              /\ task' = [task EXCEPT ![t] = NoTask]
              /\ excuse' = IF task[t].value.models = table[n][n].models THEN excuse
                           ELSE [excuse EXCEPT !.untold = @ \cup About(n)]
        /\ UNCHANGED <<open, events, held, changes>>

\* broadcast_local_info: Get_Local_Peer.
ReadLocal(t) ==
    /\ task[t].pc = "Read"
    /\ task' = [task EXCEPT ![t].pc = "Peers",
                            ![t].value = build_local_info_payload(table[Owner[t]][Owner[t]])]
    /\ UNCHANGED <<table, open, events, held, excuse, changes>>

\* Get_All_Peers.
ReadPeers(t) ==
    LET n == Owner[t]
    IN  /\ task[t].pc = "Peers"
        /\ task' = [task EXCEPT ![t].pc = "Send",
                                ![t].todo = {m \in Nodes \ {n} : table[n][m] # None}]
        /\ UNCHANGED <<table, open, events, held, excuse, changes>>

\* send_data to the next peer; it fails at once when there is no connection.
SendInfo(t, m) ==
    LET n == Owner[t]
    IN  /\ task[t].pc = "Send" /\ m \in task[t].todo
        /\ \/ /\ Linked(n, m)
              /\ events' = [events EXCEPT ![m] = Append(@, InfoEvent(n, task[t].value, t))]
              /\ task' = [task EXCEPT ![t].pc = "Await", ![t].to = m, ![t].todo = @ \ {m}]
           \/ /\ ~Linked(n, m)
              /\ task' = [task EXCEPT ![t].todo = @ \ {m}]
              /\ UNCHANGED events
        /\ UNCHANGED <<table, open, held, excuse, changes>>

\* send_data returns an error: the connection is gone or the request timed
\* out, while the request may still be handled later.
SendFails(t) ==
    /\ task[t].pc = "Await"
    /\ events' = [events EXCEPT ![task[t].to] =
                    [i \in DOMAIN @ |-> IF @[i].reply = t THEN [@[i] EXCEPT !.reply = None]
                                        ELSE @[i]]]
    /\ task' = [task EXCEPT ![t].pc = "Send", ![t].to = None]
    /\ UNCHANGED <<table, open, held, excuse, changes>>

BroadcastDone(t) ==
    /\ task[t].pc = "Send" /\ task[t].todo = {}
    /\ task' = [task EXCEPT ![t] = NoTask]
    /\ UNCHANGED <<table, open, events, held, excuse, changes>>

NodeStep(n) ==
    \/ ConnectionEstablished(n)
    \/ ConnectionClosed(n)
    \/ InfoReceived(n)
    \/ \E m \in Nodes : PingTimeout(n, m) \/ Disconnect(n, m)
    \/ \E name \in NamesOf[n] : set_local_name(n, name)
    \/ \E models \in SUBSET ModelFiles : FlushFails(n, models)
    \/ \E f \in ModelFiles : DropModel(n, f)

TaskStep(t) ==
    \/ CreateSession(t)
    \/ \E what \in {"models", "script"}, models \in SUBSET ModelFiles : Flush(t, what, models)
    \/ ListHeld(t)
    \/ UpdateLocal(t)
    \/ ReadLocal(t)
    \/ ReadPeers(t)
    \/ \E m \in Nodes : SendInfo(t, m)
    \/ SendFails(t)
    \/ BroadcastDone(t)

Next ==
    \/ \E l \in Links : Open(l) \/ Close(l)
    \/ \E n \in Nodes : NodeStep(n)
    \/ \E t \in Tasks : TaskStep(t)

Spec == Init /\ [][Next]_vars

(***************************************************************************)
(* Properties.                                                             *)
(***************************************************************************)
TypeOK ==
    /\ table \in [Nodes -> [Nodes -> Entries \cup {None}]]
    /\ open \in [Links -> BOOLEAN]
    /\ events \in [Nodes -> Seq(Events)]
    /\ held \in [Nodes -> [models : SUBSET ModelFiles, sessions : 0..MaxSessions]]
    /\ task \in [Tasks -> TaskStates]
    /\ excuse \in Excuses
    /\ changes \in 0..MaxChanges

\* Every node keeps its own entry, the only one marked local, whatever
\* connections come and go and whoever is disconnected (get_local_peer finds
\* it by the mark; without it no Info is sent and no command can publish).
OneLocalEntry ==
    \A n, m \in Nodes :
        /\ table[n][n] # None
        /\ table[n][m] # None => (table[n][m].local <=> m = n)

\* "存在即在线" (docs/design_doc/peer_manager_design.md:30): once the events
\* about a peer are handled, a peer without a connection is not in the table.
ListedIsOnline ==
    \A n, m \in Nodes :
        n # m /\ table[n][m] # None => Linked(n, m) \/ QueuedFrom(events[n], m)

\* Connected, and nothing is on its way from m to n.
Settled(n, m) ==
    /\ Linked(n, m)
    /\ ~Busy(m)
    /\ ~QueuedFrom(events[n], m)
    /\ ~UpQueued(events[m], n)

\* When nothing is under way, a node's own entry has the models and sessions
\* the node holds, and each of two connected nodes has the other in its table
\* with the lists of the other's own entry (a list of models that is empty is
\* not told, so it says nothing).  The exceptions are the changes the code
\* announces to nobody and what overlapping commands, a '|' in the name and the
\* removal of a connected peer bring about, each until what puts it right.
ListsCurrent ==
    /\ \A m \in Nodes : ~Busy(m) =>
          /\ <<m, "models">> \notin excuse.unlisted => table[m][m].models = held[m].models
          /\ <<m, "sessions">> \notin excuse.unlisted => table[m][m].sessions = held[m].sessions
    /\ \A n, m \in Nodes :
          Settled(n, m) /\ ~Excused(n, m) =>
              /\ table[n][m] # None
              /\ table[m][m].models \in {{}, table[n][m].models}
              /\ table[n][m].sessions = table[m][m].sessions

=============================================================================
