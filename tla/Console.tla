------------------------------- MODULE Console -------------------------------
(***************************************************************************)
(* What the user sees: the TUI (or the CLI), the channel of user commands, *)
(* Core::route_user with the tasks it spawns, and the event bus back to    *)
(* the console.  The bus is a broadcast channel: a reader that falls       *)
(* behind by its capacity loses the oldest events.  Events carry no id of  *)
(* the command they answer; `of` is history.                               *)
(***************************************************************************)
EXTENDS UserCommands, FiniteSets, FiniteSetsExt

CONSTANTS Lines,     \* what the user may type
          Builtin,   \* builtin programs
          Listings,  \* what a scan of programs/user may find
          Peers,
          BusCap, UserCap, \* capacities: event bus, user commands
          MaxTyped, MaxNews \* bounds: lines typed, events of the network

ASSUME ConsoleConstants ==
    /\ BusCap \in Nat \ {0} /\ UserCap \in Nat \ {0} /\ MaxTyped \in Nat /\ MaxNews \in Nat
    /\ Listings # {}

VARIABLES
    mode,    \* "tui" or "cli"
    console, \* "starting", "run", "sending", "quit" (about to send Quit), "gone"
    held,    \* the command that waits for room
    typed,   \* lines typed that were commands
    last,    \* kind of the last one
    user,    \* user_cmd_rx
    core,    \* "select", "ended", or the command Core is waiting for
    user_programs, \* ProgramRegistry.user
    tasks,   \* spawned tasks and programs
    bus, lag,
    panel,   \* command_output; `seen` is history: the last answer of Core shown
    shown,   \* app.peers: absent, "off" or "on"
    link, news \* the connection to each peer, and events of the network so far

vars == <<mode, console, held, typed, last, user, core, user_programs, tasks, bus, lag,
          panel, shown, link, news>>
tui == <<mode, console, held, typed, last, panel, shown>>
network == <<link, news>>

Item(of, c) == [of |-> of, kind |-> c.kind, prog |-> c.prog]
NoItem == Item(0, Command("none"))

\* The initial flush is spawned before anybody has subscribed.
Init ==
    /\ mode \in {"tui", "cli"} /\ console = "starting" /\ held = NoItem
    /\ typed = 0 /\ last = "none"
    /\ user = <<>> /\ core = NoItem
    /\ user_programs \in Listings
    /\ tasks = {Item(0, Command("Flush"))}
    /\ bus = <<>> /\ lag = FALSE
    /\ panel = [by |-> 0, completed |-> FALSE, seen |-> 0]
    /\ shown = [p \in Peers |-> "absent"]
    /\ link = [p \in Peers |-> "down"] /\ news = 0

(***************************************************************************)
(* EventBus                                                                *)
(***************************************************************************)
\* The Outputs that route_user publishes itself, and those of tasks.
Answer(of) == [type |-> "answer", of |-> of]
Output(of) == [type |-> "output", of |-> of]
State(what, p) == [type |-> what, of |-> p]
Notify == [type |-> "notify", of |-> 0]

\* Without a subscriber an event is dropped.
Publish(es) ==
    LET q == bus \o es
        n == Len(q)
    IN  IF console = "starting" THEN UNCHANGED <<bus, lag>>
        ELSE /\ bus' = SubSeq(q, Max({1, n - BusCap + 1}), n)
             /\ lag' = (lag \/ n > BusCap)

Subscribe ==
    /\ console = "starting" /\ console' = "run"
    /\ UNCHANGED <<mode, held, typed, last, user, core, user_programs, tasks, bus, lag, panel,
                   shown, network>>

(***************************************************************************)
(* The console                                                             *)
(***************************************************************************)
\* Wrong variant: the command is queued even if the channel is full.
SubmitAnyway(item) == user' = Append(user, item) /\ UNCHANGED <<console, held>>

\* blocking_send: the console stops while the channel is full.
Submit(item) ==
    IF Len(user) < UserCap
    THEN user' = Append(user, item) /\ UNCHANGED <<console, held>>
    ELSE console' = "sending" /\ held' = item /\ UNCHANGED user

\* Handle_Command_Input, and the loop of spawn_stdin_repl: only the TUI has a
\* panel, which a new command clears.  A line that does not parse is
\* answered at once.
TypeLine(line) ==
    LET c == parse_user_command(line)
        k == typed + 1
    IN  /\ console = "run" /\ typed < MaxTyped
        /\ \/ /\ c.kind = "nothing"
              /\ UNCHANGED <<console, held, typed, last, user, panel>>
           \/ /\ c.kind = "quit" /\ console' = "quit"
              /\ UNCHANGED <<held, typed, last, user, panel>>
           \/ /\ c.kind = "Err" /\ typed' = k /\ last' = "Err"
              /\ panel' = [panel EXCEPT !.by = k, !.completed = TRUE]
              /\ UNCHANGED <<console, held, user>>
           \/ /\ c.kind \notin {"nothing", "quit", "Err"} /\ typed' = k /\ last' = c.kind
              /\ panel' = [panel EXCEPT !.completed = (mode = "cli" /\ @)]
              /\ Submit(Item(k, c))
        /\ UNCHANGED <<mode, core, user_programs, tasks, bus, lag, shown, network>>

SendHeld ==
    /\ console = "sending" /\ Len(user) < UserCap
    /\ user' = Append(user, held)
    /\ console' = "run" /\ held' = NoItem
    /\ UNCHANGED <<mode, typed, last, core, user_programs, tasks, bus, lag, panel, shown, network>>


\* Ctrl+C, quit, end of input: Quit is sent, and the console is closed.
SendQuit ==
    /\ console = "quit" /\ Len(user) < UserCap
    /\ user' = Append(user, Item(0, Local("quit")))
    /\ console' = "gone"
    /\ UNCHANGED <<mode, held, typed, last, core, user_programs, tasks, bus, lag, panel, shown,
                   network>>

Interrupt ==
    /\ console = "run" /\ console' = "quit"
    /\ UNCHANGED <<mode, held, typed, last, user, core, user_programs, tasks, bus, lag, panel,
                   shown, network>>

\* The TUI cannot draw, or the CLI cannot read a line: the console ends, and
\* nobody tells Core.
ConsoleFails ==
    /\ console = "run" /\ console' = "gone"
    /\ UNCHANGED <<mode, held, typed, last, user, core, user_programs, tasks, bus, lag, panel,
                   shown, network>>

Update_Peer(p, how) == shown' = [shown EXCEPT ![p] = how]

\* Wrong variant: a closed connection is not shown.
IgnoreDisconnect(e) ==
    CASE e.type \in {"peer_connected", "peer_info_updated"} -> Update_Peer(e.of, "on")
      [] e.type = "peer_discovered" -> Update_Peer(e.of, "off")
      [] e.type = "peer_left" -> Update_Peer(e.of, "absent")
      [] OTHER -> UNCHANGED shown

handle_state(e) ==
    CASE e.type \in {"peer_connected", "peer_info_updated"} -> Update_Peer(e.of, "on")
      [] e.type \in {"peer_discovered", "peer_disconnected"} -> Update_Peer(e.of, "off")
      [] e.type = "peer_left" -> Update_Peer(e.of, "absent")
      [] OTHER -> UNCHANGED shown

\* Whatever command it belongs to, an Output ends up in the panel.
handle_output(e) ==
    panel' = IF e.type \notin {"answer", "output"} THEN panel
             ELSE [by |-> e.of, completed |-> TRUE,
                   seen |-> IF e.type = "answer" THEN e.of ELSE panel.seen]

\* The TUI reads the bus in its loop, the CLI in a task of its own, which has no peer panel.
Handle_Bus_Event ==
    /\ bus # <<>> /\ (console = "run" \/ (mode = "cli" /\ console # "starting"))
    /\ bus' = Tail(bus)
    /\ handle_output(Head(bus))
    /\ IF mode = "tui" THEN handle_state(Head(bus)) ELSE UNCHANGED shown
    /\ UNCHANGED <<mode, console, held, typed, last, user, core, user_programs, tasks, lag, network>>

(***************************************************************************)
(* Core::route_user and what it spawns                                     *)
(***************************************************************************)
Spawn(it) == tasks' = tasks \cup {it} /\ UNCHANGED <<bus, lag>>

\* ProgramRegistry: exec only runs user programs, the other commands also
\* builtin ones.
Runnable(it) == user_programs \cup (IF it.kind = "Execute" THEN {} ELSE Builtin)

\* spawn_lua_script, or the message that there is no such program.
RunProgram(it) ==
    \/ /\ it.prog \in Runnable(it)
       /\ Spawn(it)
    \/ /\ it.prog \notin Runnable(it)
       /\ Publish(<<IF it.kind = "SessionInference" THEN Notify ELSE Answer(it.of)>>)
       /\ UNCHANGED tasks

\* Wrong variant: the remote command is run in a task, and Core goes on.
SpawnExecRemote(it) == Spawn(it) /\ UNCHANGED core

\* Core waits for the answer inside its loop; an unknown peer is reported at once.
ExecRemote(it) ==
    \/ core' = it /\ UNCHANGED <<tasks, bus, lag>>
    \/ Publish(<<Answer(it.of)>>) /\ UNCHANGED <<core, tasks>>

Ended == Item(0, Local("ended"))

\* Wrong variant: nothing is published when the command has been carried out.
AnswerSilently(it) ==
    /\ user_programs' \in IF it.kind = "Reload" THEN Listings ELSE {user_programs}
    /\ UNCHANGED <<bus, lag>>

AnswerAtOnce(it) ==
    /\ user_programs' \in IF it.kind = "Reload" THEN Listings ELSE {user_programs}
    /\ Publish(<<Answer(it.of)>>)

route_user ==
    LET it == Head(user)
    IN  /\ core = NoItem /\ user # <<>>
        /\ user' = Tail(user)
        /\ \/ /\ it.kind \in AnsweredAtOnce
              /\ AnswerAtOnce(it)
              /\ UNCHANGED <<core, tasks>>
           \/ /\ it.kind \in {"Flush"} \cup OnlyNotified
              /\ Spawn(it)
              /\ UNCHANGED <<core, user_programs>>
           \/ /\ it.kind \in RunsProgram
              /\ RunProgram(it)
              /\ UNCHANGED <<core, user_programs>>
           \/ /\ it.kind = "ExecRemote"
              /\ ExecRemote(it)
              /\ UNCHANGED user_programs
           \/ /\ it.kind = "quit"
              /\ core' = Ended
              /\ UNCHANGED <<tasks, user_programs, bus, lag>>
        /\ UNCHANGED <<tui, network>>

\* send_data returns: an answer, a failure, or the timeout.
RemoteAnswer ==
    /\ core.kind = "ExecRemote"
    /\ core' = NoItem
    /\ Publish(<<Answer(core.of)>>)
    /\ UNCHANGED <<tui, user, user_programs, tasks, network>>

Result(it) == IF it.kind \in RunsProgram THEN Output(it.of) ELSE Answer(it.of)

\* do_flush tells the console of its own models before its result; a program
\* whose runtime could not be built only notifies.
TaskEnds(it) ==
    /\ core # Ended
    /\ tasks' = tasks \ {it}
    /\ \/ /\ it.kind = "Flush" /\ Publish(<<Notify, Output(it.of)>>)
       \/ /\ it.kind \in OnlyNotified \cup RunsProgram /\ Publish(<<Notify>>)
       \/ /\ it.kind \notin {"Flush"} \cup OnlyNotified /\ Publish(<<Result(it)>>)
    /\ UNCHANGED <<tui, user, core, user_programs, network>>

(***************************************************************************)
(* Swarm events, as the network publishes them                             *)
(***************************************************************************)
News(p, what, to) ==
    /\ core # Ended /\ news < MaxNews /\ mode = "tui"
    /\ news' = news + 1
    /\ link' = [link EXCEPT ![p] = to]
    /\ Publish(<<State(what, p)>>)
    /\ UNCHANGED <<tui, user, core, user_programs, tasks>>

\* A peer may have several connections; Info arrives over a connection.
SwarmNews(p) ==
    \/ News(p, "peer_discovered", link[p])
    \/ News(p, "peer_left", link[p])
    \/ News(p, "peer_connected", "up")
    \/ link[p] = "up" /\ News(p, "peer_info_updated", "up")
    \/ link[p] = "up" /\ News(p, "peer_disconnected", "down")

----------------------------------------------------------------------------
CoreStep == route_user \/ RemoteAnswer
ConsoleStep == SendHeld \/ SendQuit \/ Handle_Bus_Event \/ Subscribe

\* The process has ended, or runs on without a console.
Done == (core = Ended \/ console = "gone") /\ UNCHANGED vars

Next ==
    \/ CoreStep \/ ConsoleStep \/ Interrupt \/ ConsoleFails \/ Done
    \/ \E line \in Lines : TypeLine(line)
    \/ \E it \in tasks : TaskEnds(it)
    \/ \E p \in Peers : SwarmNews(p)

Spec == Init /\ [][Next]_vars

\* The loops of Core and of the console turn, and send_data has a timeout.  A
\* program may run for ever, and nothing is assumed of the user and the network;
\* do_flush ends, as the Infos it sends have timeouts.
FairSpec ==
    /\ Spec
    /\ WF_vars(CoreStep) /\ WF_vars(SendHeld \/ SendQuit \/ Subscribe)
    /\ WF_vars(Handle_Bus_Event)
    /\ WF_vars(\E it \in tasks : it.kind = "Flush" /\ TaskEnds(it))

(***************************************************************************)
(* Properties                                                              *)
(***************************************************************************)
\* Types; neither the bus nor the command channel of Core ever holds more than its capacity.
TypeOK ==
    /\ mode \in {"tui", "cli"}
    /\ console \in {"starting", "run", "sending", "quit", "gone"}
    /\ typed \in 0 .. MaxTyped
    /\ Len(user) <= UserCap /\ Len(bus) <= BusCap
    /\ user_programs \in Listings
    /\ \A it \in tasks : it.of <= typed
    /\ lag \in BOOLEAN /\ panel.by \in 0 .. typed /\ panel.seen \in 0 .. typed
    /\ shown \in [Peers -> {"absent", "off", "on"}] /\ link \in [Peers -> {"down", "up"}]

\* The results that Core gives itself are shown in the order in which the commands were
\* typed, also when events are lost: a user who sees a result of his last
\* command never sees an older answer of Core replace it.  (The results of
\* programs and of flush come when they come: an Output has no id.)
ResultsInOrder == [][panel'.seen >= panel.seen]_vars

\* A command that Core answers is shown with its own result, unless the user goes on or quits,
\* or the bus has lost events: although the console stops while it waits for room, Core
\* waits inside its loop for other nodes.  (The user types finitely often, so
\* that again and again nothing is left to be shown says it of each command.)
Answered == AnsweredAtOnce \cup {"ExecRemote"}

ResultShown ==
    []<>~(/\ last \in Answered /\ panel.seen < typed
          /\ ~lag /\ console \notin {"quit", "gone"})

\* Once the TUI has read all events and none was lost, a peer it shows as connected
\* is connected: no stale event is left over from an older connection.
ShownIsConnected ==
    mode = "tui" /\ bus = <<>> /\ ~lag /\ console # "starting" =>
        \A p \in Peers : shown[p] = "on" => link[p] = "up"

=============================================================================
