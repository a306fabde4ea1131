--------------------------------- MODULE Node ---------------------------------
(***************************************************************************)
(* Remote calls between nodes.  On each node two loops run: Core::run      *)
(* (Orchestrator/core.rs) and the event loop of Network_Service            *)
(* (Network/network_service.rs), joined by three bounded channels: `cmds`  *)
(* from Core and the scripts to the event loop, `inbound` and `events`     *)
(* back to Core.  A send to a full channel waits, and so does the loop     *)
(* that makes it.  A call is one Send_Data, or a command of the event loop *)
(* that has no answer; what it is about is chosen at the start, `call`.     *)
(* libp2p is external: `tracked` are the requests it will still report an  *)
(* answer or a failure for, `wire` what is under way.  Nothing makes a     *)
(* message arrive: one that stays in `wire` for ever is lost.              *)
(***************************************************************************)
EXTENDS NetworkData, FiniteSets, SequencesExt

CONSTANTS Nodes, Calls,
          Menu,       \* Menu[c]: what the call may be: who calls whom, Core or a script, and what
          scripts,    \* the user programs each node has
          Quitters,   \* the nodes whose user quits
          InboundCap, EventCap, CmdCap, \* the capacities of the channels
          Hosts       \* bound: the nodes a stream is opened to, once each

ASSUME NodeConstants ==
    /\ Calls \cap Nodes = {} /\ "quit" \notin Calls
    /\ InboundCap \in Nat \ {0} /\ EventCap \in Nat \ {0} /\ CmdCap \in Nat \ {0}
    /\ \A c \in Calls : \A m \in Menu[c] :
          /\ m.from \in Nodes /\ m.to \in Nodes /\ m.op \in {"SendData", "Other"}
          /\ m.data.data_type \in DOMAIN DataTypes /\ m.data.size \in Nat
    /\ Quitters \subseteq Nodes /\ Hosts \subseteq Nodes

VARIABLES
    call,           \* what each call is about, never changed
    phase, result,  \* where the caller is, and what it got
    user,           \* user_cmd_rx: rexec commands and "quit"
    core, net,      \* where each of the two loops is
    cmds, inbound, events,
    pending_replies, next_inbound_id, \* Inbound_Manager
    pending_responses,                \* Outbound_Manager
    wire, tracked,
    ran,            \* how many scripts were started for the call
    opened          \* the nodes a stream was opened to

callers == <<phase, result>>
reqres == <<pending_replies, next_inbound_id, pending_responses, wire, tracked>>
vars == <<call, callers, user, core, net, cmds, inbound, events, reqres, ran, opened>>

From(c) == call[c].from
To(c) == call[c].to
OwnCalls(n) == {c \in Calls : From(c) = n}

Select == [at |-> "select"]
Down == [at |-> "down"]
Up(n) == core[n] # Down

\* Err: the caller only shows the text, so all failures are one.
NoAnswer == [data_type |-> "none", payload |-> <<>>, size |-> 0]

Init ==
    /\ call \in {f \in [Calls -> UNION {Menu[c] : c \in Calls}] : \A c \in Calls : f[c] \in Menu[c]}
    /\ phase = [c \in Calls |-> "new"]
    /\ result = [c \in Calls |-> NoAnswer]
    /\ user = [n \in Nodes |-> <<>>]
    /\ core = [n \in Nodes |-> Select]
    /\ net = [n \in Nodes |-> Select]
    /\ cmds = [n \in Nodes |-> <<>>]
    /\ inbound = [n \in Nodes |-> <<>>]
    /\ events = [n \in Nodes |-> 0]
    /\ pending_replies = [n \in Nodes |-> <<>>]
    /\ next_inbound_id = [n \in Nodes |-> 1]
    /\ pending_responses = [n \in Nodes |-> {}]
    /\ wire = {} /\ tracked = {}
    /\ ran = [c \in Calls |-> 0]
    /\ opened = {}

(***************************************************************************)
(* The callers: Send_Data and the commands without an answer               *)
(***************************************************************************)
\* The user types rexec, or a script calls caps.network.
Start(c) ==
    /\ phase[c] = "new" /\ Up(From(c))
    /\ \/ /\ call[c].by = "user"
          /\ phase' = [phase EXCEPT ![c] = "queued"]
          /\ user' = [user EXCEPT ![From(c)] = Append(@, c)]
       \/ /\ call[c].by = "script"
          /\ phase' = [phase EXCEPT ![c] = "sending"]
          /\ UNCHANGED user
    /\ UNCHANGED <<result, core, net, cmds, inbound, events, reqres, ran, opened, call>>

TypeQuit(n) ==
    /\ n \in Quitters /\ Up(n)
    /\ ~Contains(user[n], "quit")
    /\ user' = [user EXCEPT ![n] = Append(@, "quit")]
    /\ UNCHANGED <<callers, core, net, cmds, inbound, events, reqres, ran, opened, call>>

\* cmd_tx.send().await; the clock of the caller starts after it.  Dial,
\* Disconnect and the DHT commands return as soon as they are queued.
SendCommand(c) ==
    LET n == From(c)
    IN  /\ phase[c] = "sending" /\ Len(cmds[n]) < CmdCap
        /\ cmds' = [cmds EXCEPT ![n] = Append(@, [op |-> call[c].op, call |-> c])]
        /\ phase' = [phase EXCEPT ![c] = IF call[c].op = "SendData" THEN "waiting" ELSE "done"]
        /\ UNCHANGED <<result, user, core, net, inbound, events, reqres, ran, opened, call>>

\* The oneshot of the caller gets `r`; nobody listens once the caller is gone.
Deliver(c, r) ==
    IF phase[c] = "waiting"
    THEN phase' = [phase EXCEPT ![c] = "done"] /\ result' = [result EXCEPT ![c] = r]
    ELSE UNCHANGED callers

\* Wrong variant: the clock only runs once the event loop has sent the request.
ResponseTimeoutOnceSent(c) ==
    /\ phase[c] = "waiting" /\ c \in tracked
    /\ Deliver(c, NoAnswer)
    /\ UNCHANGED <<user, core, net, cmds, inbound, events, reqres, ran, opened, call>>

\* tokio::time::timeout around the oneshot; the entry of the call stays in
\* pending_responses.
ResponseTimeout(c) ==
    /\ phase[c] = "waiting"
    /\ Deliver(c, NoAnswer)
    /\ UNCHANGED <<user, core, net, cmds, inbound, events, reqres, ran, opened, call>>

(***************************************************************************)
(* Core::run                                                               *)
(***************************************************************************)
\* B1, ExecRemote: Core itself makes the call and waits for the answer.  A
\* name that is not in the peer table ends the command.
RouteExecRemote(n) ==
    /\ core[n] = Select /\ user[n] # <<>> /\ Head(user[n]) # "quit"
    /\ user' = [user EXCEPT ![n] = Tail(@)]
    /\ LET c == Head(user[n])
       IN  \/ /\ phase' = [phase EXCEPT ![c] = "sending"]
              /\ core' = [core EXCEPT ![n] = [at |-> "call", call |-> c]]
           \/ /\ phase' = [phase EXCEPT ![c] = "done"]
              /\ UNCHANGED core
    /\ UNCHANGED <<result, net, cmds, inbound, events, reqres, ran, opened, call>>

CoreResume(n) ==
    /\ core[n].at = "call" /\ phase[core[n].call] = "done"
    /\ core' = [core EXCEPT ![n] = Select]
    /\ UNCHANGED <<callers, user, net, cmds, inbound, events, reqres, ran, opened, call>>

CommandData(text) == [data_type |-> "Command", payload |-> text, size |-> 1]

\* Does the command start a user program of node n?
Starts(n, text) ==
    LET p == Parse_Network_Command(text)
    IN  p.proto = "EXEC" /\ p.args[1] \in scripts[n]

\* B2: a command is answered, a file request is only logged.
RouteInbound(n) ==
    LET req == Head(inbound[n])
    IN  /\ core[n] = Select /\ inbound[n] # <<>>
        /\ inbound' = [inbound EXCEPT ![n] = Tail(@)]
        /\ \/ /\ req.data_type = "Command"
              /\ core' = [core EXCEPT ![n] = [at |-> "reply", id |-> req.id,
                            data |-> CommandData(IF Starts(n, req.payload) THEN <<"OK">>
                                                                           ELSE <<"FAIL">>)]]
              /\ ran' = IF Starts(n, req.payload) THEN [ran EXCEPT ![req.call] = @ + 1] ELSE ran
           \/ /\ req.data_type = "File"
              /\ UNCHANGED <<core, ran>>
        /\ UNCHANGED <<callers, user, net, cmds, events, reqres, opened, call>>

CoreReply(n) ==
    /\ core[n].at = "reply" /\ Len(cmds[n]) < CmdCap
    /\ cmds' = [cmds EXCEPT ![n] = Append(@, [op |-> "SendResponse", id |-> core[n].id,
                                              data |-> core[n].data])]
    /\ core' = [core EXCEPT ![n] = Select]
    /\ UNCHANGED <<callers, user, net, inbound, events, reqres, ran, opened, call>>

\* B3: a task is spawned for the stream.
RouteStream(n) ==
    /\ core[n] = Select /\ events[n] > 0
    /\ events' = [events EXCEPT ![n] = @ - 1]
    /\ UNCHANGED <<callers, user, core, net, cmds, inbound, reqres, ran, opened, call>>

\* Quit: the registry of jobs is empty, so the loop ends at its next turn, and
\* the process with it.
Quit(n) ==
    /\ core[n] = Select /\ user[n] # <<>> /\ Head(user[n]) = "quit"
    /\ core' = [core EXCEPT ![n] = Down]
    /\ net' = [net EXCEPT ![n] = Down]
    /\ user' = [user EXCEPT ![n] = <<>>]
    /\ cmds' = [cmds EXCEPT ![n] = <<>>]
    /\ inbound' = [inbound EXCEPT ![n] = <<>>]
    /\ events' = [events EXCEPT ![n] = 0]
    /\ phase' = [c \in Calls |-> IF From(c) = n /\ phase[c] # "done" THEN "gone" ELSE phase[c]]
    /\ pending_replies' = [pending_replies EXCEPT ![n] = <<>>]
    /\ pending_responses' = [pending_responses EXCEPT ![n] = {}]
    /\ tracked' = tracked \ OwnCalls(n)
    /\ UNCHANGED <<result, next_inbound_id, wire, ran, opened, call>>

(***************************************************************************)
(* Network_Service::Start, the event loop                                  *)
(***************************************************************************)
\* An answer to a request the other side has given up goes nowhere.
Response(c, data) == {[kind |-> "response", call |-> t, frame |-> Write_Frame(data)] :
                        t \in tracked \cap {c}}
Request(c) == [kind |-> "request", call |-> c, frame |-> Write_Frame(call[c].data)]

\* Wrong variant: the channel is left in the table.
KeepReplyChannel(n, id) == pending_replies

Take_Reply_Channel(n, id) ==
    [pending_replies EXCEPT ![n] = Restrict(@, DOMAIN @ \ {id})]

\* Handle_Command.  An answer whose channel is gone is dropped.
HandleCommand(n) ==
    LET cmd == Head(cmds[n])
    IN  /\ net[n] = Select /\ cmds[n] # <<>>
        /\ cmds' = [cmds EXCEPT ![n] = Tail(@)]
        /\ \/ /\ cmd.op = "SendData"
              /\ wire' = wire \cup {Request(cmd.call)}
              /\ tracked' = tracked \cup {cmd.call}
              /\ pending_responses' = [pending_responses EXCEPT ![n] = @ \cup {cmd.call}]
              /\ UNCHANGED pending_replies
           \/ /\ cmd.op = "SendResponse"
              /\ wire' = wire \cup UNION {Response(pending_replies[n][id], cmd.data) :
                                           id \in {cmd.id} \cap DOMAIN pending_replies[n]}
              /\ pending_replies' = Take_Reply_Channel(n, cmd.id)
              /\ UNCHANGED <<tracked, pending_responses>>
           \/ /\ cmd.op = "Other"
              /\ UNCHANGED <<wire, tracked, pending_replies, pending_responses>>
        /\ UNCHANGED <<callers, user, core, net, inbound, events, next_inbound_id, ran, opened, call>>

\* inbound_tx.send().await: the event loop waits if there is no room.
HandToCore(n, req) ==
    IF Len(inbound[n]) < InboundCap
    THEN inbound' = [inbound EXCEPT ![n] = Append(@, req)] /\ UNCHANGED net
    ELSE net' = [net EXCEPT ![n] = [at |-> "forward", req |-> req]] /\ UNCHANGED inbound

\* Wrong variant: every request gets the same id.
RegisterUnderOneId(n, c, d) ==
    /\ pending_replies' = [pending_replies EXCEPT ![n] = (1 :> c) @@ @]
    /\ HandToCore(n, [id |-> 1, data_type |-> d.data_type, payload |-> d.payload, call |-> c])
    /\ next_inbound_id' = [next_inbound_id EXCEPT ![n] = 2]

Register_Inbound(n, c, d) ==
    LET id == next_inbound_id[n]
    IN  /\ next_inbound_id' = [next_inbound_id EXCEPT ![n] = @ + 1]
        /\ pending_replies' = [pending_replies EXCEPT ![n] =
                                 [i \in DOMAIN @ \cup {id} |-> IF i = id THEN c ELSE @[i]]]
        /\ HandToCore(n, [id |-> id, data_type |-> d.data_type, payload |-> d.payload, call |-> c])

\* A request arrives.  A frame that cannot be read is an InboundFailure,
\* which is logged; Data and Info are answered here.
RequestEvent(n, m) ==
    LET d == Read_Frame(m.frame)
    IN  /\ net[n] = Select /\ m.kind = "request" /\ To(m.call) = n
        /\ \/ /\ d = BadFrame
              /\ wire' = wire \ {m}
              /\ UNCHANGED <<net, inbound, pending_replies, next_inbound_id>>
           \/ /\ d # BadFrame /\ d.data_type \in {"Data", "Info"}
              /\ wire' = (wire \ {m}) \cup Response(m.call,
                            [data_type |-> d.data_type, payload |-> <<"OK">>, size |-> 1])
              /\ UNCHANGED <<net, inbound, pending_replies, next_inbound_id>>
           \/ /\ d # BadFrame /\ d.data_type \in {"Command", "File"}
              /\ wire' = wire \ {m}
              /\ Register_Inbound(n, m.call, d)
        /\ UNCHANGED <<callers, user, core, cmds, events, pending_responses,
                       tracked, ran, opened, call>>

\* Wrong variant: a request is handed over without waiting for room.
ForwardWithoutRoom(n) ==
    /\ net[n].at = "forward"
    /\ inbound' = [inbound EXCEPT ![n] = Append(@, net[n].req)]
    /\ net' = [net EXCEPT ![n] = Select]
    /\ UNCHANGED <<callers, user, core, cmds, events, reqres, ran, opened, call>>

Forward(n) ==
    /\ net[n].at = "forward" /\ Len(inbound[n]) < InboundCap
    /\ inbound' = [inbound EXCEPT ![n] = Append(@, net[n].req)]
    /\ net' = [net EXCEPT ![n] = Select]
    /\ UNCHANGED <<callers, user, core, cmds, events, reqres, ran, opened, call>>

Route_Response(c, d) ==
    /\ pending_responses' = [pending_responses EXCEPT ![From(c)] = @ \ {c}]
    /\ IF c \in pending_responses[From(c)] THEN Deliver(c, d) ELSE UNCHANGED callers

\* Wrong variant: the entry of a caller that has timed out is left behind.
FailOnlyListeners(c) ==
    IF phase[c] = "waiting"
    THEN /\ pending_responses' = [pending_responses EXCEPT ![From(c)] = @ \ {c}]
         /\ Deliver(c, NoAnswer)
    ELSE UNCHANGED <<pending_responses, callers>>

Route_Failure(c) ==
    /\ pending_responses' = [pending_responses EXCEPT ![From(c)] = @ \ {c}]
    /\ IF c \in pending_responses[From(c)] THEN Deliver(c, NoAnswer) ELSE UNCHANGED callers

\* libp2p reports an answer once, and only for a request it still tracks; an
\* answer that cannot be read is an OutboundFailure.
ResponseEvent(n, m) ==
    LET d == Read_Frame(m.frame)
    IN  /\ net[n] = Select /\ m.kind = "response" /\ From(m.call) = n /\ m.call \in tracked
        /\ wire' = wire \ {m}
        /\ tracked' = tracked \ {m.call}
        /\ \/ d # BadFrame /\ Route_Response(m.call, d)
           \/ d = BadFrame /\ Route_Failure(m.call)
        /\ UNCHANGED <<user, core, net, cmds, inbound, events, pending_replies,
                       next_inbound_id, ran, opened, call>>

\* OutboundFailure: no connection, the connection closed, or libp2p's own
\* request timeout.
FailureEvent(n, c) ==
    /\ net[n] = Select /\ From(c) = n /\ c \in tracked
    /\ tracked' = tracked \ {c}
    /\ wire' = {m \in wire : m.kind = "request" \/ m.call # c}
    /\ Route_Failure(c)
    /\ UNCHANGED <<user, core, net, cmds, inbound, events, pending_replies, next_inbound_id,
                   ran, opened, call>>

\* An inbound stream.  The loop itself reads the handshake of a tensor or
\* session stream and the whole of a bandwidth test.
StreamArrives(n) ==
    /\ net[n] = Select /\ n \in Hosts \ opened
    /\ opened' = opened \cup {n}
    /\ \E at \in {"reading", "event"} : net' = [net EXCEPT ![n] = [at |-> at]]
    /\ UNCHANGED <<callers, user, core, cmds, inbound, events, reqres, ran, call>>

\* The other node has written what the loop reads, or closed the stream; it
\* may never do so.  A session stream goes on to Core.
StreamRead(n) ==
    /\ net[n].at = "reading"
    /\ \E at \in {"select", "event"} : net' = [net EXCEPT ![n] = [at |-> at]]
    /\ UNCHANGED <<callers, user, core, cmds, inbound, events, reqres, ran, opened, call>>

\* orchestrator_event_tx.send().await
ForwardStream(n) ==
    /\ net[n].at = "event" /\ events[n] < EventCap
    /\ events' = [events EXCEPT ![n] = @ + 1]
    /\ net' = [net EXCEPT ![n] = Select]
    /\ UNCHANGED <<callers, user, core, cmds, inbound, reqres, ran, opened, call>>

----------------------------------------------------------------------------
CoreStep(n) ==
    \/ RouteExecRemote(n) \/ CoreResume(n) \/ RouteInbound(n)
    \/ CoreReply(n) \/ RouteStream(n) \/ Quit(n)

LoopStep(n) == HandleCommand(n) \/ Forward(n) \/ ForwardStream(n)

SwarmEvent(n) ==
    \/ \E m \in wire : RequestEvent(n, m) \/ ResponseEvent(n, m)
    \/ \E c \in Calls : FailureEvent(n, c)

\* Every node has quit or every call has ended: nothing is left to be done.
AllEnded == (\A c \in Calls : phase[c] \in {"done", "gone"}) \/ \A n \in Nodes : ~Up(n)

Done == AllEnded /\ UNCHANGED vars

Next ==
    \/ \E c \in Calls : Start(c) \/ SendCommand(c) \/ ResponseTimeout(c)
    \/ \E n \in Nodes : TypeQuit(n) \/ CoreStep(n) \/ LoopStep(n) \/ SwarmEvent(n)
                          \/ StreamArrives(n) \/ StreamRead(n)
    \/ Done

Spec == Init /\ [][Next]_vars

\* Timers fire, a task waiting for room in a channel gets it, and the two loops
\* go on when they can.  Nothing is assumed of the other end of a stream, of
\* libp2p's reports, or of the user.
Fairness ==
    /\ \A c \in Calls : WF_vars(ResponseTimeout(c)) /\ WF_vars(SendCommand(c))
    /\ \A n \in Nodes : WF_vars(CoreStep(n)) /\ WF_vars(LoopStep(n))

FairSpec == Spec /\ Fairness

(***************************************************************************)
(* Properties                                                              *)
(***************************************************************************)
Messages == [kind : {"request", "response"}, call : Calls,
             frame : {Write_Frame(d) : d \in {call[c].data : c \in Calls} \cup
                        {[data_type |-> t, payload |-> <<p>>, size |-> 1] :
                           t \in DOMAIN DataTypes, p \in {"OK", "FAIL"}}}]

\* Types; no channel of a node holds more than its capacity.
TypeOK ==
    /\ phase \in [Calls -> {"new", "queued", "sending", "waiting", "done", "gone"}]
    /\ \A n \in Nodes :
        /\ core[n].at \in {"select", "call", "reply", "down"}
        /\ net[n].at \in {"select", "forward", "reading", "event", "down"}
        /\ Len(cmds[n]) <= CmdCap /\ Len(inbound[n]) <= InboundCap /\ events[n] <= EventCap
        /\ ToSet(user[n]) \subseteq Calls \cup {"quit"}
        /\ DOMAIN pending_replies[n] \subseteq 1 .. next_inbound_id[n] - 1
        /\ pending_responses[n] \subseteq OwnCalls(n)
    /\ wire \subseteq Messages /\ tracked \subseteq Calls
    /\ ran \in [Calls -> Nat] /\ opened \subseteq Hosts

\* A caller gets the answer to its own request, whatever was lost, was late or
\* was answered meanwhile: a request is answered with its own data type; a
\* remote command that is answered OK has started its program exactly once, and
\* one answered FAIL has not and never will.  (pending_replies pairs the answer of
\* Core with the request by its id, Register_Inbound and Take_Reply_Channel.)
AnswerExact ==
    \A c \in Calls :
        /\ ran[c] <= 1
        /\ phase[c] = "done" /\ result[c].data_type # "none" =>
              /\ result[c].data_type = call[c].data.data_type
              /\ result[c].payload = <<"OK">> /\ result[c].data_type = "Command" => ran[c] = 1
              /\ result[c].payload = <<"FAIL">> => ran[c] = 0

\* No reply channel is left behind without somebody who will take it: the
\* request is being handed to Core, waits for Core, is being answered, or
\* its answer waits for the event loop.  Only a file request, which Core never
\* answers, stays.
RepliesOwned ==
    \A n \in Nodes : \A id \in DOMAIN pending_replies[n] :
        \/ call[pending_replies[n][id]].data.data_type = "File"
        \/ net[n].at = "forward" /\ net[n].req.id = id
        \/ \E i \in DOMAIN inbound[n] : inbound[n][i].id = id
        \/ core[n].at = "reply" /\ core[n].id = id
        \/ \E i \in DOMAIN cmds[n] : cmds[n][i].op = "SendResponse" /\ cmds[n][i].id = id

\* The entry of a call stays in pending_responses exactly as long as libp2p
\* will still report on the request, also after the caller has given up: the
\* table does not grow with calls that timed out.
ResponsesTracked ==
    \A n \in Nodes : pending_responses[n] = tracked \cap OwnCalls(n)

\* The event loop of n waits, for Core or for what another node writes, and
\* there is no room for a command.
Blocked(n) == net[n].at \in {"forward", "event", "reading"} /\ Len(cmds[n]) = CmdCap

\* Every call ends, whether it was made by Core or by a script, although Core waits
\* for its own calls inside its loop, two nodes may call each other, and the event
\* loop may wait for Core, or for another node that never writes its handshake.
\* Once its command is queued nothing can hold a caller; the send of the command is
\* not under the timeout, and a caller stays in it, or behind it in the queue of
\* Core, only if the event loop never again takes a command from a full channel.
CallsEnd ==
    \A c \in Calls :
        /\ []<>(phase[c] # "waiting")
        /\ []<>(phase[c] \notin {"queued", "sending"}) \/ <>[]Blocked(From(c))

\* "毫秒级返回" (.github/instructions.md:90): Core always comes back to its select!.
CoreReturns ==
    \A n \in Nodes : core[n].at \in {"call", "reply"} ~> core[n].at \in {"select", "down"}
=============================================================================
