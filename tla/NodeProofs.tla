------------------------------ MODULE NodeProofs ------------------------------
(***************************************************************************)
(* Proofs about Node, for any nodes, calls and capacities.                 *)
(***************************************************************************)
EXTENDS Node, SequenceTheorems, TLAPS

(***************************************************************************)
(* Types of what the loops and the channels hold.                          *)
(***************************************************************************)
Phases == {"new", "queued", "sending", "waiting", "done", "gone"}
Offers == UNION {Menu[c] : c \in Calls}
Payloads == {m.data.payload : m \in Offers}

\* What Core answers a command with.
Replies == {CommandData(<<"OK">>), CommandData(<<"FAIL">>)}

Commands == [op : {"SendData", "Other"}, call : Calls]
                \cup [op : {"SendResponse"}, id : Nat, data : Replies]

Inbound == [id : Nat, data_type : DOMAIN DataTypes, payload : Payloads, call : Calls]

CoreStates == [at : {"select", "down"}] \cup [at : {"call"}, call : Calls]
                  \cup [at : {"reply"}, id : Nat, data : Replies]

NetStates == [at : {"select", "down", "reading", "event"}] \cup [at : {"forward"}, req : Inbound]

CallsTyped ==
    /\ call \in [Calls -> Offers] /\ \A c \in Calls : call[c] \in Menu[c]
    /\ phase \in [Calls -> Phases] /\ DOMAIN result = Calls /\ ran \in [Calls -> Nat]
    /\ user \in [Nodes -> Seq(Calls \cup {"quit"})]

LoopsTyped ==
    /\ core \in [Nodes -> CoreStates] /\ net \in [Nodes -> NetStates]
    /\ cmds \in [Nodes -> Seq(Commands)] /\ inbound \in [Nodes -> Seq(Inbound)]
    /\ events \in [Nodes -> Nat] /\ opened \subseteq Hosts

TablesTyped ==
    /\ DOMAIN pending_replies = Nodes /\ next_inbound_id \in [Nodes -> Nat \ {0}]
    /\ \A n \in Nodes : /\ DOMAIN pending_replies[n] \subseteq 1 .. next_inbound_id[n] - 1
                        /\ \A id \in DOMAIN pending_replies[n] : pending_replies[n][id] \in Calls
    /\ DOMAIN pending_responses = Nodes
    /\ tracked \subseteq Calls

Capacities ==
    \A n \in Nodes : Len(cmds[n]) <= CmdCap /\ Len(inbound[n]) <= InboundCap /\ events[n] <= EventCap

\* The requests a node is to send are those of its own calls.
OwnCommands ==
    \A n \in Nodes : \A i \in 1 .. Len(cmds[n]) :
        cmds[n][i].op = "SendData" => From(cmds[n][i].call) = n

\* What is under way is as it was sent.
Answers == [data_type : DOMAIN DataTypes, payload : {<<"OK">>, <<"FAIL">>}, size : {1}]

OnTheWire ==
    \A m \in wire : \/ \E c \in Calls : m = Request(c)
                    \/ \E c \in Calls, d \in Answers :
                          m = [kind |-> "response", call |-> c, frame |-> Write_Frame(d)]

TInv == /\ CallsTyped /\ LoopsTyped /\ TablesTyped /\ Capacities
        /\ OwnCommands /\ OnTheWire /\ ResponsesTracked

(***************************************************************************)
(* What makes RepliesOwned inductive.                                      *)
(***************************************************************************)
\* Request r, on its way to Core of node n, is the call whose reply channel is
\* registered under its id, and carries the data of the call.
Paired(n, r) ==
    /\ r.id < next_inbound_id[n]
    /\ r.id \in DOMAIN pending_replies[n] => pending_replies[n][r.id] = r.call
    /\ To(r.call) = n
    /\ r.data_type = call[r.call].data.data_type

RequestsPaired ==
    \A n \in Nodes :
        /\ net[n].at = "forward" => Paired(n, net[n].req)
        /\ \A i \in 1 .. Len(inbound[n]) : Paired(n, inbound[n][i])
        /\ core[n].at = "reply" => core[n].id < next_inbound_id[n]
        /\ \A i \in 1 .. Len(cmds[n]) : cmds[n][i].op = "SendResponse" => cmds[n][i].id < next_inbound_id[n]

PInv == RequestsPaired /\ RepliesOwned

(***************************************************************************)
(* What makes AnswerExact inductive.                                       *)
(***************************************************************************)
\* The places where the request of a call may be.
Unsent == {c \in Calls : phase[c] \in {"new", "queued", "sending"}}
InCommands == {c \in Calls : \E i \in 1 .. Len(cmds[From(c)]) :
                                cmds[From(c)][i].op = "SendData" /\ cmds[From(c)][i].call = c}
OnWire == {c \in Calls : Request(c) \in wire}
AtLoop == {c \in Calls : net[To(c)].at = "forward" /\ net[To(c)].req.call = c}
InQueue == {c \in Calls : \E i \in 1 .. Len(inbound[To(c)]) : inbound[To(c)][i].call = c}

\* The requests that have not been handled yet: they may still start a program.
Open == Unsent \cup InCommands \cup OnWire \cup AtLoop \cup InQueue

\* A request is in one place at a time.
OnePlace ==
    /\ Unsent \cap (InCommands \cup OnWire \cup AtLoop \cup InQueue) = {}
    /\ InCommands \cap (OnWire \cup AtLoop \cup InQueue) = {}
    /\ OnWire \cap (AtLoop \cup InQueue) = {}
    /\ AtLoop \cap InQueue = {}

\* It is there only once; a call that Core has not taken up is queued.
UserOnce ==
    \A n \in Nodes : \A i \in 1 .. Len(user[n]) : user[n][i] # "quit" =>
        /\ phase[user[n][i]] = "queued" /\ From(user[n][i]) = n
        /\ \A j \in 1 .. Len(user[n]) : user[n][i] = user[n][j] => i = j

CommandOnce ==
    \A n \in Nodes : \A i, j \in 1 .. Len(cmds[n]) :
        cmds[n][i].op = "SendData" /\ cmds[n][j].op = "SendData" =>
            (cmds[n][i].call = cmds[n][j].call => i = j)

RequestOnce ==
    \A n \in Nodes : \A i, j \in 1 .. Len(inbound[n]) : inbound[n][i].call = inbound[n][j].call => i = j

\* Answer d suits what has become of the request of call c.
Fits(c, d) ==
    /\ c \notin Open
    /\ d.data_type = call[c].data.data_type
    /\ d.payload = <<"OK">> /\ d.data_type = "Command" => ran[c] = 1
    /\ d.payload = <<"FAIL">> => ran[c] = 0

\* Every answer, on its way or delivered, suits its call.
RanOnce == \A c \in Calls : ran[c] <= 1 /\ (c \in Open => ran[c] = 0)

ResultsFit ==
    \A c \in Calls :
        /\ c \in Unsent => result[c] = NoAnswer
        /\ phase[c] = "done" => result[c] = NoAnswer \/ Fits(c, result[c])

RepliesFit ==
    \A n \in Nodes : \A id \in DOMAIN pending_replies[n] :
        /\ core[n].at = "reply" /\ core[n].id = id => Fits(pending_replies[n][id], core[n].data)
        /\ \A i \in 1 .. Len(cmds[n]) :
              cmds[n][i].op = "SendResponse" /\ cmds[n][i].id = id =>
                 Fits(pending_replies[n][id], cmds[n][i].data)

WireFits ==
    \A m \in wire : m.kind = "response" => \E d \in Answers : m.frame = Write_Frame(d) /\ Fits(m.call, d)

Places == OnePlace /\ UserOnce /\ CommandOnce /\ RequestOnce
AInv == Places /\ RanOnce /\ ResultsFit /\ RepliesFit /\ WireFits

(***************************************************************************)
(* The operators of the model.                                             *)
(***************************************************************************)
\* The consequences of the assumptions used below.
LEMMA Consts ==
    /\ CmdCap \in Nat /\ InboundCap \in Nat /\ EventCap \in Nat /\ Hosts \subseteq Nodes
    /\ "quit" \notin Calls
BY NodeConstants

\* What a call is about.
LEMMA CallFacts ==
    ASSUME CallsTyped, NEW c \in Calls
    PROVE  /\ From(c) \in Nodes /\ To(c) \in Nodes /\ call[c].op \in {"SendData", "Other"}
           /\ call[c].data.data_type \in DOMAIN DataTypes /\ call[c].data.payload \in Payloads
<1>1. call[c] \in Menu[c] /\ call[c] \in Offers
  BY DEF CallsTyped
<1>2. call[c].data.payload \in Payloads
  BY <1>1 DEF Payloads
<1> QED BY <1>1, <1>2, NodeConstants DEF From, To

\* Taking the first element of a channel.
LEMMA TakeFirst ==
    ASSUME NEW S, NEW q \in Seq(S), q # <<>>
    PROVE  /\ Head(q) \in S /\ Head(q) = q[1] /\ 1 \in 1 .. Len(q) /\ Tail(q) \in Seq(S)
           /\ Len(q) \in Nat /\ Len(q) >= 1 /\ Len(Tail(q)) = Len(q) - 1
           /\ \A i \in 1 .. Len(Tail(q)) : i + 1 \in 1 .. Len(q) /\ Tail(q)[i] = q[i + 1]
<1>1. Head(q) \in S /\ Tail(q) \in Seq(S)
  BY HeadTailProperties
<1>2. Len(q) \in Nat /\ Len(q) >= 1 /\ Len(Tail(q)) = Len(q) - 1
  BY EmptySeq, LenProperties, HeadTailProperties
<1>3. \A i \in 1 .. Len(Tail(q)) : Tail(q)[i] = q[i + 1]
  BY <1>2, HeadTailProperties
<1> QED BY <1>1, <1>2, <1>3

\* Adding an element to a channel.
LEMMA AddLast ==
    ASSUME NEW S, NEW q \in Seq(S), NEW e \in S
    PROVE  /\ Append(q, e) \in Seq(S) /\ Len(q) \in Nat /\ Len(Append(q, e)) = Len(q) + 1
           /\ \A i \in 1 .. Len(q) : i \in 1 .. Len(Append(q, e)) /\ Append(q, e)[i] = q[i]
           /\ \A i \in 1 .. Len(Append(q, e)) : i \in 1 .. Len(q) \/ i = Len(q) + 1
           /\ Append(q, e)[Len(q) + 1] = e /\ Len(q) + 1 \in 1 .. Len(Append(q, e))
<1>1. /\ Append(q, e) \in Seq(S) /\ Len(q) \in Nat /\ Len(Append(q, e)) = Len(q) + 1
      /\ \A i \in 1 .. Len(q) : Append(q, e)[i] = q[i]
      /\ Append(q, e)[Len(q) + 1] = e
  BY AppendProperties, LenProperties
<1> QED BY <1>1

\* The states of the loops, the commands and the requests.
LEMMA StateFacts ==
    /\ Select \in CoreStates /\ Down \in CoreStates /\ Select \in NetStates /\ Down \in NetStates
    /\ Select.at = "select" /\ Down.at = "down"
    /\ \A x \in CoreStates : /\ x.at \in {"select", "call", "reply", "down"}
                             /\ x.at = "call" => x.call \in Calls
                             /\ x.at = "reply" => x.id \in Nat /\ x.data \in Replies
    /\ \A x \in NetStates : /\ x.at \in {"select", "forward", "reading", "event", "down"}
                            /\ x.at = "forward" => x.req \in Inbound
<1>1. /\ Select \in CoreStates /\ Down \in CoreStates /\ Select \in NetStates /\ Down \in NetStates
      /\ Select.at = "select" /\ Down.at = "down"
  BY DEF Select, Down, CoreStates, NetStates
<1>2. \A x \in CoreStates : /\ x.at \in {"select", "call", "reply", "down"}
                            /\ x.at = "call" => x.call \in Calls
                            /\ x.at = "reply" => x.id \in Nat /\ x.data \in Replies
  BY DEF CoreStates
<1>3. \A x \in NetStates : /\ x.at \in {"select", "forward", "reading", "event", "down"}
                           /\ x.at = "forward" => x.req \in Inbound
  BY DEF NetStates
<1> QED BY <1>1, <1>2, <1>3

\* The same for the commands.
LEMMA CommandFacts ==
    /\ \A c \in Calls, op \in {"SendData", "Other"} : [op |-> op, call |-> c] \in Commands
    /\ \A id \in Nat, d \in Replies : [op |-> "SendResponse", id |-> id, data |-> d] \in Commands
    /\ \A x \in Commands : /\ x.op \in {"SendData", "Other"} => x.call \in Calls
                           /\ x.op = "SendResponse" => x.id \in Nat /\ x.data \in Replies
    /\ Replies \subseteq Answers
<1>1. /\ \A c \in Calls, op \in {"SendData", "Other"} : [op |-> op, call |-> c] \in Commands
      /\ \A id \in Nat, d \in Replies : [op |-> "SendResponse", id |-> id, data |-> d] \in Commands
      /\ \A x \in Commands : /\ x.op \in {"SendData", "Other"} => x.call \in Calls
                             /\ x.op = "SendResponse" => x.id \in Nat /\ x.data \in Replies
  BY DEF Commands
<1>2. Replies \subseteq Answers
  BY DEF Replies, Answers, CommandData, DataTypes
<1> QED BY <1>1, <1>2

\* Reading a frame gives what was written, or fails: the types of data have
\* different codes.
LEMMA FrameFacts ==
    ASSUME NEW d, d.data_type \in DOMAIN DataTypes
    PROVE  LET r == Read_Frame(Write_Frame(d))
           IN  r # BadFrame =>
                  r.data_type = d.data_type /\ r.payload = d.payload /\ r.size = d.size
<1>1. DOMAIN DataTypes = {"Command", "Data", "File", "Info"}
  BY DEF DataTypes
<1>2. From_U8(DataTypes[d.data_type]) = {d.data_type}
  BY <1>1 DEF From_U8, DataTypes
<1>3. (CHOOSE t \in From_U8(DataTypes[d.data_type]) : TRUE) = d.data_type
  BY <1>2
<1>4. /\ Write_Frame(d).type = DataTypes[d.data_type] /\ Write_Frame(d).len = d.size
      /\ Write_Frame(d).payload = d.payload
  BY DEF Write_Frame
<1>5. Read_Frame(Write_Frame(d)) \in
         {BadFrame, [data_type |-> d.data_type, payload |-> d.payload, size |-> d.size]}
  BY <1>3, <1>4 DEF Read_Frame
<1> QED BY <1>5

\* Adding to, and taking from, the channel of one node.
LEMMA Added ==
    ASSUME NEW S, NEW q \in [Nodes -> Seq(S)], NEW n \in Nodes, NEW x \in S,
           NEW r, r = [q EXCEPT ![n] = Append(@, x)]
    PROVE  /\ r \in [Nodes -> Seq(S)]
           /\ Len(q[n]) \in Nat /\ Len(r[n]) = Len(q[n]) + 1
           /\ \A k \in Nodes : k # n => r[k] = q[k]
           /\ \A k \in Nodes : \A i \in 1 .. Len(q[k]) : i \in 1 .. Len(r[k]) /\ r[k][i] = q[k][i]
           /\ \A k \in Nodes : \A i \in 1 .. Len(r[k]) :
                 i \in 1 .. Len(q[k]) \/ (k = n /\ i = Len(q[n]) + 1)
           /\ r[n][Len(q[n]) + 1] = x /\ Len(q[n]) + 1 \in 1 .. Len(r[n])
<1> DEFINE a == Append(q[n], x)
<1>1. /\ a \in Seq(S) /\ Len(q[n]) \in Nat /\ Len(a) = Len(q[n]) + 1
      /\ \A i \in 1 .. Len(q[n]) : i \in 1 .. Len(a) /\ a[i] = q[n][i]
      /\ \A i \in 1 .. Len(a) : i \in 1 .. Len(q[n]) \/ i = Len(q[n]) + 1
      /\ a[Len(q[n]) + 1] = x /\ Len(q[n]) + 1 \in 1 .. Len(a)
  BY AddLast
<1>2. r = [q EXCEPT ![n] = a]
  OBVIOUS
<1> HIDE DEF a
<1>3. r[n] = a /\ (\A k \in Nodes : k # n => r[k] = q[k]) /\ r \in [Nodes -> Seq(S)]
  BY <1>1, <1>2
<1> QED BY <1>1, <1>3

\* Taking the first element of the channel of one node.
LEMMA Taken ==
    ASSUME NEW S, NEW q \in [Nodes -> Seq(S)], NEW n \in Nodes, q[n] # <<>>,
           NEW r, r = [q EXCEPT ![n] = Tail(@)]
    PROVE  /\ r \in [Nodes -> Seq(S)]
           /\ Head(q[n]) \in S /\ Head(q[n]) = q[n][1] /\ 1 \in 1 .. Len(q[n])
           /\ Len(q[n]) \in Nat /\ Len(r[n]) = Len(q[n]) - 1
           /\ \A k \in Nodes : k # n => r[k] = q[k]
           /\ \A i \in 1 .. Len(r[n]) : i + 1 \in 1 .. Len(q[n]) /\ r[n][i] = q[n][i + 1]
           /\ \A i \in 1 .. Len(q[n]) : i # 1 => i - 1 \in 1 .. Len(r[n]) /\ r[n][i - 1] = q[n][i]
<1> DEFINE a == Tail(q[n])
<1>1. /\ Head(q[n]) \in S /\ Head(q[n]) = q[n][1] /\ 1 \in 1 .. Len(q[n]) /\ a \in Seq(S)
      /\ Len(q[n]) \in Nat /\ Len(a) = Len(q[n]) - 1
      /\ \A i \in 1 .. Len(a) : i + 1 \in 1 .. Len(q[n]) /\ a[i] = q[n][i + 1]
  BY TakeFirst
<1>2. r = [q EXCEPT ![n] = a]
  OBVIOUS
<1> HIDE DEF a
<1>3. r[n] = a /\ (\A k \in Nodes : k # n => r[k] = q[k]) /\ r \in [Nodes -> Seq(S)]
  BY <1>1, <1>2
<1>4. ASSUME NEW i \in 1 .. Len(q[n]), i # 1 PROVE i - 1 \in 1 .. Len(r[n]) /\ r[n][i - 1] = q[n][i]
  <2>1. i - 1 \in 1 .. Len(a) /\ (i - 1) + 1 = i
    BY <1>1, <1>4
  <2>2. a[i - 1] = q[n][(i - 1) + 1]
    BY <1>1, <2>1
  <2> QED BY <1>3, <2>1, <2>2
<1> QED BY <1>1, <1>3, <1>4

(***************************************************************************)
(* Types, capacities and the table of responses.                           *)
(***************************************************************************)
\* Initially everything is empty.
LEMMA InitTInv == Init => TInv
<1> SUFFICES ASSUME Init PROVE TInv
  OBVIOUS
<1> USE Consts, StateFacts DEF Init
<1>1. CallsTyped
  BY DEF CallsTyped, Phases, Offers
<1>2. LoopsTyped
  BY DEF LoopsTyped
<1>3. TablesTyped
  BY DEF TablesTyped
<1>4. Capacities
  BY DEF Capacities
<1>5. OwnCommands /\ OnTheWire /\ ResponsesTracked
  BY DEF OwnCommands, OnTheWire, ResponsesTracked
<1> QED BY <1>1, <1>2, <1>3, <1>4, <1>5 DEF TInv

\* The parts of TInv a step does not touch.
LEMMA Kept ==
    ASSUME TInv, UNCHANGED call
    PROVE  /\ UNCHANGED <<phase, result, user, ran>> => CallsTyped'
           /\ UNCHANGED <<core, net, cmds, inbound, events, opened>> => LoopsTyped' /\ Capacities'
           /\ UNCHANGED cmds => OwnCommands'
           /\ UNCHANGED reqres => TablesTyped' /\ OnTheWire' /\ ResponsesTracked'
<1>1. UNCHANGED <<phase, result, user, ran>> => CallsTyped'
  BY DEF TInv, CallsTyped
<1>2. UNCHANGED <<core, net, cmds, inbound, events, opened>> => LoopsTyped' /\ Capacities'
  BY DEF TInv, LoopsTyped, Capacities
<1>3. UNCHANGED cmds => OwnCommands'
  BY DEF TInv, OwnCommands, From
<1>4. UNCHANGED reqres => TablesTyped' /\ OnTheWire' /\ ResponsesTracked'
  BY DEF TInv, TablesTyped, OnTheWire, ResponsesTracked, OwnCalls, From, Request, reqres
<1> QED BY <1>1, <1>2, <1>3, <1>4

\* The callers.
LEMMA TStart == ASSUME TInv, NEW c \in Calls, Start(c) PROVE TInv'
<1>1. UNCHANGED <<result, core, net, cmds, inbound, events, reqres, ran, opened, call>>
  BY DEF Start
<1>2. CallsTyped'
  <2>1. From(c) \in Nodes
    BY CallFacts DEF TInv
  <2>2. phase' \in [Calls -> Phases]
    BY DEF Start, TInv, CallsTyped, Phases
  <2>3. user' \in [Nodes -> Seq(Calls \cup {"quit"})]
    <3>1. user \in [Nodes -> Seq(Calls \cup {"quit"})] /\ user[From(c)] \in Seq(Calls \cup {"quit"})
      BY <2>1 DEF TInv, CallsTyped
    <3>2. Append(user[From(c)], c) \in Seq(Calls \cup {"quit"})
      BY <3>1, AppendProperties
    <3> QED BY <3>1, <3>2 DEF Start
  <2> QED BY <1>1, <2>2, <2>3 DEF TInv, CallsTyped
<1> QED BY <1>1, <1>2, Kept DEF TInv

\* The user queues a quit.
LEMMA TTypeQuit == ASSUME TInv, NEW n \in Nodes, TypeQuit(n) PROVE TInv'
<1>1. UNCHANGED <<phase, result, core, net, cmds, inbound, events, reqres, ran, opened, call>>
  BY DEF TypeQuit, callers
<1>2. CallsTyped'
  <2>1. user \in [Nodes -> Seq(Calls \cup {"quit"})] /\ user[n] \in Seq(Calls \cup {"quit"})
    BY DEF TInv, CallsTyped
  <2>2. Append(user[n], "quit") \in Seq(Calls \cup {"quit"})
    BY <2>1, AppendProperties
  <2>3. user' \in [Nodes -> Seq(Calls \cup {"quit"})]
    BY <2>1, <2>2 DEF TypeQuit
  <2> QED BY <1>1, <2>3 DEF TInv, CallsTyped
<1> QED BY <1>1, <1>2, Kept DEF TInv

\* A command is put into the channel of node n, which has room.
LEMMA Queue ==
    ASSUME TInv, NEW n \in Nodes, NEW x \in Commands, Len(cmds[n]) < CmdCap,
           cmds' = [cmds EXCEPT ![n] = Append(@, x)]
    PROVE  /\ cmds' \in [Nodes -> Seq(Commands)]
           /\ \A k \in Nodes : Len(cmds'[k]) <= CmdCap
           /\ \A k \in Nodes : \A i \in 1 .. Len(cmds[k]) : i \in 1 .. Len(cmds'[k]) /\ cmds'[k][i] = cmds[k][i]
           /\ \A k \in Nodes : \A i \in 1 .. Len(cmds'[k]) :
                 \/ i \in 1 .. Len(cmds[k])
                 \/ k = n /\ i = Len(cmds[n]) + 1
           /\ cmds'[n][Len(cmds[n]) + 1] = x /\ Len(cmds[n]) + 1 \in 1 .. Len(cmds'[n])
           /\ Len(cmds[n]) \in Nat
<1>1. cmds \in [Nodes -> Seq(Commands)]
  BY DEF TInv, LoopsTyped
<1>2. \A k \in Nodes : Len(cmds'[k]) <= CmdCap
  <2>1. Len(cmds[n]) \in Nat /\ Len(cmds'[n]) = Len(cmds[n]) + 1 /\ \A k \in Nodes : k # n => cmds'[k] = cmds[k]
    BY <1>1, Added
  <2>2. Len(cmds'[n]) <= CmdCap
    BY <2>1, Consts
  <2> QED BY <2>1, <2>2 DEF TInv, Capacities
<1> QED BY <1>1, <1>2, Added

\* The same for the requests.
LEMMA QueueRequest ==
    ASSUME TInv, NEW n \in Nodes, NEW x \in Inbound, Len(inbound[n]) < InboundCap,
           inbound' = [inbound EXCEPT ![n] = Append(@, x)]
    PROVE  /\ inbound' \in [Nodes -> Seq(Inbound)]
           /\ \A k \in Nodes : Len(inbound'[k]) <= InboundCap
           /\ \A k \in Nodes : \A i \in 1 .. Len(inbound[k]) :
                 i \in 1 .. Len(inbound'[k]) /\ inbound'[k][i] = inbound[k][i]
           /\ \A k \in Nodes : \A i \in 1 .. Len(inbound'[k]) :
                 \/ i \in 1 .. Len(inbound[k])
                 \/ k = n /\ i = Len(inbound[n]) + 1
           /\ inbound'[n][Len(inbound[n]) + 1] = x /\ Len(inbound[n]) + 1 \in 1 .. Len(inbound'[n])
           /\ Len(inbound[n]) \in Nat
<1>1. inbound \in [Nodes -> Seq(Inbound)]
  BY DEF TInv, LoopsTyped
<1>2. \A k \in Nodes : Len(inbound'[k]) <= InboundCap
  <2>1. /\ Len(inbound[n]) \in Nat /\ Len(inbound'[n]) = Len(inbound[n]) + 1
        /\ \A k \in Nodes : k # n => inbound'[k] = inbound[k]
    BY <1>1, Added
  <2>2. Len(inbound'[n]) <= InboundCap
    BY <2>1, Consts
  <2> QED BY <2>1, <2>2 DEF TInv, Capacities
<1> QED BY <1>1, <1>2, Added

\* A call enters the channel of the event loop.
LEMMA TSendCommand == ASSUME TInv, NEW c \in Calls, SendCommand(c) PROVE TInv'
<1> DEFINE n == From(c)
           x == [op |-> call[c].op, call |-> c]
<1>1. UNCHANGED <<result, user, core, net, inbound, events, reqres, ran, opened, call>>
  BY DEF SendCommand
<1>2. n \in Nodes /\ x \in Commands
  BY CallFacts, CommandFacts DEF TInv
<1>3. Len(cmds[n]) < CmdCap /\ cmds' = [cmds EXCEPT ![n] = Append(@, x)]
  BY DEF SendCommand
<1>4. x.call = c
  OBVIOUS
<1>5. n = From(c)
  OBVIOUS
<1> HIDE DEF n, x
<1>6. CallsTyped'
  <2>1. phase' \in [Calls -> Phases]
    BY DEF SendCommand, TInv, CallsTyped, Phases
  <2> QED BY <1>1, <2>1 DEF TInv, CallsTyped
<1>7. LoopsTyped' /\ Capacities'
  BY <1>1, <1>2, <1>3, Queue DEF TInv, LoopsTyped, Capacities
<1>8. OwnCommands'
  <2> SUFFICES ASSUME NEW k \in Nodes, NEW i \in 1 .. Len(cmds'[k]), cmds'[k][i].op = "SendData"
               PROVE  From(cmds'[k][i].call) = k
    BY <1>1 DEF OwnCommands, From
  <2>1. CASE i \in 1 .. Len(cmds[k])
    <3>1. cmds'[k][i] = cmds[k][i]
      BY <1>2, <1>3, <2>1, Queue
    <3> QED BY <2>1, <3>1 DEF TInv, OwnCommands
  <2>2. CASE k = n /\ i = Len(cmds[n]) + 1
    BY <1>2, <1>3, <1>4, <1>5, <2>2, Queue
  <2> QED BY <1>2, <1>3, <2>1, <2>2, Queue
<1> QED BY <1>1, <1>6, <1>7, <1>8, Kept DEF TInv

\* What Deliver does to the caller.
LEMMA DeliverTyped ==
    ASSUME TInv, NEW c \in Calls, NEW r, Deliver(c, r) \/ UNCHANGED callers, UNCHANGED <<user, ran, call>>
    PROVE  CallsTyped'
BY DEF Deliver, callers, TInv, CallsTyped, Phases

\* A caller gives up.
LEMMA TResponseTimeout == ASSUME TInv, NEW c \in Calls, ResponseTimeout(c) PROVE TInv'
<1>1. UNCHANGED <<user, core, net, cmds, inbound, events, reqres, ran, opened, call>> /\ Deliver(c, NoAnswer)
  BY DEF ResponseTimeout
<1>2. CallsTyped'
  BY <1>1, DeliverTyped
<1> QED BY <1>1, <1>2, Kept DEF TInv

\* Core.
LEMMA TRouteExecRemote == ASSUME TInv, NEW n \in Nodes, RouteExecRemote(n) PROVE TInv'
<1> DEFINE c == Head(user[n])
<1>1. UNCHANGED <<result, net, cmds, inbound, events, reqres, ran, opened, call>>
  BY DEF RouteExecRemote
<1>2. user' \in [Nodes -> Seq(Calls \cup {"quit"})] /\ c \in Calls
  <2>1. user \in [Nodes -> Seq(Calls \cup {"quit"})]
    BY DEF TInv, CallsTyped
  <2> QED BY <2>1, Taken DEF RouteExecRemote
<1> HIDE DEF c
<1>3. \/ phase' = [phase EXCEPT ![c] = "sending"] /\ core' = [core EXCEPT ![n] = [at |-> "call", call |-> c]]
      \/ phase' = [phase EXCEPT ![c] = "done"] /\ core' = core
  BY DEF RouteExecRemote, c
<1>4. CallsTyped'
  <2>1. phase' \in [Calls -> Phases]
    BY <1>3 DEF TInv, CallsTyped, Phases
  <2> QED BY <1>1, <1>2, <2>1 DEF TInv, CallsTyped
<1>5. LoopsTyped' /\ Capacities'
  <2>1. [at |-> "call", call |-> c] \in CoreStates
    BY <1>2 DEF CoreStates
  <2>2. core' \in [Nodes -> CoreStates]
    BY <1>3, <2>1 DEF TInv, LoopsTyped
  <2> QED BY <1>1, <2>2 DEF TInv, LoopsTyped, Capacities
<1> QED BY <1>1, <1>4, <1>5, Kept DEF TInv

\* Core is back in its select.
LEMMA TCoreResume == ASSUME TInv, NEW n \in Nodes, CoreResume(n) PROVE TInv'
<1>1. UNCHANGED <<phase, result, user, net, cmds, inbound, events, reqres, ran, opened, call>>
  BY DEF CoreResume, callers
<1>2. core' \in [Nodes -> CoreStates]
  BY StateFacts DEF CoreResume, TInv, LoopsTyped
<1>3. LoopsTyped' /\ Capacities'
  BY <1>1, <1>2 DEF TInv, LoopsTyped, Capacities
<1> QED BY <1>1, <1>3, Kept DEF TInv

\* Core takes a request from its channel, and may hold an answer.
LEMMA TRouteInbound == ASSUME TInv, NEW n \in Nodes, RouteInbound(n) PROVE TInv'
<1> DEFINE req == Head(inbound[n])
<1>1. UNCHANGED <<phase, result, user, net, cmds, events, reqres, opened, call>>
  BY DEF RouteInbound, callers
<1>2. /\ inbound' \in [Nodes -> Seq(Inbound)] /\ req \in Inbound
      /\ Len(inbound[n]) \in Nat /\ Len(inbound'[n]) = Len(inbound[n]) - 1
      /\ \A k \in Nodes : k # n => inbound'[k] = inbound[k]
  <2>1. inbound \in [Nodes -> Seq(Inbound)]
    BY DEF TInv, LoopsTyped
  <2> QED BY <2>1, Taken DEF RouteInbound
<1>3. req.id \in Nat /\ req.call \in Calls
  BY <1>2 DEF Inbound
<1> HIDE DEF req
<1>4. PICK d \in Replies :
        /\ core' = core \/ core' = [core EXCEPT ![n] = [at |-> "reply", id |-> req.id, data |-> d]]
        /\ ran' = ran \/ ran' = [ran EXCEPT ![req.call] = @ + 1]
  BY DEF RouteInbound, Replies, req
<1>5. CallsTyped'
  <2>1. ran' \in [Calls -> Nat]
    BY <1>3, <1>4 DEF TInv, CallsTyped
  <2> QED BY <1>1, <2>1 DEF TInv, CallsTyped
<1>6. LoopsTyped' /\ Capacities'
  <2>1. [at |-> "reply", id |-> req.id, data |-> d] \in CoreStates
    BY <1>3 DEF CoreStates
  <2>2. core' \in [Nodes -> CoreStates]
    BY <1>4, <2>1 DEF TInv, LoopsTyped
  <2>3. \A k \in Nodes : Len(inbound'[k]) <= InboundCap
    BY <1>2, Consts DEF TInv, Capacities
  <2> QED BY <1>1, <1>2, <2>2, <2>3 DEF TInv, LoopsTyped, Capacities
<1> QED BY <1>1, <1>5, <1>6, Kept DEF TInv

\* The answer goes into the channel of the event loop.
LEMMA TCoreReply == ASSUME TInv, NEW n \in Nodes, CoreReply(n) PROVE TInv'
<1> DEFINE x == [op |-> "SendResponse", id |-> core[n].id, data |-> core[n].data]
<1>1. UNCHANGED <<phase, result, user, net, inbound, events, reqres, ran, opened, call>>
  BY DEF CoreReply, callers
<1>2. x \in Commands /\ x.op = "SendResponse"
  BY StateFacts, CommandFacts DEF TInv, LoopsTyped, CoreReply
<1>3. Len(cmds[n]) < CmdCap /\ cmds' = [cmds EXCEPT ![n] = Append(@, x)] /\ core' = [core EXCEPT ![n] = Select]
  BY DEF CoreReply
<1> HIDE DEF x
<1>4. core' \in [Nodes -> CoreStates]
  BY <1>3, StateFacts DEF TInv, LoopsTyped
<1>5. LoopsTyped' /\ Capacities'
  BY <1>1, <1>2, <1>3, <1>4, Queue DEF TInv, LoopsTyped, Capacities
<1>6. OwnCommands'
  <2> SUFFICES ASSUME NEW k \in Nodes, NEW i \in 1 .. Len(cmds'[k]), cmds'[k][i].op = "SendData"
               PROVE  From(cmds'[k][i].call) = k
    BY <1>1 DEF OwnCommands, From
  <2>1. i \in 1 .. Len(cmds[k])
    BY <1>2, <1>3, Queue
  <2>2. cmds'[k][i] = cmds[k][i]
    BY <1>2, <1>3, <2>1, Queue
  <2> QED BY <2>1, <2>2 DEF TInv, OwnCommands
<1> QED BY <1>1, <1>5, <1>6, Kept DEF TInv

\* Core takes a stream.
LEMMA TRouteStream == ASSUME TInv, NEW n \in Nodes, RouteStream(n) PROVE TInv'
<1>1. UNCHANGED <<phase, result, user, core, net, cmds, inbound, reqres, ran, opened, call>>
  BY DEF RouteStream, callers
<1>2. events' \in [Nodes -> Nat] /\ \A k \in Nodes : events'[k] <= EventCap
  BY Consts DEF RouteStream, TInv, LoopsTyped, Capacities
<1>3. LoopsTyped' /\ Capacities'
  BY <1>1, <1>2 DEF TInv, LoopsTyped, Capacities
<1> QED BY <1>1, <1>3, Kept DEF TInv

\* A node that quits holds nothing.
LEMMA TQuit == ASSUME TInv, NEW n \in Nodes, Quit(n) PROVE TInv'
<1>1. UNCHANGED <<result, next_inbound_id, wire, ran, opened, call>>
  BY DEF Quit
<1>2. CallsTyped'
  <2>1. phase' \in [Calls -> Phases]
    BY DEF Quit, TInv, CallsTyped, Phases
  <2>2. user' \in [Nodes -> Seq(Calls \cup {"quit"})]
    BY DEF Quit, TInv, CallsTyped
  <2> QED BY <1>1, <2>1, <2>2 DEF TInv, CallsTyped
<1>3. LoopsTyped'
  <2>1. core' \in [Nodes -> CoreStates] /\ net' \in [Nodes -> NetStates]
    BY StateFacts DEF Quit, TInv, LoopsTyped
  <2>2. cmds' \in [Nodes -> Seq(Commands)] /\ inbound' \in [Nodes -> Seq(Inbound)] /\ events' \in [Nodes -> Nat]
    BY DEF Quit, TInv, LoopsTyped
  <2> QED BY <1>1, <2>1, <2>2 DEF TInv, LoopsTyped
<1>4. /\ \A k \in Nodes : k # n => cmds'[k] = cmds[k] /\ inbound'[k] = inbound[k] /\ events'[k] = events[k]
      /\ cmds'[n] = <<>> /\ inbound'[n] = <<>> /\ events'[n] = 0
  BY DEF Quit, TInv, LoopsTyped
<1>5. Capacities'
  BY <1>4, Consts DEF TInv, Capacities
<1>6. OwnCommands'
  BY <1>1, <1>4 DEF TInv, OwnCommands, From
<1>7. OnTheWire'
  BY <1>1 DEF TInv, OnTheWire, Request
<1>8. TablesTyped'
  <2>1. DOMAIN pending_replies' = Nodes /\ DOMAIN pending_responses' = Nodes /\ tracked' \subseteq Calls
    BY DEF Quit, TInv, TablesTyped
  <2>2. (\A k \in Nodes : k # n => pending_replies'[k] = pending_replies[k]) /\ pending_replies'[n] = <<>>
    BY DEF Quit, TInv, TablesTyped
  <2> QED BY <1>1, <2>1, <2>2 DEF TInv, TablesTyped
<1>9. ResponsesTracked'
  <2>1. (\A k \in Nodes : k # n => pending_responses'[k] = pending_responses[k]) /\ pending_responses'[n] = {}
    BY DEF Quit, TInv, TablesTyped
  <2>2. tracked' = tracked \ OwnCalls(n) /\ \A k \in Nodes : OwnCalls(k)' = OwnCalls(k)
    BY <1>1 DEF Quit, OwnCalls, From
  <2>3. \A k \in Nodes : k # n => OwnCalls(k) \cap OwnCalls(n) = {}
    BY DEF OwnCalls
  <2> QED BY <2>1, <2>2, <2>3 DEF TInv, ResponsesTracked
<1> QED BY <1>2, <1>3, <1>5, <1>6, <1>7, <1>8, <1>9 DEF TInv

\* The event loop.  A message is a request as the caller wrote it, or an answer.
LEMMA WireFacts ==
    ASSUME OnTheWire, NEW m \in wire
    PROVE  /\ m.call \in Calls /\ m.kind \in {"request", "response"}
           /\ m.kind = "request" => m = Request(m.call)
           /\ m.kind = "response" => \E d \in Answers : m.frame = Write_Frame(d)
<1>1. CASE \E c \in Calls : m = Request(c)
  BY <1>1 DEF Request
<1>2. CASE \E c \in Calls, d \in Answers : m = [kind |-> "response", call |-> c, frame |-> Write_Frame(d)]
  <2>1. PICK c \in Calls, d \in Answers : m = [kind |-> "response", call |-> c, frame |-> Write_Frame(d)]
    BY <1>2
  <2>2. m.kind = "response" /\ m.call = c /\ m.frame = Write_Frame(d)
    BY <2>1
  <2> QED BY <2>2
<1> QED BY <1>1, <1>2 DEF OnTheWire

\* What Response makes is an answer to a call.
LEMMA ResponseFacts ==
    ASSUME tracked \subseteq Calls, NEW c, NEW d \in Answers, NEW m \in Response(c, d)
    PROVE  c \in Calls /\ m = [kind |-> "response", call |-> c, frame |-> Write_Frame(d)] /\ m.kind = "response"
           /\ m.call = c /\ m.frame = Write_Frame(d)
<1>1. c \in Calls /\ m = [kind |-> "response", call |-> c, frame |-> Write_Frame(d)]
  BY DEF Response
<1> QED BY <1>1

\* A request is tracked when it is sent; an answer takes its channel from the table.
LEMMA THandleCommand == ASSUME TInv, NEW n \in Nodes, HandleCommand(n) PROVE TInv'
<1> DEFINE x == Head(cmds[n])
<1>1. UNCHANGED <<phase, result, user, core, net, inbound, events, next_inbound_id, ran, opened, call>>
  BY DEF HandleCommand, callers
<1>2. /\ cmds' \in [Nodes -> Seq(Commands)] /\ x \in Commands /\ x = cmds[n][1] /\ 1 \in 1 .. Len(cmds[n])
      /\ Len(cmds[n]) \in Nat /\ Len(cmds'[n]) = Len(cmds[n]) - 1
      /\ \A k \in Nodes : k # n => cmds'[k] = cmds[k]
      /\ \A i \in 1 .. Len(cmds'[n]) : i + 1 \in 1 .. Len(cmds[n]) /\ cmds'[n][i] = cmds[n][i + 1]
  <2>1. cmds \in [Nodes -> Seq(Commands)]
    BY DEF TInv, LoopsTyped
  <2> QED BY <2>1, Taken DEF HandleCommand
<1> HIDE DEF x
<1>3. CallsTyped'
  BY <1>1, Kept
<1>4. LoopsTyped' /\ Capacities'
  <2>1. \A k \in Nodes : Len(cmds'[k]) <= CmdCap
    BY <1>2, Consts DEF TInv, Capacities
  <2> QED BY <1>1, <1>2, <2>1 DEF TInv, LoopsTyped, Capacities
<1>5. OwnCommands'
  <2> SUFFICES ASSUME NEW k \in Nodes, NEW i \in 1 .. Len(cmds'[k]), cmds'[k][i].op = "SendData"
               PROVE  From(cmds'[k][i].call) = k
    BY <1>1 DEF OwnCommands, From
  <2> QED BY <1>2 DEF TInv, OwnCommands
<1>6. CASE /\ x.op = "SendData" /\ wire' = wire \cup {Request(x.call)} /\ tracked' = tracked \cup {x.call}
           /\ pending_responses' = [pending_responses EXCEPT ![n] = @ \cup {x.call}]
           /\ UNCHANGED pending_replies
  <2>1. x.call \in Calls /\ From(x.call) = n
    BY <1>2, <1>6, CommandFacts DEF TInv, OwnCommands
  <2>2. OnTheWire'
    BY <1>1, <1>6, <2>1 DEF TInv, OnTheWire, Request
  <2>3. TablesTyped'
    BY <1>1, <1>6, <2>1 DEF TInv, TablesTyped
  <2>4. ResponsesTracked'
    <3>1. pending_responses'[n] = pending_responses[n] \cup {x.call} /\ \A k \in Nodes : k # n => pending_responses'[k] = pending_responses[k]
      BY <1>6 DEF TInv, TablesTyped
    <3>2. \A k \in Nodes : OwnCalls(k)' = OwnCalls(k) /\ (x.call \in OwnCalls(k) <=> k = n)
      BY <1>1, <2>1 DEF OwnCalls, From
    <3> QED BY <1>6, <3>1, <3>2 DEF TInv, ResponsesTracked
  <2> QED BY <1>3, <1>4, <1>5, <2>2, <2>3, <2>4 DEF TInv
<1>7. CASE /\ x.op = "SendResponse"
           /\ wire' = wire \cup UNION {Response(pending_replies[n][id], x.data) :
                                        id \in {x.id} \cap DOMAIN pending_replies[n]}
           /\ pending_replies' = Take_Reply_Channel(n, x.id)
           /\ UNCHANGED <<tracked, pending_responses>>
  <2>1. x.data \in Answers
    BY <1>2, <1>7, CommandFacts
  <2>2. OnTheWire'
    <3> SUFFICES ASSUME NEW m \in wire'
                 PROVE  \/ \E c \in Calls : m = Request(c)
                        \/ \E c \in Calls, d \in Answers :
                              m = [kind |-> "response", call |-> c, frame |-> Write_Frame(d)]
      BY <1>1 DEF OnTheWire, Request
    <3>1. CASE m \in wire
      BY <3>1 DEF TInv, OnTheWire
    <3>2. CASE m \notin wire
      <4>1. PICK id \in DOMAIN pending_replies[n] : m \in Response(pending_replies[n][id], x.data)
        BY <1>7, <3>2
      <4> QED BY <2>1, <4>1, ResponseFacts DEF TInv, TablesTyped
    <3> QED BY <3>1, <3>2
  <2>3. TablesTyped'
    <3>1. /\ pending_replies'[n] = [id \in DOMAIN pending_replies[n] \ {x.id} |-> pending_replies[n][id]]
          /\ DOMAIN pending_replies' = Nodes
          /\ \A k \in Nodes : k # n => pending_replies'[k] = pending_replies[k]
      BY <1>7 DEF Take_Reply_Channel, Restrict, TInv, TablesTyped
    <3> QED BY <1>1, <1>7, <3>1 DEF TInv, TablesTyped
  <2>4. ResponsesTracked'
    BY <1>1, <1>7 DEF TInv, ResponsesTracked, OwnCalls, From
  <2> QED BY <1>3, <1>4, <1>5, <2>2, <2>3, <2>4 DEF TInv
<1>8. CASE x.op = "Other" /\ UNCHANGED <<wire, tracked, pending_replies, pending_responses>>
  <2>1. UNCHANGED reqres
    BY <1>1, <1>8 DEF reqres
  <2> QED BY <1>1, <1>3, <1>4, <1>5, <2>1, Kept DEF TInv
<1> QED BY <1>6, <1>7, <1>8 DEF HandleCommand, x

\* A request handed to Core is in its channel, or waits at the event loop.
LEMMA Handed ==
    ASSUME TInv, NEW n \in Nodes, net[n] = Select, NEW r \in Inbound, HandToCore(n, r),
           UNCHANGED <<core, cmds, events, opened, call>>
    PROVE  LoopsTyped' /\ Capacities'
<1>1. CASE Len(inbound[n]) < InboundCap
  <2>1. inbound' = [inbound EXCEPT ![n] = Append(@, r)] /\ net' = net
    BY <1>1 DEF HandToCore
  <2> QED BY <1>1, <2>1, QueueRequest DEF TInv, LoopsTyped, Capacities
<1>2. CASE ~(Len(inbound[n]) < InboundCap)
  <2>1. net' = [net EXCEPT ![n] = [at |-> "forward", req |-> r]] /\ inbound' = inbound
    BY <1>2 DEF HandToCore
  <2>2. [at |-> "forward", req |-> r] \in NetStates
    BY DEF NetStates
  <2>3. net' \in [Nodes -> NetStates]
    BY <2>1, <2>2 DEF TInv, LoopsTyped
  <2> QED BY <2>1, <2>3 DEF TInv, LoopsTyped, Capacities
<1> QED BY <1>1, <1>2

\* What the event loop reads from a request.
LEMMA RequestRead ==
    ASSUME TInv, NEW m \in wire, m.kind = "request"
    PROVE  /\ m.call \in Calls /\ m = Request(m.call)
           /\ Read_Frame(m.frame) # BadFrame =>
                 /\ Read_Frame(m.frame).data_type = call[m.call].data.data_type
                 /\ Read_Frame(m.frame).payload = call[m.call].data.payload
                 /\ Read_Frame(m.frame).data_type \in DOMAIN DataTypes
                 /\ Read_Frame(m.frame).payload \in Payloads
<1>1. m.call \in Calls /\ m = Request(m.call)
  BY WireFacts DEF TInv
<1>2. m.frame = Write_Frame(call[m.call].data)
  BY <1>1 DEF Request
<1>3. call[m.call].data.data_type \in DOMAIN DataTypes /\ call[m.call].data.payload \in Payloads
  BY <1>1, CallFacts DEF TInv
<1> QED BY <1>1, <1>2, <1>3, FrameFacts

\* What becomes of a request when it arrives.
LEMMA TRequestEvent == ASSUME TInv, NEW n \in Nodes, NEW m \in wire, RequestEvent(n, m) PROVE TInv'
<1> DEFINE d == Read_Frame(m.frame)
           c == m.call
<1> HIDE DEF d
<1>1. /\ UNCHANGED <<phase, result, user, core, cmds, events, pending_responses, tracked, ran, opened, call>>
      /\ net[n] = Select /\ m.kind = "request" /\ To(c) = n
  BY DEF RequestEvent, callers
<1>2. /\ c \in Calls
      /\ d # BadFrame => /\ d.data_type = call[c].data.data_type /\ d.payload = call[c].data.payload
                         /\ d.data_type \in DOMAIN DataTypes /\ d.payload \in Payloads
  BY <1>1, RequestRead DEF d
<1>3. CallsTyped' /\ OwnCommands'
  BY <1>1, Kept
<1>4. ResponsesTracked'
  BY <1>1 DEF TInv, ResponsesTracked, OwnCalls, From
<1>5. wire' \subseteq wire => OnTheWire'
  BY <1>1 DEF TInv, OnTheWire, Request
<1>6. CASE d = BadFrame /\ wire' = wire \ {m} /\ UNCHANGED <<net, inbound, pending_replies, next_inbound_id>>
  <2>1. TablesTyped' /\ LoopsTyped' /\ Capacities'
    BY <1>1, <1>6 DEF TInv, TablesTyped, LoopsTyped, Capacities
  <2> QED BY <1>3, <1>4, <1>5, <1>6, <2>1 DEF TInv
<1>7. CASE /\ d # BadFrame /\ d.data_type \in {"Data", "Info"}
           /\ wire' = (wire \ {m}) \cup Response(c, [data_type |-> d.data_type, payload |-> <<"OK">>, size |-> 1])
           /\ UNCHANGED <<net, inbound, pending_replies, next_inbound_id>>
  <2>1. TablesTyped' /\ LoopsTyped' /\ Capacities'
    BY <1>1, <1>7 DEF TInv, TablesTyped, LoopsTyped, Capacities
  <2>2. [data_type |-> d.data_type, payload |-> <<"OK">>, size |-> 1] \in Answers
    BY <1>2, <1>7 DEF Answers
  <2>3. OnTheWire'
    <3> SUFFICES ASSUME NEW x \in wire'
                 PROVE  \/ \E e \in Calls : x = Request(e)
                        \/ \E e \in Calls, a \in Answers :
                              x = [kind |-> "response", call |-> e, frame |-> Write_Frame(a)]
      BY <1>1 DEF OnTheWire, Request
    <3>1. CASE x \in wire
      BY <3>1 DEF TInv, OnTheWire
    <3>2. CASE x \notin wire
      BY <1>2, <1>7, <2>2, <3>2, ResponseFacts DEF TInv, TablesTyped
    <3> QED BY <3>1, <3>2
  <2> QED BY <1>3, <1>4, <2>1, <2>3 DEF TInv
<1>8. CASE /\ d # BadFrame /\ d.data_type \in {"Command", "File"} /\ wire' = wire \ {m}
           /\ Register_Inbound(n, c, d)
  <2> DEFINE id == next_inbound_id[n]
             r == [id |-> id, data_type |-> d.data_type, payload |-> d.payload, call |-> c]
  <2>1. id \in Nat /\ r \in Inbound
    BY <1>2, <1>8 DEF TInv, TablesTyped, Inbound
  <2>2. HandToCore(n, r)
    BY <1>8 DEF Register_Inbound
  <2> HIDE DEF r
  <2>3. LoopsTyped' /\ Capacities'
    BY <1>1, <2>1, <2>2, Handed
  <2>4. TablesTyped'
    <3>1. /\ next_inbound_id' \in [Nodes -> Nat \ {0}] /\ next_inbound_id'[n] = id + 1
          /\ \A k \in Nodes : k # n => next_inbound_id'[k] = next_inbound_id[k]
      BY <1>8 DEF Register_Inbound, TInv, TablesTyped
    <3>2. /\ pending_replies'[n] = [i \in DOMAIN pending_replies[n] \cup {id} |->
                                      IF i = id THEN c ELSE pending_replies[n][i]]
          /\ DOMAIN pending_replies' = Nodes
          /\ \A k \in Nodes : k # n => pending_replies'[k] = pending_replies[k]
      BY <1>8 DEF Register_Inbound, TInv, TablesTyped
    <3>3. DOMAIN pending_replies'[n] \subseteq 1 .. next_inbound_id'[n] - 1
      <4>1. \A i \in DOMAIN pending_replies[n] : i \in 1 .. id - 1
        BY DEF TInv, TablesTyped
      <4>2. DOMAIN pending_replies'[n] = DOMAIN pending_replies[n] \cup {id} /\ id >= 1
        BY <3>2 DEF TInv, TablesTyped
      <4> HIDE DEF id
      <4> QED BY <2>1, <3>1, <4>1, <4>2
    <3>4. \A i \in DOMAIN pending_replies'[n] : pending_replies'[n][i] \in Calls
      <4>1. \A i \in DOMAIN pending_replies[n] : pending_replies[n][i] \in Calls
        BY DEF TInv, TablesTyped
      <4> QED BY <1>2, <3>2, <4>1
    <3> QED BY <1>1, <3>1, <3>2, <3>3, <3>4 DEF TInv, TablesTyped
  <2> QED BY <1>3, <1>4, <1>5, <1>8, <2>3, <2>4 DEF TInv
<1> QED BY <1>6, <1>7, <1>8 DEF RequestEvent, d

\* The event loop hands over the request it waited with.
LEMMA TForward == ASSUME TInv, NEW n \in Nodes, Forward(n) PROVE TInv'
<1>1. UNCHANGED <<phase, result, user, core, cmds, events, reqres, ran, opened, call>>
  BY DEF Forward, callers
<1>2. net[n].req \in Inbound
  BY StateFacts DEF TInv, LoopsTyped, Forward
<1>3. /\ Len(inbound[n]) < InboundCap /\ inbound' = [inbound EXCEPT ![n] = Append(@, net[n].req)]
      /\ net' = [net EXCEPT ![n] = Select]
  BY DEF Forward
<1>4. net' \in [Nodes -> NetStates]
  BY <1>3, StateFacts DEF TInv, LoopsTyped
<1>5. LoopsTyped' /\ Capacities'
  BY <1>1, <1>2, <1>3, <1>4, QueueRequest DEF TInv, LoopsTyped, Capacities
<1> QED BY <1>1, <1>5, Kept DEF TInv

\* A report of libp2p about a call takes the entry of the call with it.
LEMMA Reported ==
    ASSUME TInv, NEW c \in Calls, UNCHANGED call, tracked' = tracked \ {c},
           pending_responses' = [pending_responses EXCEPT ![From(c)] = @ \ {c}],
           UNCHANGED <<pending_replies, next_inbound_id>>
    PROVE  TablesTyped' /\ ResponsesTracked'
<1>1. From(c) \in Nodes
  BY CallFacts DEF TInv
<1>2. TablesTyped'
  BY <1>1 DEF TInv, TablesTyped
<1>3. ResponsesTracked'
  <2>1. /\ pending_responses'[From(c)] = pending_responses[From(c)] \ {c}
        /\ \A k \in Nodes : k # From(c) => pending_responses'[k] = pending_responses[k]
    BY <1>1 DEF TInv, TablesTyped
  <2>2. \A k \in Nodes : OwnCalls(k)' = OwnCalls(k) /\ (c \in OwnCalls(k) => k = From(c))
    BY DEF OwnCalls, From
  <2> QED BY <2>1, <2>2 DEF TInv, ResponsesTracked
<1> QED BY <1>2, <1>3

\* An answer arrives.
LEMMA TResponseEvent == ASSUME TInv, NEW n \in Nodes, NEW m \in wire, ResponseEvent(n, m) PROVE TInv'
<1>1. /\ UNCHANGED <<user, core, net, cmds, inbound, events, pending_replies, next_inbound_id, ran, opened, call>>
      /\ tracked' = tracked \ {m.call} /\ wire' = wire \ {m}
  BY DEF ResponseEvent
<1>2. m.call \in Calls
  BY WireFacts DEF TInv
<1>3. /\ pending_responses' = [pending_responses EXCEPT ![From(m.call)] = @ \ {m.call}]
      /\ Deliver(m.call, Read_Frame(m.frame)) \/ Deliver(m.call, NoAnswer) \/ UNCHANGED callers
  BY DEF ResponseEvent, Route_Response, Route_Failure
<1>4. CallsTyped'
  BY <1>1, <1>2, <1>3, DeliverTyped
<1>5. OnTheWire'
  BY <1>1 DEF TInv, OnTheWire, Request
<1> QED BY <1>1, <1>2, <1>3, <1>4, <1>5, Kept, Reported DEF TInv

\* A request failed.
LEMMA TFailureEvent == ASSUME TInv, NEW n \in Nodes, NEW c \in Calls, FailureEvent(n, c) PROVE TInv'
<1>1. /\ UNCHANGED <<user, core, net, cmds, inbound, events, pending_replies, next_inbound_id, ran, opened, call>>
      /\ tracked' = tracked \ {c} /\ wire' \subseteq wire
  BY DEF FailureEvent
<1>2. /\ pending_responses' = [pending_responses EXCEPT ![From(c)] = @ \ {c}]
      /\ Deliver(c, NoAnswer) \/ UNCHANGED callers
  BY DEF FailureEvent, Route_Failure
<1>3. CallsTyped'
  BY <1>1, <1>2, DeliverTyped
<1>4. OnTheWire'
  BY <1>1 DEF TInv, OnTheWire, Request
<1> QED BY <1>1, <1>2, <1>3, <1>4, Kept, Reported DEF TInv

\* Streams.
LEMMA TStreams ==
    ASSUME TInv, NEW n \in Nodes, StreamArrives(n) \/ StreamRead(n) \/ ForwardStream(n)
    PROVE  TInv'
<1>1. UNCHANGED <<phase, result, user, core, cmds, inbound, reqres, ran, call>>
  BY DEF StreamArrives, StreamRead, ForwardStream, callers
<1>2. \A at \in {"select", "reading", "event"} : [at |-> at] \in NetStates
  BY DEF NetStates
<1>3. net' \in [Nodes -> NetStates]
  <2>1. \E x \in NetStates : net' = [net EXCEPT ![n] = x]
    <3>1. CASE StreamArrives(n)
      BY <1>2, <3>1 DEF StreamArrives
    <3>2. CASE StreamRead(n)
      BY <1>2, <3>2 DEF StreamRead
    <3>3. CASE ForwardStream(n)
      BY <3>3, StateFacts DEF ForwardStream
    <3> QED BY <3>1, <3>2, <3>3
  <2> QED BY <2>1 DEF TInv, LoopsTyped
<1>4. events' \in [Nodes -> Nat] /\ \A k \in Nodes : events'[k] <= EventCap
  <2>1. events' = events \/ (events[n] < EventCap /\ events' = [events EXCEPT ![n] = @ + 1])
    BY DEF StreamArrives, StreamRead, ForwardStream
  <2>2. events \in [Nodes -> Nat] /\ \A k \in Nodes : events[k] <= EventCap
    BY DEF TInv, LoopsTyped, Capacities
  <2> QED BY <2>1, <2>2, Consts
<1>5. opened' \subseteq Hosts
  BY DEF StreamArrives, StreamRead, ForwardStream, TInv, LoopsTyped
<1>6. LoopsTyped' /\ Capacities'
  BY <1>1, <1>3, <1>4, <1>5 DEF TInv, LoopsTyped, Capacities
<1> QED BY <1>1, <1>6, Kept DEF TInv

\* TInv is inductive.
LEMMA NextTInv == TInv /\ [Next]_vars => TInv'
<1> SUFFICES ASSUME TInv, [Next]_vars PROVE TInv'
  OBVIOUS
<1>1. ASSUME NEW c \in Calls, Start(c) \/ SendCommand(c) \/ ResponseTimeout(c) PROVE TInv'
  BY <1>1, TStart, TSendCommand, TResponseTimeout
<1>2. ASSUME NEW n \in Nodes, TypeQuit(n) \/ CoreStep(n) PROVE TInv'
  BY <1>2, TTypeQuit, TRouteExecRemote, TCoreResume, TRouteInbound, TCoreReply, TRouteStream, TQuit DEF CoreStep
<1>3. ASSUME NEW n \in Nodes, LoopStep(n) \/ SwarmEvent(n) \/ StreamArrives(n) \/ StreamRead(n) PROVE TInv'
  BY <1>3, THandleCommand, TForward, TStreams, TRequestEvent, TResponseEvent, TFailureEvent DEF LoopStep, SwarmEvent
<1>4. CASE Done \/ UNCHANGED vars
  <2>1. UNCHANGED vars
    BY <1>4 DEF Done
  <2> QED BY <2>1, Kept DEF vars, callers, TInv
<1> QED BY <1>1, <1>2, <1>3, <1>4 DEF Next

\* TInv holds in every state.
THEOREM NodeInvariance == Spec => []TInv
<1>1. TInv /\ [Next]_vars => TInv'
  BY NextTInv
<1> QED BY <1>1, InitTInv, PTL DEF Spec

\* For any nodes, calls and capacities: no channel of a node ever exceeds its
\* capacity, every loop is where the code can be, a reply channel is only
\* registered under an id that was given out, and what is on the wire was
\* written by a caller or is an answer.
THEOREM ChannelsBounded == Spec => []TypeOK
<1>1. TInv => TypeOK
  <2> SUFFICES ASSUME TInv PROVE TypeOK
    OBVIOUS
  <2>1. phase \in [Calls -> {"new", "queued", "sending", "waiting", "done", "gone"}] /\ ran \in [Calls -> Nat]
    BY DEF TInv, CallsTyped, Phases
  <2>2. ASSUME NEW n \in Nodes
        PROVE  /\ core[n].at \in {"select", "call", "reply", "down"}
               /\ net[n].at \in {"select", "forward", "reading", "event", "down"}
               /\ Len(cmds[n]) <= CmdCap /\ Len(inbound[n]) <= InboundCap /\ events[n] <= EventCap
               /\ ToSet(user[n]) \subseteq Calls \cup {"quit"}
               /\ DOMAIN pending_replies[n] \subseteq 1 .. next_inbound_id[n] - 1
               /\ pending_responses[n] \subseteq OwnCalls(n)
    <3>1. core[n].at \in {"select", "call", "reply", "down"} /\ net[n].at \in {"select", "forward", "reading", "event", "down"}
      BY StateFacts DEF TInv, LoopsTyped
    <3>2. ToSet(user[n]) \subseteq Calls \cup {"quit"}
      <4>1. user[n] \in Seq(Calls \cup {"quit"})
        BY DEF TInv, CallsTyped
      <4> QED BY <4>1 DEF ToSet
    <3>3. DOMAIN pending_replies[n] \subseteq 1 .. next_inbound_id[n] - 1 /\ pending_responses[n] \subseteq OwnCalls(n)
      BY DEF TInv, TablesTyped, ResponsesTracked
    <3> QED BY <3>1, <3>2, <3>3 DEF TInv, Capacities
  <2>3. wire \subseteq Messages
    <3> SUFFICES ASSUME NEW m \in wire PROVE m \in Messages
      OBVIOUS
    <3> DEFINE Written == {call[c].data : c \in Calls} \cup
                             {[data_type |-> t, payload |-> <<p>>, size |-> 1] :
                                t \in DOMAIN DataTypes, p \in {"OK", "FAIL"}}
    <3>1. CASE \E c \in Calls : m = Request(c)
      <4>1. PICK c \in Calls : m = [kind |-> "request", call |-> c, frame |-> Write_Frame(call[c].data)]
        BY <3>1 DEF Request
      <4>2. call[c].data \in Written
        OBVIOUS
      <4> HIDE DEF Written
      <4> QED BY <4>1, <4>2 DEF Messages, Written
    <3>2. CASE \E c \in Calls, d \in Answers : m = [kind |-> "response", call |-> c, frame |-> Write_Frame(d)]
      <4>1. PICK c \in Calls, d \in Answers : m = [kind |-> "response", call |-> c, frame |-> Write_Frame(d)]
        BY <3>2
      <4>2. d = [data_type |-> d.data_type, payload |-> d.payload, size |-> 1]
            /\ d.data_type \in DOMAIN DataTypes /\ d.payload \in {<<"OK">>, <<"FAIL">>}
        BY DEF Answers
      <4>3. d \in Written
        BY <4>2
      <4> HIDE DEF Written
      <4> QED BY <4>1, <4>3 DEF Messages, Written
    <3> QED BY <3>1, <3>2 DEF TInv, OnTheWire
  <2>4. tracked \subseteq Calls /\ opened \subseteq Hosts
    BY DEF TInv, TablesTyped, LoopsTyped
  <2> QED BY <2>1, <2>2, <2>3, <2>4 DEF TypeOK
<1> QED BY <1>1, NodeInvariance, PTL

\* For any nodes, calls and capacities: Outbound_Manager holds an entry for
\* exactly the requests that libp2p will still report on, also after the
\* caller has timed out: the table does not leak.
THEOREM ResponsesNeverLeak == Spec => []ResponsesTracked
<1>1. TInv => ResponsesTracked
  BY DEF TInv
<1> QED BY <1>1, NodeInvariance, PTL

(***************************************************************************)
(* The reply channels.                                                     *)
(***************************************************************************)
\* Initially there is none.
LEMMA InitPInv == Init => PInv
BY StateFacts DEF Init, PInv, RequestsPaired, RepliesOwned

\* The state that PInv is about: RepliesOwned, in terms of positions.
Owned(n, id) ==
    \/ call[pending_replies[n][id]].data.data_type = "File"
    \/ net[n].at = "forward" /\ net[n].req.id = id
    \/ \E i \in 1 .. Len(inbound[n]) : inbound[n][i].id = id
    \/ core[n].at = "reply" /\ core[n].id = id
    \/ \E i \in 1 .. Len(cmds[n]) : cmds[n][i].op = "SendResponse" /\ cmds[n][i].id = id

\* RepliesOwned says Owned of every entry.
LEMMA OwnedMeans ==
    ASSUME LoopsTyped
    PROVE  RepliesOwned <=> \A n \in Nodes : \A id \in DOMAIN pending_replies[n] : Owned(n, id)
<1>1. \A n \in Nodes : DOMAIN inbound[n] = 1 .. Len(inbound[n]) /\ DOMAIN cmds[n] = 1 .. Len(cmds[n])
  BY LenProperties DEF LoopsTyped
<1> QED BY <1>1 DEF RepliesOwned, Owned

\* The same after a step.
LEMMA OwnedNext ==
    ASSUME LoopsTyped', \A n \in Nodes : \A id \in DOMAIN pending_replies'[n] : Owned(n, id)'
    PROVE  RepliesOwned'
<1>1. \A n \in Nodes : DOMAIN inbound'[n] = 1 .. Len(inbound'[n]) /\ DOMAIN cmds'[n] = 1 .. Len(cmds'[n])
  BY LenProperties DEF LoopsTyped
<1> QED BY <1>1 DEF RepliesOwned, Owned

\* A step that leaves the tables and the way of requests and replies alone.
LEMMA PKept ==
    ASSUME PInv, UNCHANGED <<call, core, inbound, cmds, pending_replies, next_inbound_id>>,
           \A n \in Nodes : net'[n] = net[n] \/ (net[n].at # "forward" /\ net'[n].at # "forward")
    PROVE  PInv'
BY DEF PInv, RequestsPaired, RepliesOwned, Paired, To

\* A step of Core that is no reply.
LEMMA PCore ==
    ASSUME TInv, PInv, UNCHANGED <<call, inbound, net, cmds, pending_replies, next_inbound_id>>,
           \A n \in Nodes : core'[n] = core[n] \/ (core[n].at # "reply" /\ core'[n].at # "reply")
    PROVE  PInv'
BY DEF PInv, RequestsPaired, RepliesOwned, Paired, To

\* A request in the channel is no answer.
LEMMA PSendCommand == ASSUME TInv, TInv', PInv, NEW c \in Calls, SendCommand(c) PROVE PInv'
<1> DEFINE n == From(c)
           x == [op |-> call[c].op, call |-> c]
<1>1. UNCHANGED <<core, net, inbound, pending_replies, next_inbound_id, call>>
  BY DEF SendCommand, reqres
<1>2. n \in Nodes /\ x \in Commands /\ x.op # "SendResponse"
  BY CallFacts, CommandFacts DEF TInv
<1>3. Len(cmds[n]) < CmdCap /\ cmds' = [cmds EXCEPT ![n] = Append(@, x)]
  BY DEF SendCommand
<1> HIDE DEF n, x
<1>4. /\ \A k \in Nodes : \A i \in 1 .. Len(cmds[k]) : i \in 1 .. Len(cmds'[k]) /\ cmds'[k][i] = cmds[k][i]
      /\ \A k \in Nodes : \A i \in 1 .. Len(cmds'[k]) : cmds'[k][i].op = "SendResponse" =>
            i \in 1 .. Len(cmds[k]) /\ cmds'[k][i] = cmds[k][i]
  BY <1>2, <1>3, Queue
<1>5. RequestsPaired'
  BY <1>1, <1>4 DEF PInv, RequestsPaired, Paired, To
<1>6. \A k \in Nodes : \A id : Owned(k, id) => Owned(k, id)'
  BY <1>1, <1>4 DEF Owned
<1>7. \A k \in Nodes : \A id \in DOMAIN pending_replies'[k] : Owned(k, id)'
  BY <1>1, <1>6, OwnedMeans DEF PInv, TInv
<1>8. RepliesOwned'
  BY <1>7, OwnedNext DEF TInv
<1> QED BY <1>5, <1>8 DEF PInv

\* Core takes a request: it will reply to a command, and a file request is the
\* one that keeps its reply channel.
LEMMA PRouteInbound == ASSUME TInv, TInv', PInv, NEW n \in Nodes, RouteInbound(n) PROVE PInv'
<1> DEFINE req == Head(inbound[n])
<1>1. UNCHANGED <<net, cmds, pending_replies, next_inbound_id, call>> /\ core[n] = Select /\ inbound[n] # <<>>
  BY DEF RouteInbound, reqres
<1>2. /\ req \in Inbound /\ req = inbound[n][1] /\ 1 \in 1 .. Len(inbound[n])
      /\ \A k \in Nodes : k # n => inbound'[k] = inbound[k]
      /\ \A i \in 1 .. Len(inbound'[n]) : i + 1 \in 1 .. Len(inbound[n]) /\ inbound'[n][i] = inbound[n][i + 1]
      /\ \A i \in 1 .. Len(inbound[n]) : i # 1 => i - 1 \in 1 .. Len(inbound'[n]) /\ inbound'[n][i - 1] = inbound[n][i]
  <2>1. inbound \in [Nodes -> Seq(Inbound)]
    BY DEF TInv, LoopsTyped
  <2> QED BY <2>1, Taken DEF RouteInbound
<1>3. Paired(n, req)
  BY <1>2 DEF PInv, RequestsPaired
<1> HIDE DEF req
<1>4. \/ /\ req.data_type = "Command"
         /\ core'[n].at = "reply" /\ core'[n].id = req.id /\ \A k \in Nodes : k # n => core'[k] = core[k]
      \/ req.data_type = "File" /\ core' = core
  BY DEF RouteInbound, req, TInv, LoopsTyped
<1>5. RequestsPaired'
  <2>1. ASSUME NEW k \in Nodes, NEW i \in 1 .. Len(inbound'[k]) PROVE Paired(k, inbound'[k][i])
    <3>1. CASE k = n
      <4>1. i + 1 \in 1 .. Len(inbound[n]) /\ inbound'[n][i] = inbound[n][i + 1]
        BY <1>2, <3>1
      <4> QED BY <3>1, <4>1 DEF PInv, RequestsPaired
    <3>2. CASE k # n
      BY <1>2, <3>2 DEF PInv, RequestsPaired
    <3> QED BY <3>1, <3>2
  <2>2. ASSUME NEW k \in Nodes, core'[k].at = "reply" PROVE core'[k].id < next_inbound_id[k]
    BY <1>3, <1>4, <2>2 DEF PInv, RequestsPaired, Paired
  <2>3. \A k \in Nodes : \A r : Paired(k, r) => Paired(k, r)'
    BY <1>1 DEF Paired, To
  <2> QED BY <1>1, <2>1, <2>2, <2>3 DEF PInv, RequestsPaired, Paired, To
<1>6. ASSUME NEW k \in Nodes, NEW id \in DOMAIN pending_replies[k] PROVE Owned(k, id)'
  <2>0. Owned(k, id)
    BY OwnedMeans DEF TInv, PInv
  <2>1. CASE k # n
    BY <1>1, <1>2, <1>4, <2>0, <2>1 DEF Owned
  <2>2. CASE k = n
    <3>1. core[n].at # "reply"
      BY <1>1, StateFacts
    <3>2. CASE \E i \in 1 .. Len(inbound[n]) : i # 1 /\ inbound[n][i].id = id
      <4>1. \E i \in 1 .. Len(inbound'[n]) : inbound'[n][i].id = id
        BY <1>2, <3>2
      <4> QED BY <2>2, <4>1 DEF Owned
    <3>3. CASE req.id = id
      BY <1>1, <1>3, <1>4, <2>2, <3>3 DEF Owned, Paired
    <3>4. CASE ~\E i \in 1 .. Len(inbound[n]) : inbound[n][i].id = id
      BY <1>1, <2>0, <2>2, <3>1, <3>4 DEF Owned
    <3> QED BY <1>2, <3>2, <3>3, <3>4
  <2> QED BY <2>1, <2>2
<1>7. RepliesOwned'
  BY <1>1, <1>6, OwnedNext DEF TInv
<1> QED BY <1>5, <1>7 DEF PInv

\* The owner of the entry is the channel instead of Core.
LEMMA PCoreReply == ASSUME TInv, TInv', PInv, NEW n \in Nodes, CoreReply(n) PROVE PInv'
<1> DEFINE x == [op |-> "SendResponse", id |-> core[n].id, data |-> core[n].data]
<1>1. UNCHANGED <<net, inbound, pending_replies, next_inbound_id, call>> /\ core[n].at = "reply"
  BY DEF CoreReply, reqres
<1>2. x \in Commands /\ x.op = "SendResponse" /\ x.id = core[n].id
  BY StateFacts, CommandFacts DEF TInv, LoopsTyped, CoreReply
<1>3. Len(cmds[n]) < CmdCap /\ cmds' = [cmds EXCEPT ![n] = Append(@, x)] /\ core' = [core EXCEPT ![n] = Select]
  BY DEF CoreReply
<1> HIDE DEF x
<1>4. core'[n].at = "select" /\ \A k \in Nodes : k # n => core'[k] = core[k]
  BY <1>3, StateFacts DEF TInv, LoopsTyped
<1>5. /\ \A k \in Nodes : \A i \in 1 .. Len(cmds[k]) : i \in 1 .. Len(cmds'[k]) /\ cmds'[k][i] = cmds[k][i]
      /\ \A k \in Nodes : \A i \in 1 .. Len(cmds'[k]) :
            \/ i \in 1 .. Len(cmds[k]) /\ cmds'[k][i] = cmds[k][i]
            \/ k = n /\ cmds'[k][i] = x
      /\ \E i \in 1 .. Len(cmds'[n]) : cmds'[n][i] = x
  BY <1>2, <1>3, Queue
<1>6. RequestsPaired'
  <2>1. core[n].id < next_inbound_id[n]
    BY <1>1 DEF PInv, RequestsPaired
  <2>2. ASSUME NEW k \in Nodes, NEW i \in 1 .. Len(cmds'[k]), cmds'[k][i].op = "SendResponse"
        PROVE  cmds'[k][i].id < next_inbound_id[k]
    BY <1>2, <1>5, <2>1, <2>2 DEF PInv, RequestsPaired
  <2>3. ASSUME NEW k \in Nodes, core'[k].at = "reply" PROVE core'[k].id < next_inbound_id[k]
    BY <1>4, <2>3 DEF PInv, RequestsPaired
  <2> QED BY <1>1, <2>2, <2>3 DEF PInv, RequestsPaired, Paired, To
<1>7. ASSUME NEW k \in Nodes, NEW id \in DOMAIN pending_replies[k] PROVE Owned(k, id)'
  <2>0. Owned(k, id)
    BY OwnedMeans DEF TInv, PInv
  <2>1. CASE k = n /\ core[n].id = id
    BY <1>2, <1>5, <2>1 DEF Owned
  <2>2. CASE k # n \/ core[n].id # id
    BY <1>1, <1>4, <1>5, <2>0, <2>2 DEF Owned
  <2> QED BY <2>1, <2>2
<1>8. RepliesOwned'
  BY <1>1, <1>7, OwnedNext DEF TInv
<1> QED BY <1>6, <1>8 DEF PInv

\* The entries go with their owners.
LEMMA PQuit == ASSUME TInv, TInv', PInv, NEW n \in Nodes, Quit(n) PROVE PInv'
<1>1. UNCHANGED <<next_inbound_id, call>>
  BY DEF Quit
<1>2. /\ core'[n].at = "down" /\ net'[n].at = "down" /\ Len(cmds'[n]) = 0 /\ Len(inbound'[n]) = 0
      /\ DOMAIN pending_replies'[n] = {}
      /\ \A k \in Nodes : k # n => /\ core'[k] = core[k] /\ net'[k] = net[k] /\ cmds'[k] = cmds[k]
                                   /\ inbound'[k] = inbound[k] /\ pending_replies'[k] = pending_replies[k]
  BY StateFacts DEF Quit, TInv, LoopsTyped, TablesTyped
<1>3. RequestsPaired'
  <2>1. ASSUME NEW k \in Nodes, k # n, NEW r, Paired(k, r) PROVE Paired(k, r)'
    BY <1>1, <1>2, <2>1 DEF Paired, To
  <2> QED BY <1>1, <1>2, <2>1 DEF PInv, RequestsPaired
<1>4. ASSUME NEW k \in Nodes, NEW id \in DOMAIN pending_replies'[k] PROVE Owned(k, id)'
  <2>1. k # n /\ id \in DOMAIN pending_replies[k]
    BY <1>2, <1>4
  <2>2. Owned(k, id)
    BY <2>1, OwnedMeans DEF TInv, PInv
  <2> QED BY <1>1, <1>2, <2>1, <2>2 DEF Owned
<1>5. RepliesOwned'
  BY <1>4, OwnedNext DEF TInv
<1> QED BY <1>3, <1>5 DEF PInv

\* The event loop takes a command: a reply takes its channel with it.
LEMMA PHandleCommand == ASSUME TInv, TInv', PInv, NEW n \in Nodes, HandleCommand(n) PROVE PInv'
<1> DEFINE x == Head(cmds[n])
<1>1. UNCHANGED <<core, net, inbound, next_inbound_id, call>>
  BY DEF HandleCommand
<1>2. /\ x \in Commands /\ x = cmds[n][1] /\ 1 \in 1 .. Len(cmds[n])
      /\ \A k \in Nodes : k # n => cmds'[k] = cmds[k]
      /\ \A i \in 1 .. Len(cmds'[n]) : i + 1 \in 1 .. Len(cmds[n]) /\ cmds'[n][i] = cmds[n][i + 1]
      /\ \A i \in 1 .. Len(cmds[n]) : i # 1 => i - 1 \in 1 .. Len(cmds'[n]) /\ cmds'[n][i - 1] = cmds[n][i]
  <2>1. cmds \in [Nodes -> Seq(Commands)]
    BY DEF TInv, LoopsTyped
  <2> QED BY <2>1, Taken DEF HandleCommand
<1> HIDE DEF x
<1>3. /\ \A k \in Nodes : k # n => pending_replies'[k] = pending_replies[k]
      /\ \A id \in DOMAIN pending_replies'[n] :
            /\ id \in DOMAIN pending_replies[n] /\ pending_replies'[n][id] = pending_replies[n][id]
            /\ ~(x.op = "SendResponse" /\ x.id = id)
  <2>1. CASE x.op = "SendResponse"
    <3>1. pending_replies' = Take_Reply_Channel(n, x.id)
      BY <2>1 DEF HandleCommand, x
    <3>2. /\ pending_replies'[n] = [id \in DOMAIN pending_replies[n] \ {x.id} |-> pending_replies[n][id]]
          /\ \A k \in Nodes : k # n => pending_replies'[k] = pending_replies[k]
      BY <3>1 DEF Take_Reply_Channel, Restrict, TInv, TablesTyped
    <3> QED BY <3>2
  <2>2. CASE x.op # "SendResponse"
    <3>1. pending_replies' = pending_replies
      BY <2>2 DEF HandleCommand, x
    <3> QED BY <2>2, <3>1
  <2> QED BY <2>1, <2>2
<1>4. RequestsPaired'
  <2>1. ASSUME NEW k \in Nodes, NEW i \in 1 .. Len(cmds'[k]), cmds'[k][i].op = "SendResponse"
        PROVE  cmds'[k][i].id < next_inbound_id[k]
    <3>1. CASE k = n
      <4>1. i + 1 \in 1 .. Len(cmds[n]) /\ cmds'[n][i] = cmds[n][i + 1]
        BY <1>2, <3>1
      <4> QED BY <2>1, <3>1, <4>1 DEF PInv, RequestsPaired
    <3>2. CASE k # n
      BY <1>2, <2>1, <3>2 DEF PInv, RequestsPaired
    <3> QED BY <3>1, <3>2
  <2>2. ASSUME NEW k \in Nodes, NEW r, Paired(k, r) PROVE Paired(k, r)'
    BY <1>1, <1>3, <2>2 DEF Paired, To
  <2> QED BY <1>1, <2>1, <2>2 DEF PInv, RequestsPaired
<1>5. ASSUME NEW k \in Nodes, NEW id \in DOMAIN pending_replies'[k] PROVE Owned(k, id)'
  <2>1. id \in DOMAIN pending_replies[k] /\ pending_replies'[k][id] = pending_replies[k][id]
    BY <1>3, <1>5
  <2>2. Owned(k, id)
    BY <2>1, OwnedMeans DEF TInv, PInv
  <2>3. ASSUME NEW i \in 1 .. Len(cmds[k]), cmds[k][i].op = "SendResponse", cmds[k][i].id = id
        PROVE  \E j \in 1 .. Len(cmds'[k]) : cmds'[k][j].op = "SendResponse" /\ cmds'[k][j].id = id
    <3>1. CASE k # n
      BY <1>2, <2>3, <3>1
    <3>2. CASE k = n
      <4>1. i # 1
        BY <1>2, <1>3, <1>5, <2>3, <3>2
      <4>2. i - 1 \in 1 .. Len(cmds'[n]) /\ cmds'[n][i - 1] = cmds[n][i]
        BY <1>2, <3>2, <4>1
      <4> QED BY <2>3, <3>2, <4>2
    <3> QED BY <3>1, <3>2
  <2> QED BY <1>1, <2>1, <2>2, <2>3 DEF Owned
<1>6. RepliesOwned'
  BY <1>5, OwnedNext DEF TInv
<1> QED BY <1>4, <1>6 DEF PInv

\* Where a request that was handed over is afterwards.
LEMMA HandedTo ==
    ASSUME TInv, NEW n \in Nodes, net[n] = Select, NEW r \in Inbound, HandToCore(n, r)
    PROVE  /\ \A k \in Nodes : k # n => net'[k] = net[k] /\ inbound'[k] = inbound[k]
           /\ \A i \in 1 .. Len(inbound[n]) : i \in 1 .. Len(inbound'[n]) /\ inbound'[n][i] = inbound[n][i]
           /\ \A i \in 1 .. Len(inbound'[n]) :
                 (i \in 1 .. Len(inbound[n]) /\ inbound'[n][i] = inbound[n][i]) \/ inbound'[n][i] = r
           /\ net'[n].at = "forward" => net'[n].req = r
           /\ (net'[n].at = "forward" /\ net'[n].req = r) \/ \E i \in 1 .. Len(inbound'[n]) : inbound'[n][i] = r
           /\ (net'[n].at = "forward" /\ inbound' = inbound) \/ (net'[n] = net[n] /\ Len(inbound[n]) \in Nat
                 /\ inbound'[n][Len(inbound[n]) + 1] = r
                 /\ \A i \in 1 .. Len(inbound'[n]) : i \in 1 .. Len(inbound[n]) \/ i = Len(inbound[n]) + 1)
<1>0. net \in [Nodes -> NetStates] /\ inbound \in [Nodes -> Seq(Inbound)]
  BY DEF TInv, LoopsTyped
<1>1. CASE Len(inbound[n]) < InboundCap
  <2>1. inbound' = [inbound EXCEPT ![n] = Append(@, r)] /\ net' = net
    BY <1>1 DEF HandToCore
  <2>2. /\ \A k \in Nodes : k # n => inbound'[k] = inbound[k]
        /\ \A i \in 1 .. Len(inbound[n]) : i \in 1 .. Len(inbound'[n]) /\ inbound'[n][i] = inbound[n][i]
        /\ \A i \in 1 .. Len(inbound'[n]) : i \in 1 .. Len(inbound[n]) \/ i = Len(inbound[n]) + 1
        /\ inbound'[n][Len(inbound[n]) + 1] = r /\ Len(inbound[n]) + 1 \in 1 .. Len(inbound'[n])
        /\ Len(inbound[n]) \in Nat
    BY <1>0, <2>1, Added
  <2>3. net'[n].at = "select"
    BY <2>1, StateFacts
  <2> QED BY <2>1, <2>2, <2>3
<1>2. CASE ~(Len(inbound[n]) < InboundCap)
  <2>1. net' = [net EXCEPT ![n] = [at |-> "forward", req |-> r]] /\ inbound' = inbound
    BY <1>2 DEF HandToCore
  <2>2. net'[n] = [at |-> "forward", req |-> r] /\ \A k \in Nodes : k # n => net'[k] = net[k]
    BY <1>0, <2>1
  <2>3. net'[n].at = "forward" /\ net'[n].req = r
    BY <2>2
  <2> QED BY <2>1, <2>2, <2>3
<1> QED BY <1>1, <1>2

\* What Register_Inbound does to the table.
LEMMA Registered ==
    ASSUME TInv, NEW n \in Nodes, NEW c, NEW d, Register_Inbound(n, c, d)
    PROVE  /\ next_inbound_id[n] \in Nat \ {0} /\ next_inbound_id'[n] = next_inbound_id[n] + 1
           /\ \A k \in Nodes : k # n => /\ next_inbound_id'[k] = next_inbound_id[k]
                                        /\ pending_replies'[k] = pending_replies[k]
           /\ DOMAIN pending_replies'[n] = DOMAIN pending_replies[n] \cup {next_inbound_id[n]}
           /\ pending_replies'[n][next_inbound_id[n]] = c
           /\ next_inbound_id[n] \notin DOMAIN pending_replies[n]
           /\ \A i \in DOMAIN pending_replies[n] : pending_replies'[n][i] = pending_replies[n][i]
<1> DEFINE id == next_inbound_id[n]
<1>1. /\ id \in Nat \ {0} /\ next_inbound_id'[n] = id + 1
      /\ \A k \in Nodes : k # n => next_inbound_id'[k] = next_inbound_id[k]
  BY DEF Register_Inbound, TInv, TablesTyped
<1>2. /\ pending_replies'[n] = [i \in DOMAIN pending_replies[n] \cup {id} |->
                                  IF i = id THEN c ELSE pending_replies[n][i]]
      /\ \A k \in Nodes : k # n => pending_replies'[k] = pending_replies[k]
  BY DEF Register_Inbound, TInv, TablesTyped
<1>3. id \notin DOMAIN pending_replies[n]
  <2>1. DOMAIN pending_replies[n] \subseteq 1 .. id - 1
    BY DEF TInv, TablesTyped
  <2> QED BY <1>1, <2>1
<1> QED BY <1>1, <1>2, <1>3

\* A request is registered under a new id, and handed over with it.
LEMMA PRegister ==
    ASSUME TInv, TInv', PInv, NEW n \in Nodes, net[n] = Select, NEW c \in Calls, To(c) = n,
           NEW d, d.data_type = call[c].data.data_type, d.data_type \in DOMAIN DataTypes, d.payload \in Payloads,
           Register_Inbound(n, c, d), UNCHANGED <<core, cmds, call>>
    PROVE  PInv'
<1> DEFINE id == next_inbound_id[n]
           r == [id |-> id, data_type |-> d.data_type, payload |-> d.payload, call |-> c]
           Pair(k, x) == /\ x.id < next_inbound_id'[k]
                         /\ x.id \in DOMAIN pending_replies'[k] => pending_replies'[k][x.id] = x.call
                         /\ call[x.call].to = k /\ x.data_type = call[x.call].data.data_type
<1>1. r \in Inbound /\ r.id = id /\ r.call = c /\ r.data_type = d.data_type
  BY DEF TInv, TablesTyped, Inbound
<1>2. HandToCore(n, r)
  BY DEF Register_Inbound
<1> HIDE DEF r, id, Pair
<1>3. Pair(n, r)
  BY <1>1, Registered DEF To, id, Pair
<1>4. ASSUME NEW k \in Nodes, NEW x \in Inbound, Paired(k, x) PROVE Pair(k, x)
  <2>1. CASE k # n
    BY <1>4, <2>1, Registered DEF Paired, To, Pair
  <2>2. CASE k = n
    <3>1. x.id < id /\ x.id \in Nat
      BY <1>4, <2>2 DEF Paired, Inbound, id
    <3>2. x.id < id + 1 /\ x.id # id
      BY <3>1, Registered DEF id
    <3> QED BY <1>4, <2>2, <3>2, Registered DEF Paired, To, id, Pair
  <2> QED BY <2>1, <2>2
<1>5. ASSUME NEW k \in Nodes, NEW i \in Nat, i < next_inbound_id[k] PROVE i < next_inbound_id'[k]
  BY <1>5, Registered DEF TInv, TablesTyped
<1>6. RequestsPaired'
  <2>1. ASSUME NEW k \in Nodes, net'[k].at = "forward" PROVE Pair(k, net'[k].req)
    <3>1. CASE k = n
      BY <1>1, <1>2, <1>3, <2>1, <3>1, HandedTo
    <3>2. CASE k # n
      <4>1. net'[k] = net[k] /\ net[k].req \in Inbound
        BY <1>1, <1>2, <2>1, <3>2, HandedTo, StateFacts DEF TInv, LoopsTyped
      <4> QED BY <1>4, <2>1, <4>1 DEF PInv, RequestsPaired
    <3> QED BY <3>1, <3>2
  <2>2. ASSUME NEW k \in Nodes, NEW i \in 1 .. Len(inbound'[k]) PROVE Pair(k, inbound'[k][i])
    <3>1. (i \in 1 .. Len(inbound[k]) /\ inbound'[k][i] = inbound[k][i]) \/ (k = n /\ inbound'[k][i] = r)
      BY <1>1, <1>2, HandedTo
    <3>2. i \in 1 .. Len(inbound[k]) => inbound[k][i] \in Inbound /\ Paired(k, inbound[k][i])
      BY ElementOfSeq DEF PInv, RequestsPaired, TInv, LoopsTyped
    <3> QED BY <1>3, <1>4, <3>1, <3>2
  <2>3. ASSUME NEW k \in Nodes, core[k].at = "reply" PROVE core[k].id < next_inbound_id'[k]
    BY <1>5, <2>3, StateFacts DEF PInv, RequestsPaired, TInv, LoopsTyped
  <2>4. ASSUME NEW k \in Nodes, NEW i \in 1 .. Len(cmds[k]), cmds[k][i].op = "SendResponse"
        PROVE  cmds[k][i].id < next_inbound_id'[k]
    <3>1. cmds[k][i] \in Commands
      BY ElementOfSeq DEF TInv, LoopsTyped
    <3> QED BY <1>5, <2>4, <3>1, CommandFacts DEF PInv, RequestsPaired
  <2>0. \A k \in Nodes : \A x : Pair(k, x) =>
           /\ x.id < next_inbound_id'[k]
           /\ x.id \in DOMAIN pending_replies'[k] => pending_replies'[k][x.id] = x.call
           /\ call'[x.call].to = k /\ x.data_type = call'[x.call].data.data_type
    BY DEF Pair
  <2>5. (\A k \in Nodes : net[k].at = "forward" => Paired(k, net[k].req))'
    BY <2>0, <2>1 DEF Paired, To
  <2>6. (\A k \in Nodes : \A i \in 1 .. Len(inbound[k]) : Paired(k, inbound[k][i]))'
    BY <2>0, <2>2 DEF Paired, To
  <2> QED BY <2>3, <2>4, <2>5, <2>6 DEF RequestsPaired
<1>7. ASSUME NEW k \in Nodes, NEW x \in DOMAIN pending_replies'[k] PROVE Owned(k, x)'
  <2>1. CASE k = n /\ x = id
    BY <1>1, <1>2, <2>1, HandedTo DEF Owned
  <2>2. CASE ~(k = n /\ x = id)
    <3>1. x \in DOMAIN pending_replies[k] /\ pending_replies'[k][x] = pending_replies[k][x]
      BY <1>7, <2>2, Registered DEF id
    <3>2. Owned(k, x)
      BY <3>1, OwnedMeans DEF TInv, PInv
    <3>3. net[k].at = "forward" => net'[k] = net[k]
      BY <1>1, <1>2, HandedTo, StateFacts
    <3>4. \A i \in 1 .. Len(inbound[k]) : i \in 1 .. Len(inbound'[k]) /\ inbound'[k][i] = inbound[k][i]
      BY <1>1, <1>2, HandedTo
    <3> QED BY <3>1, <3>2, <3>3, <3>4 DEF Owned
  <2> QED BY <2>1, <2>2
<1>8. RepliesOwned'
  BY <1>7, OwnedNext DEF TInv
<1> QED BY <1>6, <1>8 DEF PInv

\* A request arrives.
LEMMA PRequestEvent == ASSUME TInv, TInv', PInv, NEW n \in Nodes, NEW m \in wire, RequestEvent(n, m) PROVE PInv'
<1> DEFINE d == Read_Frame(m.frame)
<1>1. UNCHANGED <<core, cmds, call>> /\ net[n] = Select /\ m.kind = "request" /\ To(m.call) = n
  BY DEF RequestEvent
<1>2. CASE UNCHANGED <<net, inbound, pending_replies, next_inbound_id>>
  BY <1>1, <1>2, PKept
<1>3. CASE d # BadFrame /\ Register_Inbound(n, m.call, d)
  <2>1. /\ m.call \in Calls /\ d.data_type = call[m.call].data.data_type
        /\ d.data_type \in DOMAIN DataTypes /\ d.payload \in Payloads
    BY <1>1, <1>3, RequestRead
  <2> HIDE DEF d
  <2> QED BY <1>1, <1>3, <2>1, PRegister
<1> QED BY <1>2, <1>3 DEF RequestEvent

\* The owner of the entry is the channel instead of the event loop.
LEMMA PForward == ASSUME TInv, TInv', PInv, NEW n \in Nodes, Forward(n) PROVE PInv'
<1> DEFINE r == net[n].req
<1>1. UNCHANGED <<core, cmds, pending_replies, next_inbound_id, call>> /\ net[n].at = "forward"
  BY DEF Forward, reqres
<1>2. r \in Inbound
  BY <1>1, StateFacts DEF TInv, LoopsTyped
<1>3. /\ Len(inbound[n]) < InboundCap /\ inbound' = [inbound EXCEPT ![n] = Append(@, r)]
      /\ net'[n].at = "select" /\ \A k \in Nodes : k # n => net'[k] = net[k]
  BY StateFacts DEF Forward, TInv, LoopsTyped
<1>4. Paired(n, r)
  BY <1>1 DEF PInv, RequestsPaired
<1>5. \A k \in Nodes : \A x : Paired(k, x) =>
         /\ x.id < next_inbound_id'[k]
         /\ x.id \in DOMAIN pending_replies'[k] => pending_replies'[k][x.id] = x.call
         /\ call'[x.call].to = k /\ x.data_type = call'[x.call].data.data_type
  BY <1>1 DEF Paired, To
<1> HIDE DEF r
<1>6. /\ \A k \in Nodes : \A i \in 1 .. Len(inbound[k]) : i \in 1 .. Len(inbound'[k]) /\ inbound'[k][i] = inbound[k][i]
      /\ \A k \in Nodes : \A i \in 1 .. Len(inbound'[k]) :
            (i \in 1 .. Len(inbound[k]) /\ inbound'[k][i] = inbound[k][i]) \/ (k = n /\ inbound'[k][i] = r)
      /\ \E i \in 1 .. Len(inbound'[n]) : inbound'[n][i] = r
  BY <1>2, <1>3, QueueRequest
<1>7. RequestsPaired'
  <2>1. \A k \in Nodes : \A i \in 1 .. Len(inbound'[k]) : Paired(k, inbound'[k][i])
    BY <1>4, <1>6 DEF PInv, RequestsPaired
  <2>2. (\A k \in Nodes : \A i \in 1 .. Len(inbound[k]) : Paired(k, inbound[k][i]))'
    BY <1>5, <2>1 DEF Paired, To
  <2>3. \A k \in Nodes : net'[k].at = "forward" => Paired(k, net'[k].req)
    BY <1>3 DEF PInv, RequestsPaired
  <2>4. (\A k \in Nodes : net[k].at = "forward" => Paired(k, net[k].req))'
    BY <1>5, <2>3 DEF Paired, To
  <2> QED BY <1>1, <2>2, <2>4 DEF PInv, RequestsPaired
<1>8. ASSUME NEW k \in Nodes, NEW id \in DOMAIN pending_replies[k] PROVE Owned(k, id)'
  <2>1. Owned(k, id)
    BY OwnedMeans DEF TInv, PInv
  <2>2. CASE k = n /\ r.id = id
    BY <1>6, <2>2 DEF Owned
  <2>3. CASE ~(k = n /\ r.id = id)
    BY <1>1, <1>3, <1>6, <2>1, <2>3 DEF Owned, r
  <2> QED BY <2>2, <2>3
<1>9. RepliesOwned'
  BY <1>1, <1>8, OwnedNext DEF TInv
<1> QED BY <1>7, <1>9 DEF PInv

\* PInv is inductive, given TInv.
LEMMA NextPInv == TInv /\ TInv' /\ PInv /\ [Next]_vars => PInv'
<1> SUFFICES ASSUME TInv, TInv', PInv, [Next]_vars PROVE PInv'
  OBVIOUS
<1>1. ASSUME NEW c \in Calls, Start(c) \/ SendCommand(c) \/ ResponseTimeout(c) PROVE PInv'
  <2>1. CASE Start(c) \/ ResponseTimeout(c)
    <3>1. UNCHANGED <<call, core, net, inbound, cmds, pending_replies, next_inbound_id>>
      BY <2>1 DEF Start, ResponseTimeout, reqres
    <3> QED BY <3>1, PKept
  <2> QED BY <1>1, <2>1, PSendCommand
<1>2. ASSUME NEW n \in Nodes, TypeQuit(n) \/ RouteStream(n) PROVE PInv'
  <2>1. UNCHANGED <<call, core, net, inbound, cmds, pending_replies, next_inbound_id>>
    BY <1>2 DEF TypeQuit, RouteStream, reqres
  <2> QED BY <2>1, PKept
<1>3. ASSUME NEW n \in Nodes, RouteExecRemote(n) \/ CoreResume(n) PROVE PInv'
  <2>1. UNCHANGED <<call, net, inbound, cmds, pending_replies, next_inbound_id>>
    BY <1>3 DEF RouteExecRemote, CoreResume, reqres
  <2>2. \A k \in Nodes : core'[k] = core[k] \/ (core[k].at # "reply" /\ core'[k].at # "reply")
    BY <1>3, StateFacts DEF RouteExecRemote, CoreResume, TInv, LoopsTyped
  <2> QED BY <2>1, <2>2, PCore
<1>4. ASSUME NEW n \in Nodes, LoopStep(n) \/ SwarmEvent(n) \/ StreamArrives(n) \/ StreamRead(n) PROVE PInv'
  <2>2. ASSUME NEW c \in Calls, FailureEvent(n, c) PROVE PInv'
    <3>1. UNCHANGED <<call, core, net, inbound, cmds, pending_replies, next_inbound_id>>
      BY <2>2 DEF FailureEvent
    <3> QED BY <3>1, PKept
  <2>3. ASSUME NEW m \in wire, ResponseEvent(n, m) PROVE PInv'
    <3>1. UNCHANGED <<call, core, net, inbound, cmds, pending_replies, next_inbound_id>>
      BY <2>3 DEF ResponseEvent
    <3> QED BY <3>1, PKept
  <2>4. ASSUME StreamArrives(n) \/ StreamRead(n) \/ ForwardStream(n) PROVE PInv'
    <3>1. UNCHANGED <<call, core, inbound, cmds, pending_replies, next_inbound_id>>
      BY <2>4 DEF StreamArrives, StreamRead, ForwardStream, reqres
    <3>2. \A k \in Nodes : net'[k] = net[k] \/ (net[k].at # "forward" /\ net'[k].at # "forward")
      <4>1. net[n].at # "forward" /\ \E x : x.at # "forward" /\ net' = [net EXCEPT ![n] = x]
        <5>1. \A at \in {"select", "reading", "event"} : [at |-> at].at # "forward"
          OBVIOUS
        <5>2. CASE StreamArrives(n)
          BY <5>1, <5>2, StateFacts DEF StreamArrives
        <5>3. CASE StreamRead(n)
          BY <5>1, <5>3 DEF StreamRead
        <5>4. CASE ForwardStream(n)
          BY <5>4, StateFacts DEF ForwardStream
        <5> QED BY <2>4, <5>2, <5>3, <5>4
      <4> QED BY <4>1 DEF TInv, LoopsTyped
    <3> QED BY <3>1, <3>2, PKept
  <2> QED BY <1>4, <2>2, <2>3, <2>4, PHandleCommand, PForward, PRequestEvent DEF LoopStep, SwarmEvent
<1>5. CASE Done \/ UNCHANGED vars
  <2>1. UNCHANGED <<call, core, net, inbound, cmds, pending_replies, next_inbound_id>>
    BY <1>5 DEF Done, vars, reqres
  <2> QED BY <2>1, PKept
<1>6. ASSUME NEW n \in Nodes, CoreStep(n) PROVE PInv'
  BY <1>2, <1>3, <1>6, PRouteInbound, PCoreReply, PQuit DEF CoreStep
<1> QED BY <1>1, <1>2, <1>4, <1>5, <1>6 DEF Next

\* PInv holds in every state.
THEOREM PairingInvariance == Spec => []PInv
<1>1. TInv /\ TInv' /\ PInv /\ [Next]_vars => PInv'
  BY NextPInv
<1> QED BY <1>1, NodeInvariance, InitPInv, PTL DEF Spec

\* For any nodes, calls and capacities: a reply channel in Inbound_Manager always
\* has somebody who will take it, unless it is of a file request: none is
\* left behind when channels are full, callers give up or nodes quit.
THEOREM RepliesNeverLeak == Spec => []RepliesOwned
<1>1. PInv => RepliesOwned
  BY DEF PInv
<1> QED BY <1>1, PairingInvariance, PTL

(***************************************************************************)
(* Where a request is.                                                     *)
(***************************************************************************)
\* Initially no request has been sent.
LEMMA InitAInv == Init => AInv
<1> SUFFICES ASSUME Init PROVE AInv
  OBVIOUS
<1>1. InCommands = {} /\ OnWire = {} /\ AtLoop = {} /\ InQueue = {}
  <2>0. TInv
    BY InitTInv
  <2>1. \A c \in Calls : From(c) \in Nodes /\ To(c) \in Nodes
    BY <2>0, CallFacts DEF TInv
  <2>2. \A n \in Nodes : Len(cmds[n]) = 0 /\ Len(inbound[n]) = 0 /\ net[n].at = "select"
    BY StateFacts DEF Init
  <2> QED BY <2>1, <2>2 DEF Init, InCommands, OnWire, AtLoop, InQueue
<1>2. Places
  BY <1>1 DEF Init, Places, OnePlace, UserOnce, CommandOnce, RequestOnce
<1>3. RanOnce /\ ResultsFit /\ WireFits
  BY DEF Init, RanOnce, ResultsFit, WireFits
<1>4. RepliesFit
  BY DEF Init, RepliesFit
<1> QED BY <1>2, <1>3, <1>4 DEF AInv

\* What each place depends on.
LEMMA PlaceFrames ==
    ASSUME UNCHANGED call
    PROVE  /\ UNCHANGED phase => Unsent' = Unsent
           /\ UNCHANGED cmds => InCommands' = InCommands
           /\ UNCHANGED wire => OnWire' = OnWire
           /\ UNCHANGED net => AtLoop' = AtLoop
           /\ UNCHANGED inbound => InQueue' = InQueue
<1>1. UNCHANGED phase => Unsent' = Unsent
  BY DEF Unsent
<1>2. UNCHANGED cmds => InCommands' = InCommands
  BY DEF InCommands, From
<1>3. UNCHANGED wire => OnWire' = OnWire
  BY DEF OnWire, Request
<1>4. UNCHANGED net => AtLoop' = AtLoop
  BY DEF AtLoop, To
<1>5. UNCHANGED inbound => InQueue' = InQueue
  BY DEF InQueue, To
<1> QED BY <1>1, <1>2, <1>3, <1>4, <1>5

\* What a step may do to the places: a request that has been handled is never
\* open again.
Moved == OnePlace' /\ Open' \subseteq Open

\* A step that only takes requests away.
LEMMA Shrunk ==
    ASSUME OnePlace, Unsent' \subseteq Unsent, InCommands' \subseteq InCommands, OnWire' \subseteq OnWire,
           AtLoop' \subseteq AtLoop, InQueue' \subseteq InQueue
    PROVE  Moved
BY DEF OnePlace, Moved, Open

\* The commands and requests in the channels are of the calls in these places.
LEMMA InPlace ==
    ASSUME TInv, PInv, NEW n \in Nodes
    PROVE  /\ \A i \in 1 .. Len(cmds[n]) : cmds[n][i].op = "SendData" =>
                 cmds[n][i].call \in Calls /\ From(cmds[n][i].call) = n /\ cmds[n][i].call \in InCommands
           /\ \A i \in 1 .. Len(inbound[n]) :
                 inbound[n][i].call \in Calls /\ To(inbound[n][i].call) = n /\ inbound[n][i].call \in InQueue
           /\ net[n].at = "forward" =>
                 net[n].req.call \in Calls /\ To(net[n].req.call) = n /\ net[n].req.call \in AtLoop
<1>1. ASSUME NEW i \in 1 .. Len(cmds[n]), cmds[n][i].op = "SendData"
      PROVE  cmds[n][i].call \in Calls /\ From(cmds[n][i].call) = n /\ cmds[n][i].call \in InCommands
  <2>1. cmds[n][i] \in Commands
    BY ElementOfSeq DEF TInv, LoopsTyped
  <2>2. cmds[n][i].call \in Calls /\ From(cmds[n][i].call) = n
    BY <1>1, <2>1, CommandFacts DEF TInv, OwnCommands
  <2> QED BY <1>1, <2>2 DEF InCommands
<1>2. ASSUME NEW i \in 1 .. Len(inbound[n])
      PROVE  inbound[n][i].call \in Calls /\ To(inbound[n][i].call) = n /\ inbound[n][i].call \in InQueue
  <2>1. inbound[n][i] \in Inbound
    BY ElementOfSeq DEF TInv, LoopsTyped
  <2>2. inbound[n][i].call \in Calls /\ To(inbound[n][i].call) = n
    BY <2>1 DEF PInv, RequestsPaired, Paired, Inbound
  <2> QED BY <2>2 DEF InQueue
<1>3. ASSUME net[n].at = "forward"
      PROVE  net[n].req.call \in Calls /\ To(net[n].req.call) = n /\ net[n].req.call \in AtLoop
  <2>1. net[n].req \in Inbound
    BY <1>3, StateFacts DEF TInv, LoopsTyped
  <2>2. net[n].req.call \in Calls /\ To(net[n].req.call) = n
    BY <1>3, <2>1 DEF PInv, RequestsPaired, Paired, Inbound
  <2> QED BY <1>3, <2>2 DEF AtLoop
<1> QED BY <1>1, <1>2, <1>3

\* Steps of the callers.
LEMMA MStart == ASSUME TInv, PInv, AInv, NEW c \in Calls, Start(c) PROVE Places' /\ Moved
<1>1. UNCHANGED <<cmds, wire, net, inbound, call>> /\ phase[c] = "new"
  BY DEF Start, reqres
<1>2. /\ \A e \in Calls : e # c => phase'[e] = phase[e]
      /\ phase'[c] = "queued" \/ (phase'[c] = "sending" /\ user' = user)
  BY DEF Start, TInv, CallsTyped
<1>3. Unsent' \subseteq Unsent
  BY <1>1, <1>2 DEF Unsent
<1>4. Moved
  BY <1>1, <1>3, PlaceFrames, Shrunk DEF AInv, Places
<1>5. \A n \in Nodes : \A i \in 1 .. Len(user[n]) : user[n][i] # "quit" => user[n][i] # c
  BY <1>1 DEF AInv, Places, UserOnce
<1>6. UserOnce'
  <2>0. \A n \in Nodes : \A i \in 1 .. Len(user[n]) : user[n][i] # "quit" => user[n][i] \in Calls
    <3>1. \A n \in Nodes : \A i \in 1 .. Len(user[n]) : user[n][i] \in Calls \cup {"quit"}
      BY ElementOfSeq DEF TInv, CallsTyped
    <3> QED BY <3>1
  <2>1. CASE user' = user
    BY <1>1, <1>2, <1>5, <2>0, <2>1 DEF AInv, Places, UserOnce, From
  <2>2. CASE user' # user
    <3>1. phase'[c] = "queued" /\ user' = [user EXCEPT ![From(c)] = Append(@, c)]
      BY <2>2 DEF Start, TInv, CallsTyped
    <3> DEFINE s == From(c)
    <3>2. s \in Nodes /\ c \in Calls \cup {"quit"} /\ user \in [Nodes -> Seq(Calls \cup {"quit"})] /\ c # "quit"
      BY CallFacts, Consts DEF TInv, CallsTyped
    <3> HIDE DEF s
    <3>3. user' = [user EXCEPT ![s] = Append(@, c)]
      BY <3>1 DEF s
    <3>4. /\ \A k \in Nodes : k # s => user'[k] = user[k]
          /\ \A i \in 1 .. Len(user[s]) : i \in 1 .. Len(user'[s]) /\ user'[s][i] = user[s][i]
          /\ \A i \in 1 .. Len(user'[s]) : i \in 1 .. Len(user[s]) \/ i = Len(user[s]) + 1
          /\ user'[s][Len(user[s]) + 1] = c
      BY <3>2, <3>3, Added
    <3> SUFFICES ASSUME NEW n \in Nodes, NEW i \in 1 .. Len(user'[n]), user'[n][i] # "quit"
                 PROVE  /\ phase'[user'[n][i]] = "queued" /\ From(user'[n][i]) = n
                        /\ \A j \in 1 .. Len(user'[n]) : user'[n][i] = user'[n][j] => i = j
      BY <1>1 DEF UserOnce, From
    <3>5. CASE n # s
      BY <1>2, <1>5, <2>0, <3>4, <3>5 DEF AInv, Places, UserOnce
    <3>6. CASE n = s
      <4>1. CASE i \in 1 .. Len(user[s])
        <5>1. user'[s][i] = user[s][i] /\ user[s][i] # "quit" /\ user[s][i] # c
          BY <1>5, <3>2, <3>4, <3>6, <4>1
        <5> QED BY <1>2, <2>0, <3>2, <3>4, <3>6, <4>1, <5>1 DEF AInv, Places, UserOnce
      <4>2. CASE i = Len(user[s]) + 1
        BY <1>5, <3>1, <3>2, <3>4, <3>6, <4>2 DEF s
      <4> QED BY <3>4, <3>6, <4>1, <4>2
    <3> QED BY <3>5, <3>6
  <2> QED BY <2>1, <2>2
<1>7. CommandOnce' /\ RequestOnce'
  BY <1>1 DEF AInv, Places, CommandOnce, RequestOnce
<1> QED BY <1>4, <1>6, <1>7 DEF Places, Moved

\* The user types quit.
LEMMA MTypeQuit == ASSUME TInv, PInv, AInv, NEW n \in Nodes, TypeQuit(n) PROVE Places' /\ Moved
<1>1. UNCHANGED <<phase, cmds, wire, net, inbound, call>>
  BY DEF TypeQuit, callers, reqres
<1>2. Moved
  BY <1>1, PlaceFrames, Shrunk DEF AInv, Places
<1>3. UserOnce'
  <2>1. user \in [Nodes -> Seq(Calls \cup {"quit"})] /\ "quit" \in Calls \cup {"quit"}
    BY DEF TInv, CallsTyped
  <2>2. /\ \A k \in Nodes : k # n => user'[k] = user[k]
        /\ \A i \in 1 .. Len(user[n]) : i \in 1 .. Len(user'[n]) /\ user'[n][i] = user[n][i]
        /\ \A i \in 1 .. Len(user'[n]) : i \in 1 .. Len(user[n]) \/ i = Len(user[n]) + 1
        /\ user'[n][Len(user[n]) + 1] = "quit"
    BY <2>1, Added DEF TypeQuit
  <2> QED BY <1>1, <2>2 DEF AInv, Places, UserOnce, From
<1>4. CommandOnce' /\ RequestOnce'
  BY <1>1 DEF AInv, Places, CommandOnce, RequestOnce
<1> QED BY <1>2, <1>3, <1>4 DEF Places, Moved

\* A step that leaves the channels alone and only ends calls that were sent.
LEMMA MPhases ==
    ASSUME TInv, PInv, AInv, UNCHANGED <<user, cmds, inbound, call>>, OnWire' \subseteq OnWire,
           AtLoop' \subseteq AtLoop, phase' = phase \/ \E c \in Calls : phase[c] = "waiting" /\ phase' = [phase EXCEPT ![c] = "done"]
    PROVE  Places' /\ Moved
<1>1. \A e \in Calls : phase'[e] = phase[e] \/ (phase[e] = "waiting" /\ phase'[e] = "done")
  BY DEF TInv, CallsTyped
<1>2. Unsent' \subseteq Unsent
  BY <1>1 DEF Unsent
<1>3. Moved
  BY <1>2, PlaceFrames, Shrunk DEF AInv, Places
<1>4. UserOnce'
  <2>1. \A n \in Nodes : \A i \in 1 .. Len(user[n]) : user[n][i] # "quit" => user[n][i] \in Calls
    <3>1. \A n \in Nodes : \A i \in 1 .. Len(user[n]) : user[n][i] \in Calls \cup {"quit"}
      BY ElementOfSeq DEF TInv, CallsTyped
    <3> QED BY <3>1
  <2> QED BY <1>1, <2>1 DEF AInv, Places, UserOnce, From
<1>5. CommandOnce' /\ RequestOnce'
  BY DEF AInv, Places, CommandOnce, RequestOnce
<1> QED BY <1>3, <1>4, <1>5 DEF Places, Moved

\* The commands of the user that are left are queued as before.
LEMMA UserKept ==
    ASSUME TInv, AInv, UNCHANGED <<user, call>>,
           \A e \in Calls : phase'[e] # phase[e] => phase[e] # "queued"
    PROVE  UserOnce'
<1>1. \A n \in Nodes : \A i \in 1 .. Len(user[n]) : user[n][i] # "quit" => user[n][i] \in Calls
  <2>1. \A n \in Nodes : \A i \in 1 .. Len(user[n]) : user[n][i] \in Calls \cup {"quit"}
    BY ElementOfSeq DEF TInv, CallsTyped
  <2> QED BY <2>1
<1> QED BY <1>1 DEF AInv, Places, UserOnce, From

\* A request enters the channel of the event loop: it was not there before.
LEMMA MSendCommand == ASSUME TInv, PInv, AInv, NEW c \in Calls, SendCommand(c) PROVE Places' /\ Moved
<1> DEFINE n == From(c)
           x == [op |-> call[c].op, call |-> c]
<1>1. UNCHANGED <<user, wire, net, inbound, call>> /\ phase[c] = "sending"
  BY DEF SendCommand, reqres
<1>2. n \in Nodes /\ x \in Commands /\ x.call = c
  BY CallFacts, CommandFacts DEF TInv
<1>3. Len(cmds[n]) < CmdCap /\ cmds' = [cmds EXCEPT ![n] = Append(@, x)]
  BY DEF SendCommand
<1>4. phase'[c] \in {"waiting", "done"} /\ \A e \in Calls : e # c => phase'[e] = phase[e]
  BY DEF SendCommand, TInv, CallsTyped
<1> HIDE DEF n, x
<1>5. /\ \A k \in Nodes : \A i \in 1 .. Len(cmds'[k]) :
            \/ i \in 1 .. Len(cmds[k]) /\ cmds'[k][i] = cmds[k][i]
            \/ k = n /\ i = Len(cmds[n]) + 1 /\ cmds'[k][i] = x
  BY <1>2, <1>3, Queue
<1>6. Unsent' = Unsent \ {c} /\ c \in Unsent
  BY <1>1, <1>4 DEF Unsent
<1>7. InCommands' \subseteq InCommands \cup {c}
  <2> SUFFICES ASSUME NEW e \in Calls, NEW i \in 1 .. Len(cmds'[From(e)]), cmds'[From(e)][i].op = "SendData",
                      cmds'[From(e)][i].call = e, e # c
               PROVE  e \in InCommands
    BY <1>1 DEF InCommands, From
  <2>1. From(e) \in Nodes
    BY CallFacts DEF TInv
  <2> QED BY <1>2, <1>5, <2>1 DEF InCommands
<1>8. Moved
  BY <1>1, <1>6, <1>7, PlaceFrames DEF AInv, Places, OnePlace, Moved, Open
<1>9. CommandOnce'
  <2> SUFFICES ASSUME NEW k \in Nodes, NEW i \in 1 .. Len(cmds'[k]), NEW j \in 1 .. Len(cmds'[k]),
                      cmds'[k][i].op = "SendData", cmds'[k][j].op = "SendData", cmds'[k][i].call = cmds'[k][j].call
               PROVE  i = j
    BY DEF CommandOnce
  <2>1. \A l \in 1 .. Len(cmds[k]) : cmds[k][l].op = "SendData" => cmds[k][l].call # c
    BY <1>6, InPlace DEF AInv, Places, OnePlace
  <2> QED BY <1>2, <1>5, <2>1 DEF AInv, Places, CommandOnce
<1>10. UserOnce'
  BY <1>1, <1>4, UserKept
<1>11. RequestOnce'
  BY <1>1 DEF AInv, Places, RequestOnce
<1> QED BY <1>8, <1>9, <1>10, <1>11 DEF Places, Moved

\* Core takes up a command of the user.
LEMMA MRouteExecRemote == ASSUME TInv, PInv, AInv, NEW n \in Nodes, RouteExecRemote(n) PROVE Places' /\ Moved
<1> DEFINE c == Head(user[n])
<1>1. UNCHANGED <<cmds, wire, net, inbound, call>> /\ c # "quit"
  BY DEF RouteExecRemote, reqres
<1>2. /\ c \in Calls \cup {"quit"} /\ c = user[n][1] /\ 1 \in 1 .. Len(user[n])
      /\ \A k \in Nodes : k # n => user'[k] = user[k]
      /\ \A i \in 1 .. Len(user'[n]) : i + 1 \in 1 .. Len(user[n]) /\ user'[n][i] = user[n][i + 1]
      /\ Len(user'[n]) = Len(user[n]) - 1 /\ Len(user[n]) \in Nat
  <2>1. user \in [Nodes -> Seq(Calls \cup {"quit"})]
    BY DEF TInv, CallsTyped
  <2> QED BY <2>1, Taken DEF RouteExecRemote
<1> HIDE DEF c
<1>3. c \in Calls /\ phase[c] = "queued" /\ From(c) = n
  BY <1>1, <1>2 DEF AInv, Places, UserOnce
<1>4. \A e \in Calls : e # c => phase'[e] = phase[e]
  BY <1>3 DEF RouteExecRemote, c, TInv, CallsTyped
<1>5. Unsent' \subseteq Unsent
  BY <1>3, <1>4 DEF Unsent
<1>6. Moved
  BY <1>1, <1>5, PlaceFrames, Shrunk DEF AInv, Places
<1>7. UserOnce'
  <2> SUFFICES ASSUME NEW k \in Nodes, NEW i \in 1 .. Len(user'[k]), user'[k][i] # "quit"
               PROVE  /\ phase'[user'[k][i]] = "queued" /\ From(user'[k][i]) = k
                      /\ \A j \in 1 .. Len(user'[k]) : user'[k][i] = user'[k][j] => i = j
    BY <1>1 DEF UserOnce, From
  <2>1. CASE k # n
    <3>1. user'[k] = user[k]
      BY <1>2, <2>1
    <3>2. /\ phase[user[k][i]] = "queued" /\ From(user[k][i]) = k
          /\ \A j \in 1 .. Len(user[k]) : user[k][i] = user[k][j] => i = j
      BY <3>1 DEF AInv, Places, UserOnce
    <3>3. user[k][i] \in Calls
      BY <3>1, ElementOfSeq DEF TInv, CallsTyped
    <3> QED BY <1>3, <1>4, <2>1, <3>1, <3>2, <3>3
  <2>2. CASE k = n
    <3>1. i + 1 \in 1 .. Len(user[n]) /\ user'[n][i] = user[n][i + 1]
      BY <1>2, <2>2
    <3>2. /\ phase[user[n][i + 1]] = "queued" /\ From(user[n][i + 1]) = n
          /\ \A j \in 1 .. Len(user[n]) : user[n][i + 1] = user[n][j] => i + 1 = j
      BY <2>2, <3>1 DEF AInv, Places, UserOnce
    <3>3. i + 1 # 1
      BY <2>2, <1>2
    <3>4. user[n][i + 1] # c
      BY <1>2, <3>2, <3>3
    <3>5. user[n][i + 1] \in Calls \cup {"quit"}
      BY <3>1, ElementOfSeq DEF TInv, CallsTyped
    <3>6. phase'[user'[n][i]] = "queued"
      BY <1>4, <2>2, <3>1, <3>2, <3>4, <3>5
    <3>7. ASSUME NEW j \in 1 .. Len(user'[n]), user'[n][i] = user'[n][j] PROVE i = j
      <4>1. j + 1 \in 1 .. Len(user[n]) /\ user'[n][j] = user[n][j + 1]
        BY <1>2
      <4>2. i + 1 = j + 1
        BY <3>1, <3>2, <3>7, <4>1
      <4> QED BY <1>2, <2>2, <4>2
    <3> QED BY <2>2, <3>1, <3>2, <3>6, <3>7
  <2> QED BY <2>1, <2>2
<1>8. CommandOnce' /\ RequestOnce'
  BY <1>1 DEF AInv, Places, CommandOnce, RequestOnce
<1> QED BY <1>6, <1>7, <1>8 DEF Places, Moved

\* Core handles a request: it has left the last of its places.
LEMMA MRouteInbound ==
    ASSUME TInv, PInv, AInv, NEW n \in Nodes, RouteInbound(n)
    PROVE  /\ Places' /\ Moved
           /\ Head(inbound[n]).call \in Calls /\ Head(inbound[n]).call \in Open /\ Head(inbound[n]).call \notin Open'
<1> DEFINE req == Head(inbound[n])
           c == req.call
<1>1. UNCHANGED <<phase, user, net, wire, cmds, call>> /\ inbound[n] # <<>>
  BY DEF RouteInbound, reqres, callers
<1>2. /\ req = inbound[n][1] /\ 1 \in 1 .. Len(inbound[n])
      /\ \A k \in Nodes : k # n => inbound'[k] = inbound[k]
      /\ \A i \in 1 .. Len(inbound'[n]) : i + 1 \in 1 .. Len(inbound[n]) /\ inbound'[n][i] = inbound[n][i + 1]
      /\ Len(inbound'[n]) = Len(inbound[n]) - 1 /\ Len(inbound[n]) \in Nat
  <2>1. inbound \in [Nodes -> Seq(Inbound)]
    BY DEF TInv, LoopsTyped
  <2> QED BY <2>1, Taken DEF RouteInbound
<1> HIDE DEF req
<1>3. c \in Calls /\ To(c) = n /\ c \in InQueue
  BY <1>2, InPlace
<1>4. ASSUME NEW i \in 1 .. Len(inbound'[n]) PROVE inbound[n][i + 1].call # c /\ i + 1 \in 1 .. Len(inbound[n])
  <2>1. i + 1 \in 1 .. Len(inbound[n]) /\ i + 1 # 1
    BY <1>2
  <2> QED BY <1>2, <2>1 DEF AInv, Places, RequestOnce
<1>5. InQueue' \subseteq InQueue \ {c}
  <2> SUFFICES ASSUME NEW e \in Calls, NEW i \in 1 .. Len(inbound'[To(e)]), inbound'[To(e)][i].call = e
               PROVE  e \in InQueue /\ e # c
    BY <1>1 DEF InQueue, To
  <2>1. To(e) \in Nodes
    BY CallFacts DEF TInv
  <2>2. CASE To(e) = n
    <3>1. inbound'[n][i] = inbound[n][i + 1] /\ inbound[n][i + 1].call # c /\ i + 1 \in 1 .. Len(inbound[n])
      BY <1>2, <1>4, <2>2
    <3> QED BY <2>2, <3>1 DEF InQueue
  <2>3. CASE To(e) # n
    <3>1. inbound'[To(e)] = inbound[To(e)]
      BY <1>2, <2>1, <2>3
    <3> QED BY <1>3, <2>3, <3>1 DEF InQueue
  <2> QED BY <2>2, <2>3
<1>6. Moved /\ c \in Open /\ c \notin Open'
  BY <1>1, <1>3, <1>5, PlaceFrames DEF AInv, Places, OnePlace, Moved, Open
<1>7. RequestOnce'
  <2> SUFFICES ASSUME NEW k \in Nodes, NEW i \in 1 .. Len(inbound'[k]), NEW j \in 1 .. Len(inbound'[k]),
                      inbound'[k][i].call = inbound'[k][j].call
               PROVE  i = j
    BY DEF RequestOnce
  <2>1. CASE k # n
    BY <1>2, <2>1 DEF AInv, Places, RequestOnce
  <2>2. CASE k = n
    <3>1. /\ i + 1 \in 1 .. Len(inbound[n]) /\ inbound'[n][i] = inbound[n][i + 1]
          /\ j + 1 \in 1 .. Len(inbound[n]) /\ inbound'[n][j] = inbound[n][j + 1]
      BY <1>2, <2>2
    <3>2. i + 1 = j + 1
      BY <2>2, <3>1 DEF AInv, Places, RequestOnce
    <3> QED BY <2>2, <1>2, <3>2
  <2> QED BY <2>1, <2>2
<1>8. UserOnce' /\ CommandOnce'
  BY <1>1 DEF AInv, Places, UserOnce, CommandOnce, From
<1> QED BY <1>3, <1>6, <1>7, <1>8 DEF Places, Moved, req

\* An answer in the channel of the event loop is no request.
LEMMA MCoreReply == ASSUME TInv, PInv, AInv, NEW n \in Nodes, CoreReply(n) PROVE Places' /\ Moved
<1> DEFINE x == [op |-> "SendResponse", id |-> core[n].id, data |-> core[n].data]
<1>1. UNCHANGED <<phase, user, net, wire, inbound, call>>
  BY DEF CoreReply, reqres, callers
<1>2. x \in Commands /\ x.op = "SendResponse"
  BY StateFacts, CommandFacts DEF TInv, LoopsTyped, CoreReply
<1>3. Len(cmds[n]) < CmdCap /\ cmds' = [cmds EXCEPT ![n] = Append(@, x)]
  BY DEF CoreReply
<1> HIDE DEF x
<1>4. \A k \in Nodes : \A i \in 1 .. Len(cmds'[k]) : cmds'[k][i].op = "SendData" =>
         i \in 1 .. Len(cmds[k]) /\ cmds'[k][i] = cmds[k][i]
  BY <1>2, <1>3, Queue
<1>5. InCommands' \subseteq InCommands
  <2>1. \A e \in Calls : From(e) \in Nodes
    BY CallFacts DEF TInv
  <2> QED BY <1>1, <1>4, <2>1 DEF InCommands, From
<1>6. Moved
  BY <1>1, <1>5, PlaceFrames, Shrunk DEF AInv, Places
<1>7. CommandOnce'
  BY <1>4 DEF AInv, Places, CommandOnce
<1>8. UserOnce' /\ RequestOnce'
  BY <1>1 DEF AInv, Places, UserOnce, RequestOnce, From
<1> QED BY <1>6, <1>7, <1>8 DEF Places, Moved

\* A node that quits takes what it holds with it.
LEMMA MQuit == ASSUME TInv, PInv, AInv, NEW n \in Nodes, Quit(n) PROVE Places' /\ Moved
<1>1. UNCHANGED <<wire, call>>
  BY DEF Quit
<1>2. /\ Len(cmds'[n]) = 0 /\ Len(inbound'[n]) = 0 /\ Len(user'[n]) = 0 /\ net'[n].at = "down"
      /\ \A k \in Nodes : k # n => /\ cmds'[k] = cmds[k] /\ inbound'[k] = inbound[k]
                                   /\ user'[k] = user[k] /\ net'[k] = net[k]
  BY StateFacts DEF Quit, TInv, LoopsTyped, CallsTyped
<1>3. \A c \in Calls : (phase'[c] = phase[c]) \/ (From(c) = n /\ phase'[c] = "gone")
  BY DEF Quit
<1>4. \A c \in Calls : From(c) \in Nodes /\ To(c) \in Nodes
  BY CallFacts DEF TInv
<1>5. Unsent' \subseteq Unsent
  BY <1>3 DEF Unsent
<1>6. InCommands' \subseteq InCommands
  BY <1>1, <1>2, <1>4 DEF InCommands, From
<1>7. InQueue' \subseteq InQueue /\ AtLoop' \subseteq AtLoop
  BY <1>1, <1>2, <1>4 DEF InQueue, AtLoop, To
<1>8. Moved
  BY <1>1, <1>5, <1>6, <1>7, PlaceFrames, Shrunk DEF AInv, Places
<1>9. UserOnce'
  <2> SUFFICES ASSUME NEW k \in Nodes, NEW i \in 1 .. Len(user'[k]), user'[k][i] # "quit"
               PROVE  /\ phase'[user'[k][i]] = "queued" /\ From(user'[k][i]) = k
                      /\ \A j \in 1 .. Len(user'[k]) : user'[k][i] = user'[k][j] => i = j
    BY <1>1 DEF UserOnce, From
  <2>1. k # n /\ user'[k] = user[k]
    BY <1>2
  <2>2. /\ phase[user[k][i]] = "queued" /\ From(user[k][i]) = k
        /\ \A j \in 1 .. Len(user[k]) : user[k][i] = user[k][j] => i = j
    BY <2>1 DEF AInv, Places, UserOnce
  <2>3. user[k][i] \in Calls \cup {"quit"}
    BY <2>1, ElementOfSeq DEF TInv, CallsTyped
  <2> QED BY <1>3, <2>1, <2>2, <2>3
<1>10. CommandOnce' /\ RequestOnce'
  BY <1>2 DEF AInv, Places, CommandOnce, RequestOnce
<1> QED BY <1>8, <1>9, <1>10 DEF Places, Moved

\* The event loop sends a request, or an answer.
LEMMA MHandleCommand == ASSUME TInv, PInv, AInv, NEW n \in Nodes, HandleCommand(n) PROVE Places' /\ Moved
<1> DEFINE x == Head(cmds[n])
<1>1. UNCHANGED <<phase, user, net, inbound, call>>
  BY DEF HandleCommand, callers
<1>2. /\ x \in Commands /\ x = cmds[n][1] /\ 1 \in 1 .. Len(cmds[n])
      /\ \A k \in Nodes : k # n => cmds'[k] = cmds[k]
      /\ \A i \in 1 .. Len(cmds'[n]) : i + 1 \in 1 .. Len(cmds[n]) /\ cmds'[n][i] = cmds[n][i + 1]
      /\ Len(cmds'[n]) = Len(cmds[n]) - 1 /\ Len(cmds[n]) \in Nat
  <2>1. cmds \in [Nodes -> Seq(Commands)]
    BY DEF TInv, LoopsTyped
  <2> QED BY <2>1, Taken DEF HandleCommand
<1> HIDE DEF x
<1>3. InCommands' \subseteq InCommands /\ (x.op = "SendData" => x.call \notin InCommands')
  <2>1. ASSUME NEW i \in 1 .. Len(cmds'[n]), x.op = "SendData", cmds'[n][i].op = "SendData"
        PROVE  cmds'[n][i].call # x.call
    <3>1. i + 1 \in 1 .. Len(cmds[n]) /\ i + 1 # 1 /\ cmds'[n][i] = cmds[n][i + 1]
      BY <1>2
    <3> QED BY <1>2, <2>1, <3>1 DEF AInv, Places, CommandOnce
  <2>2. ASSUME NEW e \in Calls, NEW i \in 1 .. Len(cmds'[From(e)]), cmds'[From(e)][i].op = "SendData",
               cmds'[From(e)][i].call = e
        PROVE  e \in InCommands /\ (x.op = "SendData" => x.call # e)
    <3>1. From(e) \in Nodes
      BY CallFacts DEF TInv
    <3>2. CASE From(e) = n
      <4>1. i + 1 \in 1 .. Len(cmds[n]) /\ cmds'[n][i] = cmds[n][i + 1]
        BY <1>2, <3>2
      <4> QED BY <2>1, <2>2, <3>2, <4>1 DEF InCommands
    <3>3. CASE From(e) # n
      <4>1. cmds'[From(e)] = cmds[From(e)]
        BY <1>2, <3>1, <3>3
      <4>2. x.op = "SendData" => From(x.call) = n
        BY <1>2, InPlace
      <4> QED BY <2>2, <3>3, <4>1, <4>2 DEF InCommands
    <3> QED BY <3>2, <3>3
  <2> QED BY <1>1, <2>2 DEF InCommands, From
<1>4. CommandOnce'
  <2> SUFFICES ASSUME NEW k \in Nodes, NEW i \in 1 .. Len(cmds'[k]), NEW j \in 1 .. Len(cmds'[k]),
                      cmds'[k][i].op = "SendData", cmds'[k][j].op = "SendData", cmds'[k][i].call = cmds'[k][j].call
               PROVE  i = j
    BY DEF CommandOnce
  <2>1. CASE k # n
    BY <1>2, <2>1 DEF AInv, Places, CommandOnce
  <2>2. CASE k = n
    <3>1. /\ i + 1 \in 1 .. Len(cmds[n]) /\ cmds'[n][i] = cmds[n][i + 1]
          /\ j + 1 \in 1 .. Len(cmds[n]) /\ cmds'[n][j] = cmds[n][j + 1]
      BY <1>2, <2>2
    <3>2. i + 1 = j + 1
      BY <2>2, <3>1 DEF AInv, Places, CommandOnce
    <3> QED BY <2>2, <1>2, <3>2
  <2> QED BY <2>1, <2>2
<1>5. Moved
  <2>1. CASE x.op = "SendData"
    <3>1. wire' = wire \cup {Request(x.call)}
      BY <2>1 DEF HandleCommand, x
    <3>2. x.call \in InCommands
      BY <1>2, <2>1, InPlace
    <3>3. OnWire' \subseteq OnWire \cup {x.call}
      <4>1. \A e \in Calls : Request(e)' = Request(e) /\ (Request(e) = Request(x.call) => e = x.call)
        BY <1>1 DEF Request
      <4> QED BY <3>1, <4>1 DEF OnWire
    <3> QED BY <1>1, <1>3, <2>1, <3>2, <3>3, PlaceFrames DEF AInv, Places, OnePlace, Moved, Open
  <2>2. CASE x.op # "SendData"
    <3>1. ASSUME NEW m \in wire', m \notin wire PROVE m.kind = "response"
      <4>1. x.op = "SendResponse" /\ wire' = wire \cup UNION {Response(pending_replies[n][id], x.data) :
                                                       id \in {x.id} \cap DOMAIN pending_replies[n]}
        BY <2>2, <3>1 DEF HandleCommand, x
      <4>2. x.data \in Answers
        BY <1>2, <4>1, CommandFacts
      <4> QED BY <3>1, <4>1, <4>2, ResponseFacts DEF TInv, TablesTyped
    <3>2. OnWire' \subseteq OnWire
      <4>1. \A e \in Calls : Request(e)' = Request(e) /\ Request(e).kind = "request"
        BY <1>1 DEF Request
      <4> QED BY <3>1, <4>1 DEF OnWire
    <3> QED BY <1>1, <1>3, <3>2, PlaceFrames, Shrunk DEF AInv, Places
  <2> QED BY <2>1, <2>2
<1>6. UserOnce' /\ RequestOnce'
  BY <1>1 DEF AInv, Places, UserOnce, RequestOnce, From
<1> QED BY <1>4, <1>5, <1>6 DEF Places, Moved

\* Request r is handed over: it is in the channel or at the loop, not in both.
LEMMA MHand ==
    ASSUME TInv, PInv, AInv, NEW n \in Nodes, net[n] = Select, NEW r \in Inbound, To(r.call) = n, HandToCore(n, r),
           r.call \notin InQueue, UNCHANGED call
    PROVE  /\ RequestOnce'
           /\ \/ AtLoop' \subseteq AtLoop \cup {r.call} /\ InQueue' = InQueue
              \/ AtLoop' = AtLoop /\ InQueue' \subseteq InQueue \cup {r.call}
<1>0. net \in [Nodes -> NetStates] /\ inbound \in [Nodes -> Seq(Inbound)]
  BY DEF TInv, LoopsTyped
<1>00. \A e \in Calls : To(e) \in Nodes
  BY CallFacts DEF TInv
<1>1. CASE Len(inbound[n]) < InboundCap
  <2>1. inbound' = [inbound EXCEPT ![n] = Append(@, r)] /\ net' = net
    BY <1>1 DEF HandToCore
  <2>2. /\ \A k \in Nodes : \A i \in 1 .. Len(inbound'[k]) :
              \/ i \in 1 .. Len(inbound[k]) /\ inbound'[k][i] = inbound[k][i]
              \/ k = n /\ i = Len(inbound[n]) + 1 /\ inbound'[k][i] = r
    BY <1>0, <2>1, Added
  <2>3. RequestOnce'
    <3> SUFFICES ASSUME NEW k \in Nodes, NEW i \in 1 .. Len(inbound'[k]), NEW j \in 1 .. Len(inbound'[k]),
                        inbound'[k][i].call = inbound'[k][j].call
                 PROVE  i = j
      BY DEF RequestOnce
    <3>1. \A l \in 1 .. Len(inbound[k]) : inbound[k][l].call # r.call
      BY InPlace
    <3> QED BY <2>2, <3>1 DEF AInv, Places, RequestOnce
  <2>4. InQueue' \subseteq InQueue \cup {r.call}
    BY <1>00, <2>2 DEF InQueue, To
  <2> QED BY <2>1, <2>3, <2>4, PlaceFrames
<1>2. CASE ~(Len(inbound[n]) < InboundCap)
  <2>1. net' = [net EXCEPT ![n] = [at |-> "forward", req |-> r]] /\ inbound' = inbound
    BY <1>2 DEF HandToCore
  <2>2. net'[n] = [at |-> "forward", req |-> r] /\ \A k \in Nodes : k # n => net'[k] = net[k]
    BY <1>0, <2>1
  <2>3. net'[n].req = r
    BY <2>2
  <2>4. AtLoop' \subseteq AtLoop \cup {r.call}
    BY <1>00, <2>2, <2>3 DEF AtLoop, To
  <2>5. RequestOnce'
    BY <2>1 DEF AInv, Places, RequestOnce
  <2> QED BY <2>1, <2>4, <2>5, PlaceFrames
<1> QED BY <1>1, <1>2

\* A request arrives: it is no longer under way.
LEMMA MRequestEvent ==
    ASSUME TInv, PInv, AInv, NEW n \in Nodes, NEW m \in wire, RequestEvent(n, m)
    PROVE  Places' /\ Moved /\ (UNCHANGED <<net, inbound>> => m.call \notin Open')
<1> DEFINE d == Read_Frame(m.frame)
           c == m.call
<1>1. UNCHANGED <<phase, user, cmds, tracked, call>> /\ net[n] = Select /\ m.kind = "request" /\ To(c) = n
  BY DEF RequestEvent, callers
<1>2. c \in Calls /\ m = Request(c) /\ c \in OnWire
  BY <1>1, RequestRead DEF OnWire
<1>3. OnWire' \subseteq OnWire \ {c}
  <2>1. ASSUME NEW x \in wire' PROVE (x \in wire /\ x # m) \/ x.kind = "response"
    <3>1. CASE wire' = wire \ {m}
      BY <3>1
    <3>2. CASE /\ d # BadFrame /\ d.data_type \in {"Data", "Info"}
               /\ wire' = (wire \ {m}) \cup Response(c, [data_type |-> d.data_type, payload |-> <<"OK">>, size |-> 1])
      <4> DEFINE a == [data_type |-> d.data_type, payload |-> <<"OK">>, size |-> 1]
      <4>1. a \in Answers
        BY <3>2 DEF Answers, DataTypes
      <4> HIDE DEF a
      <4>2. x \in wire \ {m} \/ x \in Response(c, a)
        BY <3>2 DEF a
      <4> QED BY <4>1, <4>2, ResponseFacts DEF TInv, TablesTyped
    <3> QED BY <3>1, <3>2 DEF RequestEvent
  <2>2. \A e \in Calls : Request(e)' = Request(e) /\ Request(e).kind = "request"
    BY <1>1 DEF Request
  <2> QED BY <1>2, <2>1, <2>2 DEF OnWire
<1>4. UserOnce' /\ CommandOnce'
  BY <1>1 DEF AInv, Places, UserOnce, CommandOnce, From
<1>5. CASE UNCHANGED <<net, inbound>>
  <2>1. Moved /\ c \notin Open'
    BY <1>1, <1>2, <1>3, <1>5, PlaceFrames DEF AInv, Places, OnePlace, Moved, Open
  <2>2. RequestOnce'
    BY <1>5 DEF AInv, Places, RequestOnce
  <2> QED BY <1>4, <2>1, <2>2 DEF Places, Moved
<1>6. CASE d # BadFrame /\ Register_Inbound(n, c, d) /\ ~UNCHANGED <<net, inbound>>
  <2> DEFINE r == [id |-> next_inbound_id[n], data_type |-> d.data_type, payload |-> d.payload, call |-> c]
  <2>1. d.data_type \in DOMAIN DataTypes /\ d.payload \in Payloads
    BY <1>1, <1>6, RequestRead
  <2> HIDE DEF d
  <2>2. r \in Inbound /\ r.call = c
    BY <1>2, <2>1 DEF TInv, TablesTyped, Inbound
  <2>3. HandToCore(n, r)
    BY <1>6 DEF Register_Inbound
  <2> HIDE DEF r
  <2>4. c \notin InQueue
    BY <1>2 DEF AInv, Places, OnePlace
  <2>5. /\ RequestOnce'
        /\ \/ AtLoop' \subseteq AtLoop \cup {c} /\ InQueue' = InQueue
           \/ AtLoop' = AtLoop /\ InQueue' \subseteq InQueue \cup {c}
    BY <1>1, <2>2, <2>3, <2>4, MHand
  <2>6. Moved
    BY <1>1, <1>2, <1>3, <2>5, PlaceFrames DEF AInv, Places, OnePlace, Moved, Open
  <2> QED BY <1>4, <1>6, <2>5, <2>6 DEF Places, Moved
<1> QED BY <1>5, <1>6 DEF RequestEvent

\* The request that waited at the event loop enters the channel.
LEMMA MForward == ASSUME TInv, PInv, AInv, NEW n \in Nodes, Forward(n) PROVE Places' /\ Moved
<1> DEFINE r == net[n].req
           c == r.call
<1>1. UNCHANGED <<phase, user, cmds, wire, call>> /\ net[n].at = "forward"
  BY DEF Forward, reqres, callers
<1>2. r \in Inbound /\ c \in Calls /\ To(c) = n /\ c \in AtLoop
  BY <1>1, StateFacts, InPlace DEF TInv, LoopsTyped
<1>3. /\ Len(inbound[n]) < InboundCap /\ inbound' = [inbound EXCEPT ![n] = Append(@, r)]
      /\ net'[n].at = "select" /\ \A k \in Nodes : k # n => net'[k] = net[k]
  BY StateFacts DEF Forward, TInv, LoopsTyped
<1> HIDE DEF r
<1>4. \A k \in Nodes : \A i \in 1 .. Len(inbound'[k]) :
         \/ i \in 1 .. Len(inbound[k]) /\ inbound'[k][i] = inbound[k][i]
         \/ k = n /\ i = Len(inbound[n]) + 1 /\ inbound'[k][i] = r
  BY <1>2, <1>3, QueueRequest
<1>5. \A e \in Calls : To(e) \in Nodes
  BY CallFacts DEF TInv
<1>6. InQueue' \subseteq InQueue \cup {c}
  BY <1>1, <1>4, <1>5 DEF InQueue, To
<1>7. AtLoop' \subseteq AtLoop \ {c}
  BY <1>1, <1>2, <1>3, <1>5 DEF AtLoop, To
<1>8. Moved
  BY <1>1, <1>2, <1>6, <1>7, PlaceFrames DEF AInv, Places, OnePlace, Moved, Open
<1>9. RequestOnce'
  <2> SUFFICES ASSUME NEW k \in Nodes, NEW i \in 1 .. Len(inbound'[k]), NEW j \in 1 .. Len(inbound'[k]),
                      inbound'[k][i].call = inbound'[k][j].call
               PROVE  i = j
    BY DEF RequestOnce
  <2>1. c \notin InQueue
    BY <1>2 DEF AInv, Places, OnePlace
  <2>2. \A l \in 1 .. Len(inbound[k]) : inbound[k][l].call # c
    BY <2>1, InPlace
  <2>3. RequestOnce
    BY DEF AInv, Places
  <2>4. CASE i \in 1 .. Len(inbound[k]) /\ inbound'[k][i] = inbound[k][i]
    BY <1>4, <2>2, <2>3, <2>4 DEF RequestOnce
  <2>5. CASE k = n /\ i = Len(inbound[n]) + 1 /\ inbound'[k][i] = r
    BY <1>4, <2>2, <2>5
  <2> QED BY <1>4, <2>4, <2>5
<1>10. UserOnce' /\ CommandOnce'
  BY <1>1 DEF AInv, Places, UserOnce, CommandOnce, From
<1> QED BY <1>8, <1>9, <1>10 DEF Places, Moved

(***************************************************************************)
(* That answers suit their calls.                                          *)
(***************************************************************************)
\* Answer d suits call c after the step.
FitsNext(c, d) ==
    /\ c \notin Open'
    /\ d.data_type = call'[c].data.data_type
    /\ d.payload = <<"OK">> /\ d.data_type = "Command" => ran'[c] = 1
    /\ d.payload = <<"FAIL">> => ran'[c] = 0

\* An answer goes on to suit its call: the request is not handled again.
LEMMA FitsKept ==
    ASSUME Moved, UNCHANGED call, NEW c, NEW d, Fits(c, d), ran'[c] = ran[c]
    PROVE  FitsNext(c, d)
BY DEF Moved, Fits, FitsNext

\* The parts of AInv after a step, in terms of FitsNext.
LEMMA RanNext ==
    ASSUME TInv, AInv, Moved, UNCHANGED ran
    PROVE  RanOnce'
BY DEF AInv, RanOnce, Moved

\* Who gets nothing new: callers that end before their request is sent have no
\* answer.
LEMMA ResultsNext ==
    ASSUME TInv, AInv, Moved, UNCHANGED <<call, ran, result>>,
           \A c \in Calls : /\ phase'[c] \in {"new", "queued", "sending"} => phase[c] \in {"new", "queued", "sending"}
                            /\ phase'[c] = "done" => phase[c] \in {"new", "queued", "sending", "done"}
    PROVE  ResultsFit'
<1> SUFFICES ASSUME NEW c \in Calls
             PROVE  /\ c \in Unsent' => result[c] = NoAnswer
                    /\ phase'[c] = "done" => result[c] = NoAnswer \/ FitsNext(c, result[c])
  BY DEF ResultsFit, FitsNext, Fits, NoAnswer
<1>1. c \in Unsent' => c \in Unsent
  BY DEF Unsent
<1>2. c \in Unsent => result[c] = NoAnswer
  BY DEF AInv, ResultsFit
<1>3. ASSUME phase'[c] = "done" PROVE c \in Unsent \/ phase[c] = "done"
  BY <1>3 DEF Unsent
<1>4. phase[c] = "done" => result[c] = NoAnswer \/ FitsNext(c, result[c])
  BY FitsKept DEF AInv, ResultsFit
<1> QED BY <1>1, <1>2, <1>3, <1>4

\* A caller that listens gets nothing, or an answer that suits its call.
LEMMA ResultsDelivered ==
    ASSUME TInv, AInv, Moved, UNCHANGED <<call, ran>>, NEW c \in Calls, NEW r, Deliver(c, r) \/ UNCHANGED callers,
           r = NoAnswer \/ Fits(c, r)
    PROVE  ResultsFit'
<1>1. CASE UNCHANGED callers
  BY <1>1, ResultsNext DEF callers
<1>2. CASE Deliver(c, r) /\ phase[c] # "waiting"
  BY <1>2, ResultsNext DEF callers, Deliver
<1>3. CASE Deliver(c, r) /\ phase[c] = "waiting"
  <2>1. /\ phase'[c] = "done" /\ result'[c] = r
        /\ \A e \in Calls : e # c => phase'[e] = phase[e] /\ result'[e] = result[e]
    BY <1>3 DEF Deliver, TInv, CallsTyped
  <2> SUFFICES ASSUME NEW e \in Calls
               PROVE  /\ e \in Unsent' => result'[e] = NoAnswer
                      /\ phase'[e] = "done" => result'[e] = NoAnswer \/ FitsNext(e, result'[e])
    BY DEF ResultsFit, FitsNext, Fits, NoAnswer
  <2>2. CASE e = c
    <3>1. r = NoAnswer \/ FitsNext(c, r)
      BY FitsKept
    <3> QED BY <2>1, <2>2, <3>1 DEF Unsent
  <2>3. CASE e # c
    <3>1. e \in Unsent' => e \in Unsent
      BY <2>1, <2>3 DEF Unsent
    <3>2. phase[e] = "done" => result[e] = NoAnswer \/ FitsNext(e, result[e])
      BY FitsKept DEF AInv, ResultsFit
    <3> QED BY <2>1, <2>3, <3>1, <3>2 DEF AInv, ResultsFit
  <2> QED BY <2>2, <2>3
<1> QED BY <1>1, <1>2, <1>3

\* The answers in Core and in its channel are those that were there, and the
\* table gets at most a new id.
LEMMA RepliesNext ==
    ASSUME TInv, PInv, AInv, Moved, UNCHANGED <<call, ran>>,
           \A n \in Nodes : \A id \in DOMAIN pending_replies'[n] :
              \/ id \in DOMAIN pending_replies[n] /\ pending_replies'[n][id] = pending_replies[n][id]
              \/ id = next_inbound_id[n],
           \A n \in Nodes : core'[n].at = "reply" => core'[n] = core[n],
           \A n \in Nodes : \A i \in 1 .. Len(cmds'[n]) : cmds'[n][i].op = "SendResponse" =>
              \/ \E j \in 1 .. Len(cmds[n]) : cmds'[n][i] = cmds[n][j]
              \/ core[n].at = "reply" /\ cmds'[n][i].id = core[n].id /\ cmds'[n][i].data = core[n].data
    PROVE  RepliesFit'
<1>1. ASSUME NEW n \in Nodes, NEW id \in DOMAIN pending_replies'[n], core[n].at = "reply", core[n].id = id
      PROVE  FitsNext(pending_replies'[n][id], core[n].data)
  <2>1. core[n].id < next_inbound_id[n]
    BY <1>1 DEF PInv, RequestsPaired
  <2>2. core[n].id \in Nat /\ next_inbound_id[n] \in Nat
    BY <1>1, StateFacts DEF TInv, LoopsTyped, TablesTyped
  <2>3. id # next_inbound_id[n]
    BY <1>1, <2>1, <2>2
  <2>4. id \in DOMAIN pending_replies[n] /\ pending_replies'[n][id] = pending_replies[n][id]
    BY <2>3
  <2>5. Fits(pending_replies[n][id], core[n].data)
    BY <1>1, <2>4 DEF AInv, RepliesFit
  <2> QED BY <2>4, <2>5, FitsKept
<1>2. ASSUME NEW n \in Nodes, NEW id \in DOMAIN pending_replies'[n], NEW j \in 1 .. Len(cmds[n]),
             cmds[n][j].op = "SendResponse", cmds[n][j].id = id
      PROVE  FitsNext(pending_replies'[n][id], cmds[n][j].data)
  <2>0. cmds[n][j] \in Commands
    BY ElementOfSeq DEF TInv, LoopsTyped
  <2>1. cmds[n][j].id < next_inbound_id[n]
    BY <1>2 DEF PInv, RequestsPaired
  <2>2. cmds[n][j].id \in Nat /\ next_inbound_id[n] \in Nat
    BY <1>2, <2>0, CommandFacts DEF TInv, TablesTyped
  <2>3. id # next_inbound_id[n]
    BY <1>2, <2>1, <2>2
  <2>4. id \in DOMAIN pending_replies[n] /\ pending_replies'[n][id] = pending_replies[n][id]
    BY <2>3
  <2>5. Fits(pending_replies[n][id], cmds[n][j].data)
    BY <1>2, <2>4 DEF AInv, RepliesFit
  <2> QED BY <2>4, <2>5, FitsKept
<1>3. ASSUME NEW n \in Nodes, NEW id \in DOMAIN pending_replies'[n]
      PROVE  /\ core'[n].at = "reply" /\ core'[n].id = id => FitsNext(pending_replies'[n][id], core'[n].data)
             /\ \A i \in 1 .. Len(cmds'[n]) : cmds'[n][i].op = "SendResponse" /\ cmds'[n][i].id = id =>
                   FitsNext(pending_replies'[n][id], cmds'[n][i].data)
  <2>1. ASSUME core'[n].at = "reply", core'[n].id = id PROVE FitsNext(pending_replies'[n][id], core'[n].data)
    <3>1. core'[n] = core[n]
      BY <2>1
    <3> QED BY <1>1, <2>1, <3>1
  <2>2. ASSUME NEW i \in 1 .. Len(cmds'[n]), cmds'[n][i].op = "SendResponse", cmds'[n][i].id = id
        PROVE  FitsNext(pending_replies'[n][id], cmds'[n][i].data)
    <3>1. CASE \E j \in 1 .. Len(cmds[n]) : cmds'[n][i] = cmds[n][j]
      BY <1>2, <2>2, <3>1
    <3>2. CASE core[n].at = "reply" /\ cmds'[n][i].id = core[n].id /\ cmds'[n][i].data = core[n].data
      BY <1>1, <2>2, <3>2
    <3> QED BY <2>2, <3>1, <3>2
  <2> QED BY <2>1, <2>2
<1> QED BY <1>3 DEF RepliesFit, Fits, FitsNext

\* What is new on the wire suits its call.
LEMMA WireNext ==
    ASSUME TInv, AInv, Moved, UNCHANGED <<call, ran>>,
           \A m \in wire' : m \in wire \/ (m.kind = "response" =>
              \E d \in Answers : m.frame = Write_Frame(d) /\ FitsNext(m.call, d))
    PROVE  WireFits'
<1> SUFFICES ASSUME NEW m \in wire', m.kind = "response"
             PROVE  \E d \in Answers : m.frame = Write_Frame(d) /\ FitsNext(m.call, d)
  BY DEF WireFits, Fits, FitsNext, Answers
<1>1. CASE m \in wire
  <2>1. PICK d \in Answers : m.frame = Write_Frame(d) /\ Fits(m.call, d)
    BY <1>1 DEF AInv, WireFits
  <2>2. FitsNext(m.call, d)
    BY <2>1, FitsKept
  <2> QED BY <2>1, <2>2
<1> QED BY <1>1

\* A step that makes no answer and leaves the way of the answers alone.
LEMMA AQuiet ==
    ASSUME TInv, PInv, AInv, Places', Moved, UNCHANGED <<call, ran, pending_replies, core, cmds>>, wire' \subseteq wire,
           ResultsFit'
    PROVE  AInv'
<1>1. RepliesFit'
  BY RepliesNext
<1>2. WireFits'
  BY WireNext
<1>3. RanOnce'
  BY RanNext
<1> QED BY <1>1, <1>2, <1>3 DEF AInv

\* The callers.
LEMMA AStart == ASSUME TInv, PInv, AInv, NEW c \in Calls, Start(c) PROVE AInv'
<1>1. UNCHANGED <<call, ran, result, pending_replies, core, cmds, wire>> /\ phase[c] = "new"
  BY DEF Start, reqres
<1>2. phase'[c] \in {"queued", "sending"} /\ \A e \in Calls : e # c => phase'[e] = phase[e]
  BY DEF Start, TInv, CallsTyped
<1>3. Places' /\ Moved
  BY MStart
<1>4. ResultsFit'
  BY <1>1, <1>2, <1>3, ResultsNext
<1> QED BY <1>1, <1>3, <1>4, AQuiet

\* A command that has no answer ends its call, which has got none.
LEMMA ASendCommand == ASSUME TInv, PInv, AInv, NEW c \in Calls, SendCommand(c) PROVE AInv'
<1> DEFINE n == From(c)
           x == [op |-> call[c].op, call |-> c]
<1>1. UNCHANGED <<call, ran, result, pending_replies, core, wire>> /\ phase[c] = "sending"
  BY DEF SendCommand, reqres
<1>2. phase'[c] \in {"waiting", "done"} /\ \A e \in Calls : e # c => phase'[e] = phase[e]
  BY DEF SendCommand, TInv, CallsTyped
<1>3. Places' /\ Moved
  BY MSendCommand
<1>4. ResultsFit'
  BY <1>1, <1>2, <1>3, ResultsNext
<1>5. n \in Nodes /\ x \in Commands /\ x.op # "SendResponse"
  BY CallFacts, CommandFacts DEF TInv
<1>6. Len(cmds[n]) < CmdCap /\ cmds' = [cmds EXCEPT ![n] = Append(@, x)]
  BY DEF SendCommand
<1> HIDE DEF n, x
<1>7. \A k \in Nodes : \A i \in 1 .. Len(cmds'[k]) : cmds'[k][i].op = "SendResponse" =>
         i \in 1 .. Len(cmds[k]) /\ cmds'[k][i] = cmds[k][i]
  BY <1>5, <1>6, Queue
<1>8. RepliesFit'
  BY <1>1, <1>3, <1>7, RepliesNext
<1>9. RanOnce' /\ WireFits'
  BY <1>1, <1>3, RanNext, WireNext
<1> QED BY <1>3, <1>4, <1>8, <1>9 DEF AInv

\* A caller gives up.
LEMMA AResponseTimeout == ASSUME TInv, PInv, AInv, NEW c \in Calls, ResponseTimeout(c) PROVE AInv'
<1>1. /\ UNCHANGED <<call, ran, user, net, inbound, pending_replies, core, cmds, wire>>
      /\ phase[c] = "waiting" /\ Deliver(c, NoAnswer)
  BY DEF ResponseTimeout, reqres
<1>2. phase' = [phase EXCEPT ![c] = "done"]
  BY <1>1 DEF Deliver
<1>3. Places' /\ Moved
  BY <1>1, <1>2, PlaceFrames, MPhases
<1>4. ResultsFit'
  BY <1>1, <1>3, ResultsDelivered
<1> QED BY <1>1, <1>3, <1>4, AQuiet

\* The user and Core.
LEMMA ATypeQuit == ASSUME TInv, PInv, AInv, NEW n \in Nodes, TypeQuit(n) PROVE AInv'
<1>1. UNCHANGED <<call, ran, phase, result, pending_replies, core, cmds, wire>>
  BY DEF TypeQuit, reqres, callers
<1>2. Places' /\ Moved
  BY MTypeQuit
<1>3. ResultsFit'
  BY <1>1, <1>2, ResultsNext
<1> QED BY <1>1, <1>2, <1>3, AQuiet

\* A name that is not in the peer table ends the call without an answer.
LEMMA ARouteExecRemote == ASSUME TInv, PInv, AInv, NEW n \in Nodes, RouteExecRemote(n) PROVE AInv'
<1> DEFINE c == Head(user[n])
<1>1. UNCHANGED <<call, ran, result, pending_replies, cmds, wire>> /\ core[n] = Select /\ c # "quit"
  BY DEF RouteExecRemote, reqres
<1>2. c \in Calls \cup {"quit"} /\ c = user[n][1] /\ 1 \in 1 .. Len(user[n])
  <2>1. user \in [Nodes -> Seq(Calls \cup {"quit"})]
    BY DEF TInv, CallsTyped
  <2> QED BY <2>1, Taken DEF RouteExecRemote
<1> HIDE DEF c
<1>3. c \in Calls /\ phase[c] = "queued"
  BY <1>1, <1>2 DEF AInv, Places, UserOnce
<1>4. \A e \in Calls : e # c => phase'[e] = phase[e]
  BY <1>3 DEF RouteExecRemote, c, TInv, CallsTyped
<1>5. Places' /\ Moved
  BY MRouteExecRemote
<1>6. ResultsFit'
  BY <1>1, <1>3, <1>4, <1>5, ResultsNext
<1>7. \A k \in Nodes : core'[k].at = "reply" => core'[k] = core[k]
  BY StateFacts DEF RouteExecRemote, TInv, LoopsTyped
<1>8. RepliesFit'
  BY <1>1, <1>5, <1>7, RepliesNext
<1>9. RanOnce' /\ WireFits'
  BY <1>1, <1>5, RanNext, WireNext
<1> QED BY <1>5, <1>6, <1>8, <1>9 DEF AInv

\* Core is back in its select.
LEMMA ACoreResume == ASSUME TInv, PInv, AInv, NEW n \in Nodes, CoreResume(n) PROVE AInv'
<1>1. UNCHANGED <<call, ran, phase, result, user, net, inbound, pending_replies, cmds, wire>>
  BY DEF CoreResume, reqres, callers
<1>2. Places' /\ Moved
  BY <1>1, PlaceFrames, MPhases
<1>3. ResultsFit'
  BY <1>1, <1>2, ResultsNext
<1>4. \A k \in Nodes : core'[k].at = "reply" => core'[k] = core[k]
  BY StateFacts DEF CoreResume, TInv, LoopsTyped
<1>5. RepliesFit'
  BY <1>1, <1>2, <1>4, RepliesNext
<1>6. RanOnce' /\ WireFits'
  BY <1>1, <1>2, RanNext, WireNext
<1> QED BY <1>2, <1>3, <1>5, <1>6 DEF AInv

\* The answer of Core goes into its channel as it is.
LEMMA ACoreReply == ASSUME TInv, PInv, AInv, NEW n \in Nodes, CoreReply(n) PROVE AInv'
<1> DEFINE x == [op |-> "SendResponse", id |-> core[n].id, data |-> core[n].data]
<1>1. UNCHANGED <<call, ran, phase, result, pending_replies, wire>> /\ core[n].at = "reply"
  BY DEF CoreReply, reqres, callers
<1>2. x \in Commands /\ x.id = core[n].id /\ x.data = core[n].data
  BY StateFacts, CommandFacts DEF TInv, LoopsTyped, CoreReply
<1>3. Len(cmds[n]) < CmdCap /\ cmds' = [cmds EXCEPT ![n] = Append(@, x)] /\ core' = [core EXCEPT ![n] = Select]
  BY DEF CoreReply
<1> HIDE DEF x
<1>4. \A k \in Nodes : core'[k].at = "reply" => core'[k] = core[k]
  BY <1>3, StateFacts DEF TInv, LoopsTyped
<1>5. \A k \in Nodes : \A i \in 1 .. Len(cmds'[k]) :
         \/ i \in 1 .. Len(cmds[k]) /\ cmds'[k][i] = cmds[k][i]
         \/ k = n /\ cmds'[k][i] = x
  BY <1>2, <1>3, Queue
<1>6. Places' /\ Moved
  BY MCoreReply
<1>7. ResultsFit'
  BY <1>1, <1>6, ResultsNext
<1>8. RepliesFit'
  BY <1>1, <1>2, <1>4, <1>5, <1>6, RepliesNext
<1>9. RanOnce' /\ WireFits'
  BY <1>1, <1>6, RanNext, WireNext
<1> QED BY <1>6, <1>7, <1>8, <1>9 DEF AInv

\* Nothing of the node that quits is left; what the others know stays.
LEMMA AQuit == ASSUME TInv, PInv, AInv, NEW n \in Nodes, Quit(n) PROVE AInv'
<1>1. UNCHANGED <<call, ran, result, wire>>
  BY DEF Quit
<1>2. /\ Len(cmds'[n]) = 0 /\ core'[n].at = "down" /\ DOMAIN pending_replies'[n] = {}
      /\ \A k \in Nodes : k # n => /\ cmds'[k] = cmds[k] /\ core'[k] = core[k]
                                   /\ pending_replies'[k] = pending_replies[k]
  BY StateFacts DEF Quit, TInv, LoopsTyped, TablesTyped
<1>3. \A c \in Calls : phase'[c] = phase[c] \/ phase'[c] = "gone"
  BY DEF Quit
<1>4. Places' /\ Moved
  BY MQuit
<1>5. ResultsFit'
  BY <1>1, <1>3, <1>4, ResultsNext
<1>6. RepliesFit'
  <2>1. \A k \in Nodes : \A id \in DOMAIN pending_replies'[k] :
           id \in DOMAIN pending_replies[k] /\ pending_replies'[k][id] = pending_replies[k][id]
    BY <1>2
  <2>2. \A k \in Nodes : core'[k].at = "reply" => core'[k] = core[k]
    BY <1>2
  <2>3. \A k \in Nodes : \A i \in 1 .. Len(cmds'[k]) : i \in 1 .. Len(cmds[k]) /\ cmds'[k][i] = cmds[k][i]
    BY <1>2
  <2> QED BY <1>1, <1>4, <2>1, <2>2, <2>3, RepliesNext
<1>7. RanOnce' /\ WireFits'
  BY <1>1, <1>4, RanNext, WireNext
<1> QED BY <1>4, <1>5, <1>6, <1>7 DEF AInv

\* Core handles a request: the answer says whether the program was started, and
\* the request will not be handled again.
LEMMA ARouteInbound == ASSUME TInv, PInv, AInv, NEW n \in Nodes, RouteInbound(n) PROVE AInv'
<1> DEFINE req == Head(inbound[n])
           c == req.call
<1>1. UNCHANGED <<call, phase, result, pending_replies, next_inbound_id, cmds, wire>> /\ core[n] = Select
  BY DEF RouteInbound, reqres, callers
<1>2. Places' /\ Moved /\ c \in Calls /\ c \in Open /\ c \notin Open'
  BY MRouteInbound
<1>3. req = inbound[n][1] /\ 1 \in 1 .. Len(inbound[n])
  <2>1. inbound \in [Nodes -> Seq(Inbound)]
    BY DEF TInv, LoopsTyped
  <2> QED BY <2>1, Taken DEF RouteInbound
<1>4. Paired(n, req)
  BY <1>3 DEF PInv, RequestsPaired
<1> HIDE DEF req
<1>5. ran[c] = 0 /\ \A e \in Calls : ran[e] <= 1
  BY <1>2 DEF AInv, RanOnce
<1>6. \/ /\ req.data_type = "Command"
         /\ core'[n] = [at |-> "reply", id |-> req.id, data |-> CommandData(<<"OK">>)]
         /\ ran' = [ran EXCEPT ![c] = @ + 1] /\ \A k \in Nodes : k # n => core'[k] = core[k]
      \/ /\ req.data_type = "Command"
         /\ core'[n] = [at |-> "reply", id |-> req.id, data |-> CommandData(<<"FAIL">>)]
         /\ ran' = ran /\ \A k \in Nodes : k # n => core'[k] = core[k]
      \/ core' = core /\ ran' = ran
  BY DEF RouteInbound, req, TInv, LoopsTyped
<1>7. ran'[c] \in {0, 1} /\ \A e \in Calls : e # c => ran'[e] = ran[e]
  BY <1>2, <1>5, <1>6 DEF TInv, CallsTyped
<1>8. RanOnce'
  <2>1. \A e \in Calls : ran'[e] <= 1
    BY <1>5, <1>7
  <2>2. \A e \in Calls : e \in Open' => ran'[e] = 0
    BY <1>2, <1>7 DEF AInv, RanOnce, Moved
  <2> QED BY <2>1, <2>2 DEF RanOnce
<1>9. ASSUME NEW e \in Calls, NEW d, Fits(e, d) PROVE FitsNext(e, d)
  <2>1. e # c
    BY <1>2, <1>9 DEF Fits
  <2> QED BY <1>1, <1>2, <1>7, <1>9, <2>1, FitsKept
<1>10. ResultsFit'
  <2> SUFFICES ASSUME NEW e \in Calls
               PROVE  /\ e \in Unsent => result[e] = NoAnswer
                      /\ phase[e] = "done" => result[e] = NoAnswer \/ FitsNext(e, result[e])
    BY <1>1 DEF ResultsFit, FitsNext, Fits, NoAnswer, Unsent
  <2> QED BY <1>9 DEF AInv, ResultsFit
<1>11. WireFits'
  <2> SUFFICES ASSUME NEW m \in wire, m.kind = "response"
               PROVE  \E d \in Answers : m.frame = Write_Frame(d) /\ FitsNext(m.call, d)
    BY <1>1 DEF WireFits, Fits, FitsNext, Answers
  <2>1. PICK d \in Answers : m.frame = Write_Frame(d) /\ Fits(m.call, d)
    BY DEF AInv, WireFits
  <2>2. m.call \in Calls
    BY WireFacts DEF TInv
  <2> QED BY <1>9, <2>1, <2>2
<1>12. ASSUME core'[n].at = "reply" PROVE core'[n].id = req.id /\ FitsNext(c, core'[n].data)
  <2>1. core[n].at # "reply"
    BY <1>1, StateFacts
  <2>2. req.data_type = call[c].data.data_type
    BY <1>4 DEF Paired
  <2>3. CASE req.data_type = "Command" /\ core'[n] = [at |-> "reply", id |-> req.id, data |-> CommandData(<<"OK">>)]
             /\ ran' = [ran EXCEPT ![c] = @ + 1]
    <3>1. ran'[c] = 1
      BY <1>2, <1>5, <2>3 DEF TInv, CallsTyped
    <3>2. core'[n].id = req.id /\ core'[n].data = CommandData(<<"OK">>)
      BY <2>3
    <3>3. CommandData(<<"OK">>).data_type = "Command" /\ CommandData(<<"OK">>).payload # <<"FAIL">>
      BY DEF CommandData
    <3> QED BY <1>1, <1>2, <2>2, <2>3, <3>1, <3>2, <3>3 DEF FitsNext
  <2>4. CASE req.data_type = "Command" /\ core'[n] = [at |-> "reply", id |-> req.id, data |-> CommandData(<<"FAIL">>)]
             /\ ran' = ran
    <3>1. core'[n].id = req.id /\ core'[n].data = CommandData(<<"FAIL">>)
      BY <2>4
    <3>2. CommandData(<<"FAIL">>).data_type = "Command" /\ CommandData(<<"FAIL">>).payload # <<"OK">>
      BY DEF CommandData
    <3> QED BY <1>1, <1>2, <1>5, <2>2, <2>4, <3>1, <3>2 DEF FitsNext
  <2> QED BY <1>6, <1>12, <2>1, <2>3, <2>4
<1>13. RepliesFit'
  <2>1. ASSUME NEW k \in Nodes, NEW id \in DOMAIN pending_replies[k], core'[k].at = "reply", core'[k].id = id
        PROVE  FitsNext(pending_replies[k][id], core'[k].data)
    <3>1. CASE k = n
      <4>1. pending_replies[n][id] = c
        BY <1>4, <1>12, <2>1, <3>1 DEF Paired
      <4> QED BY <1>12, <2>1, <3>1, <4>1
    <3>2. CASE k # n
      <4>1. core'[k] = core[k]
        BY <1>6, <3>2
      <4>2. Fits(pending_replies[k][id], core[k].data) /\ pending_replies[k][id] \in Calls
        BY <2>1, <4>1 DEF AInv, RepliesFit, TInv, TablesTyped
      <4> QED BY <1>9, <4>1, <4>2
    <3> QED BY <3>1, <3>2
  <2>2. ASSUME NEW k \in Nodes, NEW id \in DOMAIN pending_replies[k], NEW i \in 1 .. Len(cmds[k]),
               cmds[k][i].op = "SendResponse", cmds[k][i].id = id
        PROVE  FitsNext(pending_replies[k][id], cmds[k][i].data)
    <3>1. Fits(pending_replies[k][id], cmds[k][i].data) /\ pending_replies[k][id] \in Calls
      BY <2>2 DEF AInv, RepliesFit, TInv, TablesTyped
    <3> QED BY <1>9, <3>1
  <2> QED BY <1>1, <2>1, <2>2 DEF RepliesFit, Fits, FitsNext
<1> QED BY <1>2, <1>8, <1>10, <1>11, <1>13 DEF AInv

\* The event loop sends a request, or the answer of Core under its id.
LEMMA AHandleCommand == ASSUME TInv, PInv, AInv, NEW n \in Nodes, HandleCommand(n) PROVE AInv'
<1> DEFINE x == Head(cmds[n])
<1>1. UNCHANGED <<call, ran, phase, result, core, next_inbound_id>>
  BY DEF HandleCommand, callers
<1>2. /\ x \in Commands /\ x = cmds[n][1] /\ 1 \in 1 .. Len(cmds[n])
      /\ \A k \in Nodes : k # n => cmds'[k] = cmds[k]
      /\ \A i \in 1 .. Len(cmds'[n]) : i + 1 \in 1 .. Len(cmds[n]) /\ cmds'[n][i] = cmds[n][i + 1]
  <2>1. cmds \in [Nodes -> Seq(Commands)]
    BY DEF TInv, LoopsTyped
  <2> QED BY <2>1, Taken DEF HandleCommand
<1>3. Places' /\ Moved
  BY MHandleCommand
<1> HIDE DEF x
<1>4. \A k \in Nodes : \A id \in DOMAIN pending_replies'[k] :
         id \in DOMAIN pending_replies[k] /\ pending_replies'[k][id] = pending_replies[k][id]
  <2>1. CASE pending_replies' = Take_Reply_Channel(n, x.id)
    <3>1. /\ pending_replies'[n] = [id \in DOMAIN pending_replies[n] \ {x.id} |-> pending_replies[n][id]]
          /\ \A k \in Nodes : k # n => pending_replies'[k] = pending_replies[k]
      BY <2>1 DEF Take_Reply_Channel, Restrict, TInv, TablesTyped
    <3> QED BY <3>1
  <2>2. CASE pending_replies' = pending_replies
    BY <2>2
  <2> QED BY <2>1, <2>2 DEF HandleCommand, x
<1>5. \A k \in Nodes : \A i \in 1 .. Len(cmds'[k]) : \E j \in 1 .. Len(cmds[k]) : cmds'[k][i] = cmds[k][j]
  BY <1>2
<1>6. RepliesFit'
  BY <1>1, <1>3, <1>4, <1>5, RepliesNext
<1>7. ASSUME NEW m \in wire', m \notin wire, m.kind = "response"
      PROVE  \E d \in Answers : m.frame = Write_Frame(d) /\ FitsNext(m.call, d)
  <2>1. CASE x.op = "SendData"
    <3>1. m = Request(x.call)
      BY <1>7, <2>1 DEF HandleCommand, x
    <3> QED BY <1>7, <3>1 DEF Request
  <2>2. CASE x.op = "SendResponse"
    <3>1. wire' = wire \cup UNION {Response(pending_replies[n][id], x.data) :
                                     id \in {x.id} \cap DOMAIN pending_replies[n]}
      BY <2>2 DEF HandleCommand, x
    <3>2. x.id \in DOMAIN pending_replies[n] /\ m \in Response(pending_replies[n][x.id], x.data)
      BY <1>7, <3>1
    <3>3. x.data \in Answers
      BY <1>2, <2>2, CommandFacts
    <3>4. m.call = pending_replies[n][x.id] /\ m.frame = Write_Frame(x.data)
      BY <3>2, <3>3, ResponseFacts DEF TInv, TablesTyped
    <3>5. Fits(pending_replies[n][x.id], x.data)
      BY <1>2, <2>2, <3>2 DEF AInv, RepliesFit
    <3>6. FitsNext(m.call, x.data)
      BY <1>1, <1>3, <3>4, <3>5, FitsKept
    <3> QED BY <3>3, <3>4, <3>6
  <2>3. CASE x.op = "Other"
    BY <1>7, <2>3 DEF HandleCommand, x
  <2> QED BY <2>1, <2>2, <2>3 DEF HandleCommand, x
<1>8. WireFits'
  BY <1>1, <1>3, <1>7, WireNext
<1>9. RanOnce' /\ ResultsFit'
  BY <1>1, <1>3, RanNext, ResultsNext
<1> QED BY <1>3, <1>6, <1>8, <1>9 DEF AInv

\* A request arrives: the event loop answers it itself, or gives it a new id.
LEMMA ARequestEvent == ASSUME TInv, PInv, AInv, NEW n \in Nodes, NEW m \in wire, RequestEvent(n, m) PROVE AInv'
<1> DEFINE d == Read_Frame(m.frame)
           c == m.call
<1>1. UNCHANGED <<call, ran, phase, result, core, cmds, tracked>> /\ m.kind = "request"
  BY DEF RequestEvent, callers
<1>2. Places' /\ Moved /\ (UNCHANGED <<net, inbound>> => c \notin Open')
  BY MRequestEvent
<1>3. c \in Calls /\ (d # BadFrame => d.data_type = call[c].data.data_type)
  BY <1>1, RequestRead
<1> HIDE DEF d
<1>4. \A k \in Nodes : \A id \in DOMAIN pending_replies'[k] :
         \/ id \in DOMAIN pending_replies[k] /\ pending_replies'[k][id] = pending_replies[k][id]
         \/ id = next_inbound_id[k]
  <2>1. CASE pending_replies' = pending_replies
    BY <2>1
  <2>2. CASE Register_Inbound(n, c, d)
    BY <2>2, Registered
  <2> QED BY <2>1, <2>2 DEF RequestEvent, d
<1>5. RepliesFit'
  BY <1>1, <1>2, <1>4, RepliesNext
<1>6. WireFits'
  <2>1. CASE wire' = wire \ {m}
    BY <1>1, <1>2, <2>1, WireNext
  <2>2. CASE /\ d # BadFrame /\ d.data_type \in {"Data", "Info"}
             /\ wire' = (wire \ {m}) \cup Response(c, [data_type |-> d.data_type, payload |-> <<"OK">>, size |-> 1])
             /\ UNCHANGED <<net, inbound>>
    <3> DEFINE a == [data_type |-> d.data_type, payload |-> <<"OK">>, size |-> 1]
    <3>1. a \in Answers /\ a.data_type = d.data_type /\ a.payload # <<"FAIL">>
      BY <2>2 DEF Answers, DataTypes
    <3>2. wire' = (wire \ {m}) \cup Response(c, a)
      BY <2>2
    <3> HIDE DEF a
    <3>3. FitsNext(c, a)
      BY <1>1, <1>2, <1>3, <2>2, <3>1 DEF FitsNext
    <3>4. ASSUME NEW y \in wire', y \notin wire PROVE y.call = c /\ y.frame = Write_Frame(a)
      BY <3>1, <3>2, <3>4, ResponseFacts DEF TInv, TablesTyped
    <3>5. \A y \in wire' : y \in wire \/ \E b \in Answers : y.frame = Write_Frame(b) /\ FitsNext(y.call, b)
      BY <3>1, <3>3, <3>4
    <3> QED BY <1>1, <1>2, <3>5, WireNext
  <2> QED BY <2>1, <2>2 DEF RequestEvent, d
<1>7. RanOnce' /\ ResultsFit'
  BY <1>1, <1>2, RanNext, ResultsNext
<1> QED BY <1>2, <1>5, <1>6, <1>7 DEF AInv

\* A request goes on to Core.
LEMMA AForward == ASSUME TInv, PInv, AInv, NEW n \in Nodes, Forward(n) PROVE AInv'
<1>1. UNCHANGED <<call, ran, phase, result, pending_replies, core, cmds, wire>>
  BY DEF Forward, reqres, callers
<1>2. Places' /\ Moved
  BY MForward
<1>3. ResultsFit'
  BY <1>1, <1>2, ResultsNext
<1> QED BY <1>1, <1>2, <1>3, AQuiet

\* libp2p reports on call c, and its caller gets r.
LEMMA AReport ==
    ASSUME TInv, PInv, AInv, NEW c \in Calls, NEW r, Deliver(c, r) \/ UNCHANGED callers, r = NoAnswer \/ Fits(c, r),
           wire' \subseteq wire, UNCHANGED <<call, ran, user, core, net, cmds, inbound, pending_replies>>
    PROVE  AInv'
<1>1. phase' = phase \/ (phase[c] = "waiting" /\ phase' = [phase EXCEPT ![c] = "done"])
  BY DEF Deliver, callers
<1>2. OnWire' \subseteq OnWire
  BY DEF OnWire, Request
<1>3. Places' /\ Moved
  BY <1>1, <1>2, PlaceFrames, MPhases
<1>4. ResultsFit'
  BY <1>3, ResultsDelivered
<1> QED BY <1>3, <1>4, AQuiet

\* An answer arrives: what is read is what was written.
LEMMA AResponseEvent == ASSUME TInv, PInv, AInv, NEW n \in Nodes, NEW m \in wire, ResponseEvent(n, m) PROVE AInv'
<1> DEFINE d == Read_Frame(m.frame)
<1>1. /\ UNCHANGED <<user, core, net, cmds, inbound, pending_replies, ran, call>>
      /\ wire' \subseteq wire /\ m.kind = "response"
  BY DEF ResponseEvent
<1>2. m.call \in Calls
  BY WireFacts DEF TInv
<1>3. PICK a \in Answers : m.frame = Write_Frame(a) /\ Fits(m.call, a)
  BY <1>1 DEF AInv, WireFits
<1>4. a.data_type \in DOMAIN DataTypes
  BY DEF Answers
<1>5. d # BadFrame => d.data_type = a.data_type /\ d.payload = a.payload
  BY <1>3, <1>4, FrameFacts
<1> HIDE DEF d
<1>6. d # BadFrame => Fits(m.call, d)
  BY <1>3, <1>5 DEF Fits
<1>7. \/ d # BadFrame /\ (Deliver(m.call, d) \/ UNCHANGED callers)
      \/ Deliver(m.call, NoAnswer) \/ UNCHANGED callers
  BY DEF ResponseEvent, Route_Response, Route_Failure, d
<1> QED BY <1>1, <1>2, <1>6, <1>7, AReport

\* The request failed.
LEMMA AFailureEvent == ASSUME TInv, PInv, AInv, NEW n \in Nodes, NEW c \in Calls, FailureEvent(n, c) PROVE AInv'
<1>1. UNCHANGED <<user, core, net, cmds, inbound, pending_replies, ran, call>> /\ wire' \subseteq wire
  BY DEF FailureEvent
<1>2. Deliver(c, NoAnswer) \/ UNCHANGED callers
  BY DEF FailureEvent, Route_Failure
<1> QED BY <1>1, <1>2, AReport

\* Streams, and steps that change nothing here.
LEMMA AStreams ==
    ASSUME TInv, PInv, AInv,
           UNCHANGED <<call, ran, phase, result, user, core, cmds, inbound, pending_replies, wire>>,
           \A n \in Nodes : net'[n] = net[n] \/ net'[n].at # "forward"
    PROVE  AInv'
<1>1. AtLoop' \subseteq AtLoop
  <2>1. \A e \in Calls : To(e) \in Nodes
    BY CallFacts DEF TInv
  <2> QED BY <2>1 DEF AtLoop, To
<1>2. Places' /\ Moved
  BY <1>1, PlaceFrames, MPhases
<1>3. ResultsFit'
  BY <1>2, ResultsNext
<1> QED BY <1>2, <1>3, AQuiet

\* AInv is inductive, given TInv and PInv.
LEMMA NextAInv == TInv /\ PInv /\ AInv /\ [Next]_vars => AInv'
<1> SUFFICES ASSUME TInv, PInv, AInv, [Next]_vars PROVE AInv'
  OBVIOUS
<1>1. ASSUME NEW c \in Calls, Start(c) \/ SendCommand(c) \/ ResponseTimeout(c) PROVE AInv'
  BY <1>1, AStart, ASendCommand, AResponseTimeout
<1>2. ASSUME NEW n \in Nodes, RouteStream(n) PROVE AInv'
  <2>1. UNCHANGED <<call, ran, phase, result, user, core, cmds, inbound, net, pending_replies, wire>>
    BY <1>2 DEF RouteStream, reqres, callers
  <2> QED BY <2>1, AStreams
<1>3. ASSUME NEW n \in Nodes, StreamArrives(n) \/ StreamRead(n) \/ ForwardStream(n) PROVE AInv'
  <2>1. UNCHANGED <<call, ran, phase, result, user, core, cmds, inbound, pending_replies, wire>>
    BY <1>3 DEF StreamArrives, StreamRead, ForwardStream, reqres, callers
  <2>2. \A k \in Nodes : net'[k] = net[k] \/ net'[k].at # "forward"
    <3>1. \E x : x.at # "forward" /\ net' = [net EXCEPT ![n] = x]
      <4>1. \A at \in {"select", "reading", "event"} : [at |-> at].at # "forward"
        OBVIOUS
      <4> QED BY <1>3, <4>1, StateFacts DEF StreamArrives, StreamRead, ForwardStream
    <3> QED BY <3>1 DEF TInv, LoopsTyped
  <2> QED BY <2>1, <2>2, AStreams
<1>4. ASSUME NEW n \in Nodes, LoopStep(n) PROVE AInv'
  BY <1>3, <1>4, AHandleCommand, AForward DEF LoopStep
<1>5. ASSUME NEW n \in Nodes, SwarmEvent(n) PROVE AInv'
  BY <1>5, ARequestEvent, AResponseEvent, AFailureEvent DEF SwarmEvent
<1>6. ASSUME NEW n \in Nodes, CoreStep(n) PROVE AInv'
  BY <1>2, <1>6, ARouteExecRemote, ACoreResume, ARouteInbound, ACoreReply, AQuit DEF CoreStep
<1>7. CASE Done \/ UNCHANGED vars
  <2>1. UNCHANGED <<call, ran, phase, result, user, core, cmds, inbound, net, pending_replies, wire>>
    BY <1>7 DEF Done, vars, reqres, callers
  <2> QED BY <2>1, AStreams
<1> QED BY <1>1, <1>3, <1>4, <1>5, <1>6, <1>7, ATypeQuit DEF Next

\* For any nodes, calls and capacities, whatever is lost, late or answered
\* meanwhile and whoever quits: a caller of Send_Data gets the answer to its own
\* request, or none; a remote command runs its program at most once, and OK and
\* FAIL say truly whether it did.
THEOREM CallersGetTheirAnswer == Spec => []AnswerExact
<1>1. TInv /\ PInv /\ AInv /\ [Next]_vars => AInv'
  BY NextAInv
<1>2. AInv => AnswerExact
  <2> SUFFICES ASSUME AInv, NEW c \in Calls
               PROVE  /\ ran[c] <= 1
                      /\ phase[c] = "done" /\ result[c].data_type # "none" => Fits(c, result[c])
    BY DEF AnswerExact, Fits
  <2>1. NoAnswer.data_type = "none"
    BY DEF NoAnswer
  <2> QED BY <2>1 DEF AInv, RanOnce, ResultsFit
<1> QED BY <1>1, <1>2, InitAInv, NodeInvariance, PairingInvariance, PTL DEF Spec

===============================================================================
