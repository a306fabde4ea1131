----------------------------- MODULE ConsoleProofs -----------------------------
(***************************************************************************)
(* Proofs about Console, for any command lines, programs, peers and        *)
(* capacities.                                                             *)
(***************************************************************************)
EXTENDS Console, SequenceTheorems, TLAPS

(***************************************************************************)
(* Types of what the channels hold.                                        *)
(***************************************************************************)
SaidOn == {"peer_connected", "peer_info_updated"}
SaidOff == {"peer_discovered", "peer_disconnected", "peer_left"}

Events == [type : {"answer", "output", "notify"}, of : 0 .. MaxTyped]
              \cup [type : SaidOn \cup SaidOff, of : Peers]

Parsed == {parse_user_command(line) : line \in Lines}
              \cup {Command("none"), Command("Flush"), Local("quit"), Local("ended")}

Items == {Item(k, c) : k \in 0 .. MaxTyped, c \in Parsed}

Shape ==
    /\ user \in Seq(Items) /\ held \in Items /\ core \in Items /\ tasks \subseteq Items
    /\ bus \in Seq(Events)
    /\ panel \in [by : 0 .. MaxTyped, completed : BOOLEAN, seen : 0 .. MaxTyped]

\* No command and no result is of a line that has not been typed yet.
Typed ==
    /\ \A i \in 1 .. Len(user) : user[i].of <= typed
    /\ held.of <= typed /\ core.of <= typed
    /\ \A i \in 1 .. Len(bus) : bus[i].type \in {"answer", "output"} => bus[i].of <= typed

TInv == TypeOK /\ Shape /\ Typed

(***************************************************************************)
(* What makes ResultsInOrder hold of every step.                           *)
(***************************************************************************)
\* A task is one of a command that Core does not answer itself.
TaskKinds == \A it \in tasks : it.kind \in {"Flush"} \cup OnlyNotified \cup RunsProgram

\* The answers of Core on the bus are in order, and none is older than what
\* the panel shows.
BusInOrder ==
    /\ \A i, j \in 1 .. Len(bus) :
          i < j /\ bus[i].type = "answer" /\ bus[j].type = "answer" => bus[i].of <= bus[j].of
    /\ \A i \in 1 .. Len(bus) : bus[i].type = "answer" => panel.seen <= bus[i].of

\* No answer given so far is of a later command than the k-th.
Passed(k) ==
    /\ panel.seen <= k
    /\ \A i \in 1 .. Len(bus) : bus[i].type = "answer" => bus[i].of <= k

\* The same, also of the answer that Core is waiting for.
Behind(k) == Passed(k) /\ (core.kind = "ExecRemote" => core.of <= k)

\* The commands on their way to Core are in order, and behind all answers.
QueueInOrder ==
    /\ core.kind = "ExecRemote" => Passed(core.of)
    /\ \A i \in 1 .. Len(user) : user[i].kind # "quit" =>
          /\ Behind(user[i].of)
          /\ \A j \in 1 .. Len(user) : i < j /\ user[j].kind # "quit" => user[i].of <= user[j].of
    /\ console = "sending" =>
          /\ Behind(held.of)
          /\ \A i \in 1 .. Len(user) : user[i].kind # "quit" => user[i].of <= held.of
    /\ Behind(typed)

OInv == TaskKinds /\ BusInOrder /\ QueueInOrder

(***************************************************************************)
(* What makes ShownIsConnected inductive.                                  *)
(***************************************************************************)
\* Before the console has subscribed it has heard of nobody.
Unsubscribed ==
    console = "starting" => bus = <<>> /\ ~lag /\ \A p \in Peers : shown[p] = "absent"

SaysOn(e, p) == e.type \in SaidOn /\ e.of = p
SaysOff(e, p) == e.type \in SaidOff /\ e.of = p

\* The last word about a peer without a connection, on the bus or on the
\* screen, is that it is not connected.
LastWord ==
    mode = "tui" /\ ~lag =>
        \A p \in Peers : link[p] = "down" =>
            /\ shown[p] = "on" => \E i \in 1 .. Len(bus) : SaysOff(bus[i], p)
            /\ \A i \in 1 .. Len(bus) : SaysOn(bus[i], p) =>
                  \E j \in 1 .. Len(bus) : i < j /\ SaysOff(bus[j], p)

SInv == Unsubscribed /\ LastWord

(***************************************************************************)
(* The channels.                                                           *)
(***************************************************************************)
\* The consequences of the assumptions used below.
LEMMA Consts == BusCap \in Nat /\ BusCap > 0 /\ UserCap \in Nat /\ MaxTyped \in Nat /\ 0 \in 0 .. MaxTyped
  BY ConsoleConstants

\* What an item made of a parsed command is.
LEMMA ItemFacts ==
    /\ \A k \in 0 .. MaxTyped, c \in Parsed : /\ Item(k, c) \in Items
                                               /\ Item(k, c).of = k /\ Item(k, c).kind = c.kind
    /\ \A it \in Items : it.of \in 0 .. MaxTyped
  BY DEF Items, Item

\* The items that do not come from a line.
LEMMA FixedItems ==
    /\ NoItem \in Items /\ NoItem.of = 0 /\ NoItem.kind = "none"
    /\ Ended \in Items /\ Ended.of = 0 /\ Ended.kind = "ended"
    /\ Item(0, Local("quit")) \in Items /\ Item(0, Local("quit")).of = 0
    /\ Item(0, Local("quit")).kind = "quit"
    /\ Item(0, Command("Flush")) \in Items /\ Item(0, Command("Flush")).of = 0
    /\ Item(0, Command("Flush")).kind = "Flush"
<1>1. Command("none") \in Parsed /\ Command("Flush") \in Parsed /\ Local("quit") \in Parsed /\ Local("ended") \in Parsed
  BY DEF Parsed
<1> QED BY <1>1, Consts, ItemFacts DEF NoItem, Ended, Command, Local

\* The events that are published.
LEMMA EventFacts ==
    /\ \A k \in 0 .. MaxTyped : Answer(k) \in Events /\ Output(k) \in Events
    /\ Notify \in Events
    /\ \A p \in Peers : \A what \in SaidOn \cup SaidOff : State(what, p) \in Events
    /\ \A e \in Events : e.type \in {"answer", "output"} => e.of \in 0 .. MaxTyped
<1>1. \A k \in 0 .. MaxTyped : Answer(k) \in Events /\ Output(k) \in Events
  BY DEF Answer, Output, Events
<1>2. Notify \in Events
  BY Consts DEF Notify, Events
<1>3. \A p \in Peers : \A what \in SaidOn \cup SaidOff : State(what, p) \in Events
  BY DEF State, Events
<1>4. \A e \in Events : e.type \in {"answer", "output"} => e.of \in 0 .. MaxTyped
  BY DEF Events, SaidOn, SaidOff
<1> QED BY <1>1, <1>2, <1>3, <1>4

\* The position from which publishing keeps the bus.
LEMMA MaxOfTwo == ASSUME NEW x \in Int PROVE Max({1, x}) = IF x >= 1 THEN x ELSE 1
<1> DEFINE m == IF x >= 1 THEN x ELSE 1
<1>1. m \in {1, x} /\ \A y \in {1, x} : m >= y
  OBVIOUS
<1>2. \A z \in {1, x} : (\A y \in {1, x} : z >= y) => z = m
  OBVIOUS
<1> HIDE DEF m
<1>3. (CHOOSE z \in {1, x} : \A y \in {1, x} : z >= y) = m
  BY <1>1, <1>2
<1> QED BY <1>3 DEF Max, m

\* Publishing appends to the bus and drops the oldest events beyond its
\* capacity: what is on the bus is a part of the old events and the new ones,
\* in their order, and all of them as long as nothing was lost.
LEMMA PublishShape ==
    ASSUME bus \in Seq(Events), lag \in BOOLEAN, Len(bus) <= BusCap, NEW es \in Seq(Events), Publish(es)
    PROVE  /\ bus' \in Seq(Events) /\ Len(bus') <= BusCap /\ lag' \in BOOLEAN /\ (lag => lag')
           /\ console = "starting" => bus' = bus /\ lag' = lag
           /\ console # "starting" /\ ~lag' => bus' = bus \o es
           /\ \E d \in Nat : \A i \in 1 .. Len(bus') :
                 i + d \in 1 .. Len(bus \o es) /\ bus'[i] = (bus \o es)[i + d]
<1> USE Consts
<1> DEFINE q == bus \o es
           n == Len(q)
           x == n - BusCap + 1
           m == IF x >= 1 THEN x ELSE 1
<1>1. /\ q \in Seq(Events) /\ n = Len(bus) + Len(es) /\ n \in Nat /\ Len(bus) \in Nat /\ Len(es) \in Nat
      /\ \A i \in 1 .. Len(bus) : q[i] = bus[i]
  BY ConcatProperties, LenProperties
<1>2. CASE console = "starting"
  <2>1. bus' = bus /\ lag' = lag
    BY <1>2 DEF Publish
  <2>2. \A i \in 1 .. Len(bus') : i + 0 \in 1 .. n /\ bus'[i] = q[i + 0]
    BY <1>1, <2>1
  <2> HIDE DEF q, n
  <2> QED BY <1>2, <2>1, <2>2 DEF q, n
<1>3. CASE console # "starting"
  <2>1. bus' = SubSeq(q, Max({1, x}), n) /\ lag' = (lag \/ n > BusCap)
    BY <1>3 DEF Publish
  <2>2. x \in Int /\ m \in Int /\ m >= 1 /\ n - m + 1 <= BusCap /\ m <= n + 1 /\ (n <= BusCap => m = 1)
    BY <1>1
  <2>3. Max({1, x}) = m
    BY <2>2, MaxOfTwo
  <2>4. \A i \in m .. n : q[i] \in Events
    BY <1>1, <2>2, ElementOfSeq
  <2>5. bus' = SubSeq(q, m, n)
    BY <2>1, <2>3
  <2> HIDE DEF x, m, n
  <2>6. /\ bus' \in Seq(Events) /\ Len(bus') = (IF m <= n THEN n - m + 1 ELSE 0)
        /\ \A i \in 1 .. n - m + 1 : bus'[i] = q[m + i - 1]
    BY <1>1, <2>2, <2>4, <2>5, SubSeqProperties
  <2>7. Len(bus') = n - m + 1 /\ Len(bus') <= BusCap
    BY <1>1, <2>2, <2>6
  <2>8. m - 1 \in Nat /\ \A i \in 1 .. Len(bus') : i + (m - 1) \in 1 .. n /\ bus'[i] = q[i + (m - 1)]
    <3>1. m - 1 \in Nat
      BY <2>2
    <3>2. ASSUME NEW i \in 1 .. Len(bus') PROVE i + (m - 1) \in 1 .. n /\ bus'[i] = q[i + (m - 1)]
      <4>1. i \in 1 .. n - m + 1 /\ m + i - 1 = i + (m - 1) /\ i + (m - 1) \in 1 .. n
        BY <1>1, <2>2, <2>7
      <4> QED BY <2>6, <4>1
    <3> QED BY <3>1, <3>2
  <2>9. ~lag' => bus' = q
    <3>0. ~lag' => ~(n > BusCap)
      BY <2>1, Zenon
    <3>1. ~lag' => n <= BusCap
      BY <1>1, <3>0 DEF n
    <3>2. ~lag' => m = 1
      BY <2>2, <3>1
    <3> QED BY <1>1, <2>5, <3>2, SubSeqFull DEF n
  <2>10. lag' \in BOOLEAN /\ (lag => lag')
    BY <2>1
  <2> HIDE DEF q
  <2>11. \E d \in Nat : \A i \in 1 .. Len(bus') : i + d \in 1 .. n /\ bus'[i] = q[i + d]
    BY <2>8
  <2> QED BY <1>3, <2>6, <2>7, <2>9, <2>10, <2>11 DEF q, n
<1> QED BY <1>2, <1>3

\* What publishing es leaves true of the types.
LEMMA PublishType ==
    ASSUME TInv, NEW es \in Seq(Events), Publish(es),
           \A i \in 1 .. Len(es) : es[i].type \in {"answer", "output"} => es[i].of <= typed
    PROVE  /\ bus' \in Seq(Events) /\ Len(bus') <= BusCap /\ lag' \in BOOLEAN
           /\ \A i \in 1 .. Len(bus') : bus'[i].type \in {"answer", "output"} => bus'[i].of <= typed
<1>1. bus \in Seq(Events) /\ lag \in BOOLEAN /\ Len(bus) <= BusCap
  BY DEF TInv, TypeOK, Shape
<1>2. PICK d \in Nat : \A i \in 1 .. Len(bus') :
         i + d \in 1 .. Len(bus \o es) /\ bus'[i] = (bus \o es)[i + d]
  BY <1>1, PublishShape
<1>3. bus' \in Seq(Events) /\ Len(bus') <= BusCap /\ lag' \in BOOLEAN
  BY <1>1, PublishShape
<1>4. /\ Len(bus \o es) = Len(bus) + Len(es) /\ Len(bus) \in Nat /\ Len(es) \in Nat
      /\ \A j \in 1 .. Len(bus) + Len(es) :
            (bus \o es)[j] = IF j <= Len(bus) THEN bus[j] ELSE es[j - Len(bus)]
  BY <1>1, ConcatProperties, LenProperties
<1>5. ASSUME NEW j \in 1 .. Len(bus) + Len(es), (bus \o es)[j].type \in {"answer", "output"}
      PROVE  (bus \o es)[j].of <= typed
  <2>1. CASE j <= Len(bus)
    BY <1>4, <1>5, <2>1 DEF TInv, Typed
  <2>2. CASE ~(j <= Len(bus))
    <3>1. j - Len(bus) \in 1 .. Len(es)
      BY <1>4, <2>2
    <3> QED BY <1>4, <1>5, <2>2, <3>1
  <2> QED BY <2>1, <2>2
<1>6. \A i \in 1 .. Len(bus') : bus'[i].type \in {"answer", "output"} => bus'[i].of <= typed
  BY <1>2, <1>4, <1>5
<1> QED BY <1>3, <1>6

\* Taking the first element of a channel.
LEMMA TakeFirst ==
    ASSUME NEW S, NEW q \in Seq(S), q # <<>>
    PROVE  /\ Head(q) \in S /\ Head(q) = q[1] /\ Tail(q) \in Seq(S)
           /\ Len(q) \in Nat /\ Len(q) >= 1 /\ Len(Tail(q)) = Len(q) - 1
           /\ \A i \in 1 .. Len(Tail(q)) : i + 1 \in 1 .. Len(q) /\ Tail(q)[i] = q[i + 1]
<1>1. Head(q) \in S /\ Tail(q) \in Seq(S)
  BY HeadTailProperties
<1>2. Len(q) \in Nat /\ Len(q) >= 1 /\ Len(Tail(q)) = Len(q) - 1
  BY EmptySeq, LenProperties, HeadTailProperties
<1>3. \A i \in 1 .. Len(Tail(q)) : Tail(q)[i] = q[i + 1]
  BY <1>2, HeadTailProperties
<1> QED BY <1>1, <1>2, <1>3

\* Adding an element to a channel.
LEMMA AddLast ==
    ASSUME NEW S, NEW q \in Seq(S), NEW e \in S
    PROVE  /\ Append(q, e) \in Seq(S) /\ Len(q) \in Nat /\ Len(Append(q, e)) = Len(q) + 1
           /\ \A i \in 1 .. Len(q) : Append(q, e)[i] = q[i]
           /\ Append(q, e)[Len(q) + 1] = e
BY AppendProperties, LenProperties

\* Publishing a single event.
LEMMA One ==
    ASSUME NEW e \in Events
    PROVE  <<e>> \in Seq(Events) /\ Len(<<e>>) = 1 /\ \A i \in 1 .. Len(<<e>>) : <<e>>[i] = e
OBVIOUS

(***************************************************************************)
(* Types and capacities.                                                   *)
(***************************************************************************)
\* Initially the channels are empty.
LEMMA InitTInv == Init => TInv
<1> SUFFICES ASSUME Init PROVE TInv
  OBVIOUS
<1> USE Consts, FixedItems DEF Init
<1>1. TypeOK
  <2>1. Len(user) = 0 /\ Len(bus) = 0
    OBVIOUS
  <2>2. \A it \in tasks : it.of <= typed
    OBVIOUS
  <2>3. panel.by \in 0 .. typed /\ panel.seen \in 0 .. typed /\ typed \in 0 .. MaxTyped
    OBVIOUS
  <2>4. shown \in [Peers -> {"absent", "off", "on"}] /\ link \in [Peers -> {"down", "up"}]
    OBVIOUS
  <2>5. lag \in BOOLEAN /\ user_programs \in Listings
    OBVIOUS
  <2>6. Len(user) <= UserCap /\ Len(bus) <= BusCap
    BY <2>1
  <2> QED BY <2>2, <2>3, <2>4, <2>5, <2>6 DEF TypeOK
<1>2. Shape
  BY DEF Shape
<1>3. Typed
  BY DEF Typed
<1> QED BY <1>1, <1>2, <1>3 DEF TInv

\* What a step of the console leaves alone.
LEMMA TStutter == TInv /\ UNCHANGED vars => TInv'
BY DEF TInv, TypeOK, Shape, Typed, vars

\* Steps of the console other than typing and reading.
LEMMA TSubscribe == TInv /\ Subscribe => TInv'
BY DEF TInv, TypeOK, Shape, Typed, Subscribe, network

\* The user interrupts, or the console fails.
LEMMA TInterrupt == TInv /\ (Interrupt \/ ConsoleFails) => TInv'
BY DEF TInv, TypeOK, Shape, Typed, Interrupt, ConsoleFails, network

\* The command that waited gets its room.
LEMMA TSendHeld == TInv /\ SendHeld => TInv'
<1> SUFFICES ASSUME TInv, SendHeld PROVE TInv'
  OBVIOUS
<1>1. /\ user' \in Seq(Items) /\ Len(user') = Len(user) + 1 /\ Len(user) \in Nat
      /\ \A i \in 1 .. Len(user) : user'[i] = user[i]
      /\ user'[Len(user) + 1] = held
  BY AddLast DEF TInv, Shape, SendHeld
<1>2. TypeOK'
  BY <1>1, Consts DEF TInv, TypeOK, SendHeld, network
<1>3. Shape'
  BY <1>1, FixedItems DEF TInv, Shape, SendHeld, network
<1>4. Typed'
  <2>1. \A i \in 1 .. Len(user') : user'[i].of <= typed
    <3>1. \A i \in 1 .. Len(user') : i \in 1 .. Len(user) \/ i = Len(user) + 1
      BY <1>1
    <3> QED BY <1>1, <3>1 DEF TInv, Typed
  <2> QED BY <2>1, FixedItems DEF TInv, TypeOK, Typed, SendHeld, network
<1> QED BY <1>2, <1>3, <1>4 DEF TInv

\* Quit is sent.
LEMMA TSendQuit == TInv /\ SendQuit => TInv'
<1> SUFFICES ASSUME TInv, SendQuit PROVE TInv'
  OBVIOUS
<1> DEFINE it == Item(0, Local("quit"))
<1> HIDE DEF it
<1>0. it \in Items /\ it.of = 0
  BY FixedItems DEF it
<1>1. /\ user' \in Seq(Items) /\ Len(user') = Len(user) + 1 /\ Len(user) \in Nat
      /\ \A i \in 1 .. Len(user) : user'[i] = user[i]
      /\ user'[Len(user) + 1] = it
  BY <1>0, AddLast DEF TInv, Shape, SendQuit, it
<1>2. TypeOK'
  BY <1>1, Consts DEF TInv, TypeOK, SendQuit, network
<1>3. Shape'
  BY <1>1 DEF TInv, Shape, SendQuit, network
<1>4. Typed'
  <2>1. \A i \in 1 .. Len(user') : user'[i].of <= typed
    <3>1. \A i \in 1 .. Len(user') : i \in 1 .. Len(user) \/ i = Len(user) + 1
      BY <1>1
    <3> QED BY <1>0, <1>1, <3>1 DEF TInv, TypeOK, Typed
  <2> QED BY <2>1 DEF TInv, TypeOK, Typed, SendQuit, network
<1> QED BY <1>2, <1>3, <1>4 DEF TInv

\* Typing a line: what is sent belongs to the line that was just counted.
LEMMA TTypeLine == ASSUME TInv, NEW line \in Lines, TypeLine(line) PROVE TInv'
<1> DEFINE c == parse_user_command(line)
           k == typed + 1
           it == Item(k, c)
<1> HIDE DEF c
<1>0. typed \in Nat /\ typed < MaxTyped /\ k \in 1 .. MaxTyped /\ c \in Parsed
  BY Consts DEF TInv, TypeOK, TypeLine, Parsed, c
<1>1. it \in Items /\ it.of = k
  BY <1>0, ItemFacts
<1>2. /\ UNCHANGED <<mode, core, user_programs, tasks, bus, lag, shown, link, news>> /\ console = "run"
      /\ \/ UNCHANGED <<held, typed, last, user, panel>> /\ (console' = console \/ console' = "quit")
         \/ /\ typed' = k /\ panel' = [panel EXCEPT !.by = k, !.completed = TRUE]
            /\ UNCHANGED <<console, held, user>>
         \/ /\ typed' = k /\ panel' = [panel EXCEPT !.completed = (mode = "cli" /\ @)]
            /\ Submit(it)
  BY DEF TypeLine, network, c
<1>3. /\ panel \in [by : 0 .. MaxTyped, completed : BOOLEAN, seen : 0 .. MaxTyped]
      /\ panel.by \in 0 .. typed /\ panel.seen \in 0 .. typed
  BY DEF TInv, TypeOK, Shape
<1>4. /\ panel' \in [by : 0 .. MaxTyped, completed : BOOLEAN, seen : 0 .. MaxTyped]
      /\ panel'.by \in 0 .. typed' /\ panel'.seen \in 0 .. typed'
      /\ (typed' = typed \/ typed' = k)
  <2>1. CASE UNCHANGED <<typed, panel>>
    BY <1>3, <2>1
  <2>2. CASE typed' = k /\ panel' = [panel EXCEPT !.by = k, !.completed = TRUE]
    <3>1. panel' = [by |-> k, completed |-> TRUE, seen |-> panel.seen]
      BY <1>3, <2>2
    <3>2. panel'.by = k /\ panel'.seen = panel.seen
      BY <3>1
    <3>3. panel'.by \in 0 .. typed' /\ panel'.seen \in 0 .. typed' /\ k \in 0 .. MaxTyped
      BY <1>0, <1>3, <2>2, <3>2
    <3> HIDE DEF k
    <3> QED BY <1>3, <2>2, <3>1, <3>3
  <2>3. CASE typed' = k /\ panel' = [panel EXCEPT !.completed = (mode = "cli" /\ @)]
    <3>1. /\ panel'.by = panel.by /\ panel'.seen = panel.seen
          /\ panel' = [by |-> panel.by, completed |-> (mode = "cli" /\ panel.completed), seen |-> panel.seen]
      BY <1>3, <2>3
    <3>2. (mode = "cli" /\ panel.completed) \in BOOLEAN
      OBVIOUS
    <3>3. panel'.by \in 0 .. typed' /\ panel'.seen \in 0 .. typed'
      BY <1>0, <1>3, <2>3, <3>1
    <3> HIDE DEF k
    <3> QED BY <1>3, <2>3, <3>1, <3>2, <3>3
  <2> QED BY <1>2, <2>1, <2>2, <2>3
<1>5. /\ user' \in Seq(Items) /\ Len(user') <= UserCap /\ held' \in Items /\ held'.of <= typed'
      /\ console' \in {"run", "sending", "quit"}
      /\ \A i \in 1 .. Len(user') : user'[i].of <= typed'
  <2>0. /\ user \in Seq(Items) /\ Len(user) <= UserCap /\ held \in Items /\ held.of <= typed
        /\ \A i \in 1 .. Len(user) : user[i].of <= typed /\ user[i].of \in Int
        /\ held.of \in Int
    <3>1. user \in Seq(Items) /\ Len(user) <= UserCap /\ held \in Items /\ held.of <= typed
      BY DEF TInv, TypeOK, Shape, Typed
    <3>2. \A i \in 1 .. Len(user) : user[i] \in Items
      BY <3>1, ElementOfSeq
    <3> QED BY <3>1, <3>2, ItemFacts DEF TInv, Typed
  <2>1. CASE UNCHANGED <<held, user>> /\ console' \in {console, "quit"}
    BY <1>0, <1>2, <1>4, <2>0, <2>1
  <2>2. CASE typed' = k /\ Submit(it)
    <3> HIDE DEF it
    <3>1. CASE Len(user) < UserCap
      <4>1. user' = Append(user, it) /\ UNCHANGED <<console, held>>
        BY <2>2, <3>1 DEF Submit
      <4>2. /\ user' \in Seq(Items) /\ Len(user') = Len(user) + 1 /\ Len(user) \in Nat
            /\ \A i \in 1 .. Len(user) : user'[i] = user[i]
            /\ user'[Len(user) + 1] = it
        BY <1>1, <2>0, <4>1, AddLast
      <4>3. \A i \in 1 .. Len(user') : i \in 1 .. Len(user) \/ i = Len(user) + 1
        BY <4>2
      <4>4. \A i \in 1 .. Len(user') : user'[i].of <= typed'
        BY <1>0, <1>1, <2>0, <2>2, <4>2, <4>3
      <4>5. Len(user') <= UserCap /\ held'.of <= typed'
        BY <1>0, <2>0, <2>2, <3>1, <4>1, <4>2, Consts
      <4> QED BY <1>2, <2>0, <4>1, <4>2, <4>4, <4>5
    <3>2. CASE ~(Len(user) < UserCap)
      <4>1. console' = "sending" /\ held' = it /\ user' = user
        BY <2>2, <3>2 DEF Submit
      <4> QED BY <1>0, <1>1, <2>0, <2>2, <4>1
    <3> QED BY <3>1, <3>2
  <2> QED BY <1>2, <2>1, <2>2
<1>6. TypeOK'
  <2>1. \A it_ \in tasks : it_.of <= typed'
    BY <1>0, <1>4, ItemFacts DEF TInv, TypeOK, Shape
  <2> QED BY <1>0, <1>2, <1>4, <1>5, <2>1 DEF TInv, TypeOK
<1>7. Shape'
  BY <1>2, <1>4, <1>5 DEF TInv, Shape
<1>8. Typed'
  <2>1. core.of <= typed'
    BY <1>0, <1>4, ItemFacts DEF TInv, Typed, Shape
  <2>2. \A i \in 1 .. Len(bus) : bus[i].type \in {"answer", "output"} => bus[i].of <= typed'
    <3>1. \A i \in 1 .. Len(bus) : bus[i] \in Events
      BY ElementOfSeq DEF TInv, Shape
    <3> QED BY <1>0, <1>4, <3>1, EventFacts DEF TInv, Typed
  <2> QED BY <1>2, <1>5, <2>1, <2>2 DEF Typed
<1> QED BY <1>6, <1>7, <1>8 DEF TInv

\* Reading an event: a result of a line that was typed goes to the panel.
LEMMA THandle == TInv /\ Handle_Bus_Event => TInv'
<1> SUFFICES ASSUME TInv, Handle_Bus_Event PROVE TInv'
  OBVIOUS
<1> DEFINE e == Head(bus)
<1> HIDE DEF e
<1>1. /\ e \in Events /\ e = bus[1] /\ bus' \in Seq(Events)
      /\ Len(bus) \in Nat /\ Len(bus) >= 1 /\ Len(bus') = Len(bus) - 1
      /\ \A i \in 1 .. Len(bus') : i + 1 \in 1 .. Len(bus) /\ bus'[i] = bus[i + 1]
  BY TakeFirst DEF TInv, Shape, Handle_Bus_Event, e
<1>2. /\ UNCHANGED <<mode, console, held, typed, last, user, core, user_programs, tasks, lag, link, news>>
      /\ handle_output(e) /\ (handle_state(e) \/ shown' = shown)
  BY DEF Handle_Bus_Event, network, e
<1>3. e.type \in {"answer", "output"} => e.of \in 0 .. MaxTyped /\ e.of \in 0 .. typed
  <2>1. e.type \in {"answer", "output"} => e.of <= typed
    BY <1>1 DEF TInv, Typed
  <2>2. e.type \in {"answer", "output"} => e.of \in 0 .. MaxTyped
    BY <1>1, EventFacts
  <2> QED BY <2>1, <2>2 DEF TInv, TypeOK
<1>4. /\ panel' \in [by : 0 .. MaxTyped, completed : BOOLEAN, seen : 0 .. MaxTyped]
      /\ panel'.by \in 0 .. typed /\ panel'.seen \in 0 .. typed
  <2>1. CASE e.type \notin {"answer", "output"}
    BY <1>2, <2>1 DEF TInv, TypeOK, Shape, handle_output
  <2>2. CASE e.type = "answer"
    BY <1>2, <1>3, <2>2 DEF handle_output
  <2>3. CASE e.type = "output"
    BY <1>2, <1>3, <2>3 DEF TInv, TypeOK, Shape, handle_output
  <2> QED BY <2>1, <2>2, <2>3
<1>5. shown' \in [Peers -> {"absent", "off", "on"}]
  <2>1. shown \in [Peers -> {"absent", "off", "on"}]
    BY DEF TInv, TypeOK
  <2>2. \A how \in {"absent", "off", "on"} : \A p : [shown EXCEPT ![p] = how] \in [Peers -> {"absent", "off", "on"}]
    BY <2>1
  <2> QED BY <1>2, <2>1, <2>2 DEF handle_state, Update_Peer
<1>6. TypeOK'
  <2>1. Len(bus') <= BusCap
    BY <1>1, Consts DEF TInv, TypeOK
  <2> QED BY <1>2, <1>4, <1>5, <2>1 DEF TInv, TypeOK
<1>7. Shape'
  BY <1>1, <1>2, <1>4 DEF TInv, Shape
<1>8. Typed'
  BY <1>1, <1>2 DEF TInv, Typed
<1> QED BY <1>6, <1>7, <1>8 DEF TInv

\* The steps of Core, of a task and of the network: what they publish is of a
\* line that was typed, what they put into core and tasks was in the channels.
LEMMA TCore ==
    ASSUME TInv, NEW es \in Seq(Events), Publish(es) \/ UNCHANGED <<bus, lag>>,
           \A i \in 1 .. Len(es) : es[i].type \in {"answer", "output"} => es[i].of <= typed,
           UNCHANGED tui, user_programs' \in Listings,
           user' = user \/ (user # <<>> /\ user' = Tail(user)),
           core' \in Items, core'.of <= typed,
           tasks' \subseteq Items, \A it \in tasks' : it.of <= typed,
           link' \in [Peers -> {"down", "up"}]
    PROVE  TInv'
<1>1. /\ bus' \in Seq(Events) /\ Len(bus') <= BusCap /\ lag' \in BOOLEAN
      /\ \A i \in 1 .. Len(bus') : bus'[i].type \in {"answer", "output"} => bus'[i].of <= typed
  <2>1. CASE Publish(es)
    BY <2>1, PublishType
  <2>2. CASE UNCHANGED <<bus, lag>>
    BY <2>2 DEF TInv, TypeOK, Shape, Typed
  <2> QED BY <2>1, <2>2
<1>2. /\ user' \in Seq(Items) /\ Len(user') <= UserCap
      /\ \A i \in 1 .. Len(user') : user'[i].of <= typed
  <2>1. CASE user' = user
    BY <2>1 DEF TInv, TypeOK, Shape, Typed
  <2>2. CASE user # <<>> /\ user' = Tail(user)
    <3>1. /\ user' \in Seq(Items) /\ Len(user) \in Nat /\ Len(user') = Len(user) - 1
          /\ \A i \in 1 .. Len(user') : i + 1 \in 1 .. Len(user) /\ user'[i] = user[i + 1]
      BY <2>2, TakeFirst DEF TInv, Shape
    <3>2. Len(user') <= UserCap
      BY <3>1, Consts DEF TInv, TypeOK
    <3> QED BY <3>1, <3>2 DEF TInv, Typed
  <2> QED BY <2>1, <2>2
<1>3. TypeOK'
  BY <1>1, <1>2 DEF TInv, TypeOK, tui
<1>4. Shape'
  BY <1>1, <1>2 DEF TInv, Shape, tui
<1>5. Typed'
  BY <1>1, <1>2 DEF TInv, Typed, tui
<1> QED BY <1>3, <1>4, <1>5 DEF TInv

\* Core takes a command: it answers, spawns, waits, or ends.
LEMMA TRouteUser == TInv /\ route_user => TInv'
<1> SUFFICES ASSUME TInv, route_user PROVE TInv'
  OBVIOUS
<1> DEFINE it == Head(user)
           Goal(es) == /\ es \in Seq(Events)
                       /\ \A i \in 1 .. Len(es) : es[i].type \in {"answer", "output"} => es[i].of <= typed
                       /\ Publish(es) \/ UNCHANGED <<bus, lag>>
<1> HIDE DEF it
<1>1. /\ user # <<>> /\ user' = Tail(user) /\ UNCHANGED tui /\ UNCHANGED <<link, news>>
  BY DEF route_user, network
<1>2. it \in Items /\ it.of <= typed /\ it.of \in 0 .. MaxTyped
  <2>1. it \in Items /\ it = user[1] /\ 1 \in 1 .. Len(user)
    BY <1>1, TakeFirst DEF TInv, Shape, it
  <2> QED BY <2>1, ItemFacts DEF TInv, Typed
<1>3. /\ \/ /\ user_programs' \in IF it.kind = "Reload" THEN Listings ELSE {user_programs}
            /\ Publish(<<Answer(it.of)>>) /\ UNCHANGED <<core, tasks>>
         \/ tasks' = tasks \cup {it} /\ UNCHANGED <<core, user_programs, bus, lag>>
         \/ Publish(<<Notify>>) /\ UNCHANGED <<core, user_programs, tasks>>
         \/ Publish(<<Answer(it.of)>>) /\ UNCHANGED <<core, user_programs, tasks>>
         \/ core' = it /\ UNCHANGED <<user_programs, tasks, bus, lag>>
         \/ core' = Ended /\ UNCHANGED <<user_programs, tasks, bus, lag>>
  BY DEF route_user, AnswerAtOnce, Spawn, RunProgram, ExecRemote, it
<1>4. /\ core \in Items /\ core.of <= typed /\ tasks \subseteq Items /\ (\A x \in tasks : x.of <= typed)
      /\ user_programs \in Listings /\ link \in [Peers -> {"down", "up"}] /\ typed \in 0 .. MaxTyped
  BY DEF TInv, TypeOK, Shape, Typed
<1>5. /\ core' \in Items /\ core'.of <= typed /\ tasks' \subseteq Items /\ (\A x \in tasks' : x.of <= typed)
      /\ user_programs' \in Listings /\ link' \in [Peers -> {"down", "up"}]
  BY <1>1, <1>2, <1>3, <1>4, FixedItems
<1>6. \E es : Goal(es)
  <2>1. <<>> \in Seq(Events) /\ Len(<<>>) = 0
    OBVIOUS
  <2>2. UNCHANGED <<bus, lag>> => Goal(<<>>)
    BY <2>1
  <2>3. Answer(it.of) \in Events /\ Notify \in Events /\ Answer(it.of).of = it.of /\ Notify.type = "notify"
    BY <1>2, EventFacts DEF Answer, Notify
  <2>4. Publish(<<Answer(it.of)>>) => Goal(<<Answer(it.of)>>)
    BY <1>2, <2>3, One
  <2>5. Publish(<<Notify>>) => Goal(<<Notify>>)
    BY <2>3, One
  <2> QED BY <1>3, <2>2, <2>4, <2>5
<1>7. PICK es : Goal(es)
  BY <1>6
<1> QED BY <1>1, <1>5, <1>7, TCore

\* The answer Core waited for is published.
LEMMA TRemoteAnswer == TInv /\ RemoteAnswer => TInv'
<1> SUFFICES ASSUME TInv, RemoteAnswer PROVE TInv'
  OBVIOUS
<1>1. core \in Items /\ core.of <= typed /\ core.of \in 0 .. MaxTyped /\ typed \in 0 .. MaxTyped
  BY ItemFacts DEF TInv, TypeOK, Shape, Typed
<1>2. Answer(core.of) \in Events /\ Answer(core.of).of = core.of
  BY <1>1, EventFacts DEF Answer
<1>3. /\ <<Answer(core.of)>> \in Seq(Events)
      /\ \A i \in 1 .. Len(<<Answer(core.of)>>) : <<Answer(core.of)>>[i].of <= typed
  BY <1>1, <1>2, One
<1>4. /\ Publish(<<Answer(core.of)>>) /\ UNCHANGED tui
      /\ UNCHANGED <<user, user_programs, tasks, link>> /\ core' = NoItem
  BY DEF RemoteAnswer, network
<1>5. tasks' \subseteq Items /\ (\A x \in tasks' : x.of <= typed) /\ user_programs' \in Listings
      /\ link' \in [Peers -> {"down", "up"}] /\ core' \in Items /\ core'.of <= typed
  BY <1>1, <1>4, FixedItems DEF TInv, TypeOK, Shape
<1> QED BY <1>3, <1>4, <1>5, TCore

\* A task ends: its result is of the line it was spawned for.
LEMMA TTaskEnds == ASSUME TInv, NEW it \in tasks, TaskEnds(it) PROVE TInv'
<1>1. it \in Items /\ it.of <= typed /\ it.of \in 0 .. MaxTyped /\ typed \in 0 .. MaxTyped
  BY ItemFacts DEF TInv, TypeOK, Shape
<1>2. \E es \in Seq(Events) :
         /\ Publish(es)
         /\ \A i \in 1 .. Len(es) : es[i].type \in {"answer", "output"} => es[i].of <= typed
  <2>1. /\ Notify \in Events /\ Output(it.of) \in Events /\ Result(it) \in Events
        /\ Notify.type = "notify" /\ Output(it.of).of = it.of /\ Result(it).of = it.of
    BY <1>1, EventFacts DEF Result, Answer, Output, Notify
  <2>2. CASE Publish(<<Notify, Output(it.of)>>)
    <3>1. <<Notify, Output(it.of)>> \in Seq(Events) /\ Len(<<Notify, Output(it.of)>>) = 2
      BY <2>1
    <3>2. \A i \in 1 .. 2 : <<Notify, Output(it.of)>>[i] = Notify \/ <<Notify, Output(it.of)>>[i] = Output(it.of)
      OBVIOUS
    <3> QED BY <1>1, <2>1, <2>2, <3>1, <3>2
  <2>3. CASE Publish(<<Notify>>)
    BY <2>1, <2>3, One
  <2>4. CASE Publish(<<Result(it)>>)
    <3> DEFINE r == Result(it)
    <3> HIDE DEF r
    <3>1. r \in Events /\ r.of <= typed /\ Publish(<<r>>)
      BY <1>1, <2>1, <2>4 DEF r
    <3> QED BY <3>1, One
  <2> QED BY <2>2, <2>3, <2>4 DEF TaskEnds
<1>3. UNCHANGED tui /\ UNCHANGED <<user, core, user_programs, link>> /\ tasks' = tasks \ {it}
  BY DEF TaskEnds, network
<1>4. tasks' \subseteq Items /\ (\A x \in tasks' : x.of <= typed) /\ user_programs' \in Listings
      /\ link' \in [Peers -> {"down", "up"}] /\ core' \in Items /\ core'.of <= typed
  BY <1>3 DEF TInv, TypeOK, Shape, Typed
<1> QED BY <1>2, <1>3, <1>4, TCore

\* What an event of the network is: it says what becomes of the connection.
LEMMA NewsFacts ==
    ASSUME TInv, NEW p \in Peers, SwarmNews(p)
    PROVE  \E what \in SaidOn \cup SaidOff, to \in {"down", "up"} :
              /\ News(p, what, to)
              /\ to = "down" => (what \in SaidOff /\ (link[p] = "down" \/ what = "peer_disconnected"))
<1>1. link[p] \in {"down", "up"}
  BY DEF TInv, TypeOK
<1> QED BY <1>1 DEF SwarmNews, SaidOn, SaidOff

\* Events of the network are not of a line.
LEMMA TSwarmNews == ASSUME TInv, NEW p \in Peers, SwarmNews(p) PROVE TInv'
<1>1. PICK what \in SaidOn \cup SaidOff, to \in {"down", "up"} : News(p, what, to)
  BY NewsFacts
<1>2. State(what, p) \in Events /\ State(what, p).type \notin {"answer", "output"}
  BY EventFacts DEF State, SaidOn, SaidOff
<1>3. /\ UNCHANGED tui /\ UNCHANGED <<user, core, user_programs, tasks>>
      /\ Publish(<<State(what, p)>>) /\ link' = [link EXCEPT ![p] = to]
  BY <1>1 DEF News
<1>4. tasks' \subseteq Items /\ (\A x \in tasks' : x.of <= typed) /\ user_programs' \in Listings
      /\ link' \in [Peers -> {"down", "up"}] /\ core' \in Items /\ core'.of <= typed
  BY <1>3 DEF TInv, TypeOK, Shape, Typed
<1>5. /\ <<State(what, p)>> \in Seq(Events)
      /\ \A i \in 1 .. Len(<<State(what, p)>>) : <<State(what, p)>>[i].type \notin {"answer", "output"}
  BY <1>2, One
<1> QED BY <1>3, <1>4, <1>5, TCore

\* TInv is inductive.
LEMMA NextTInv == TInv /\ [Next]_vars => TInv'
<1> SUFFICES ASSUME TInv, [Next]_vars PROVE TInv'
  OBVIOUS
<1>1. CASE CoreStep
  BY <1>1, TRouteUser, TRemoteAnswer DEF CoreStep
<1>2. CASE ConsoleStep
  BY <1>2, TSendHeld, TSendQuit, THandle, TSubscribe DEF ConsoleStep
<1>3. CASE Interrupt \/ ConsoleFails
  BY <1>3, TInterrupt
<1>4. CASE Done \/ UNCHANGED vars
  BY <1>4, TStutter DEF Done
<1>5. CASE \E line \in Lines : TypeLine(line)
  BY <1>5, TTypeLine
<1>6. CASE \E it \in tasks : TaskEnds(it)
  BY <1>6, TTaskEnds
<1>7. CASE \E p \in Peers : SwarmNews(p)
  BY <1>7, TSwarmNews
<1> QED BY <1>1, <1>2, <1>3, <1>4, <1>5, <1>6, <1>7 DEF Next

\* TInv holds in every state.
THEOREM ConsoleInvariance == Spec => []TInv
<1>1. TInv /\ [Next]_vars => TInv'
  BY NextTInv
<1> QED BY <1>1, InitTInv, PTL DEF Spec

\* For any lines, programs, peers and capacities: the channel of user commands
\* and the bus never exceed their capacities (blocking_send waits, the
\* broadcast channel drops its oldest events), and every command, task and
\* result in the system belongs to a line that was typed.
THEOREM ChannelsBounded == Spec => []TypeOK
<1>1. TInv => TypeOK
  BY DEF TInv
<1> QED BY <1>1, ConsoleInvariance, PTL

(***************************************************************************)
(* The order of the answers.                                               *)
(***************************************************************************)
\* Initially nothing has been answered.
LEMMA InitOInv == Init => OInv
<1> SUFFICES ASSUME Init PROVE OInv
  OBVIOUS
<1>1. TaskKinds
  BY FixedItems DEF Init, TaskKinds
<1>2. BusInOrder
  BY DEF Init, BusInOrder
<1>3. QueueInOrder
  BY FixedItems DEF Init, QueueInOrder, Behind, Passed
<1> QED BY <1>1, <1>2, <1>3 DEF OInv

\* What publishing events, all answers among which are of the command a, does
\* to the order of the bus when no earlier answer is of a later command.
LEMMA PublishOrder ==
    ASSUME TInv, BusInOrder, NEW es \in Seq(Events), Publish(es), panel' = panel,
           NEW a \in 0 .. MaxTyped,
           \A i \in 1 .. Len(es) : es[i].type = "answer" => es[i].of = a /\ Passed(a)
    PROVE  /\ BusInOrder'
           /\ \A k \in 0 .. MaxTyped :
                 Passed(k) /\ ((\E i \in 1 .. Len(es) : es[i].type = "answer") => a <= k) => Passed(k)'
<1>1. bus \in Seq(Events) /\ lag \in BOOLEAN /\ Len(bus) <= BusCap
  BY DEF TInv, TypeOK, Shape
<1> DEFINE q == bus \o es
<1>2. PICK d \in Nat : \A i \in 1 .. Len(bus') :
         i + d \in 1 .. Len(bus \o es) /\ bus'[i] = (bus \o es)[i + d]
  BY <1>1, PublishShape
<1>3. bus' \in Seq(Events) /\ Len(bus') \in Nat
  BY <1>1, PublishShape, LenProperties
<1>4. /\ Len(q) = Len(bus) + Len(es) /\ Len(bus) \in Nat /\ Len(es) \in Nat
      /\ \A j \in 1 .. Len(bus) + Len(es) : q[j] = IF j <= Len(bus) THEN bus[j] ELSE es[j - Len(bus)]
  BY <1>1, ConcatProperties, LenProperties
<1>5. \A j \in 1 .. Len(q) : \/ j \in 1 .. Len(bus) /\ q[j] = bus[j]
                             \/ /\ j \notin 1 .. Len(bus) /\ j - Len(bus) \in 1 .. Len(es)
                                /\ j > Len(bus) /\ q[j] = es[j - Len(bus)]
  BY <1>4
<1>6. \A i \in 1 .. Len(bus) : bus[i].type = "answer" => bus[i].of \in Nat
  BY <1>1, ElementOfSeq, EventFacts
<1>7. panel.seen \in Nat /\ a \in Nat
  BY DEF TInv, Shape
<1> HIDE DEF q
<1>8. ASSUME NEW i \in 1 .. Len(q), NEW j \in 1 .. Len(q), i < j, q[i].type = "answer", q[j].type = "answer"
      PROVE  q[i].of <= q[j].of
  <2>1. CASE j \in 1 .. Len(bus)
    <3>1. i \in 1 .. Len(bus)
      BY <1>4, <1>8, <2>1
    <3> QED BY <1>5, <1>8, <2>1, <3>1 DEF BusInOrder
  <2>2. CASE j \notin 1 .. Len(bus)
    <3>1. q[j].of = a /\ Passed(a)
      BY <1>5, <1>8, <2>2
    <3>2. CASE i \in 1 .. Len(bus)
      BY <1>5, <1>8, <3>1, <3>2 DEF Passed
    <3>3. CASE i \notin 1 .. Len(bus)
      <4>1. q[i].of = a
        BY <1>5, <1>8, <3>3
      <4> QED BY <1>7, <3>1, <4>1
    <3> QED BY <3>2, <3>3
  <2> QED BY <2>1, <2>2
<1>9. ASSUME NEW i \in 1 .. Len(q), q[i].type = "answer" PROVE panel.seen <= q[i].of
  <2>1. CASE i \in 1 .. Len(bus)
    BY <1>5, <1>9, <2>1 DEF BusInOrder
  <2>2. CASE i \notin 1 .. Len(bus)
    BY <1>5, <1>9, <2>2 DEF Passed
  <2> QED BY <2>1, <2>2
<1>10. BusInOrder'
  <2>1. ASSUME NEW i \in 1 .. Len(bus'), NEW j \in 1 .. Len(bus'), i < j,
               bus'[i].type = "answer", bus'[j].type = "answer"
        PROVE  bus'[i].of <= bus'[j].of
    <3>1. i + d \in 1 .. Len(q) /\ bus'[i] = q[i + d]
      BY <1>2 DEF q
    <3>2. j + d \in 1 .. Len(q) /\ bus'[j] = q[j + d]
      BY <1>2 DEF q
    <3>3. i + d < j + d
      BY <1>3, <2>1
    <3> QED BY <1>8, <2>1, <3>1, <3>2, <3>3
  <2>2. ASSUME NEW i \in 1 .. Len(bus'), bus'[i].type = "answer" PROVE panel'.seen <= bus'[i].of
    BY <1>2, <1>9, <2>2 DEF q
  <2> QED BY <2>1, <2>2 DEF BusInOrder
<1>11. ASSUME NEW k \in 0 .. MaxTyped, Passed(k),
              (\E i \in 1 .. Len(es) : es[i].type = "answer") => a <= k
       PROVE  Passed(k)'
  <2>1. ASSUME NEW i \in 1 .. Len(q), q[i].type = "answer" PROVE q[i].of <= k
    <3>1. CASE i \in 1 .. Len(bus)
      BY <1>5, <1>11, <2>1, <3>1 DEF Passed
    <3>2. CASE i \notin 1 .. Len(bus)
      BY <1>5, <1>11, <2>1, <3>2
    <3> QED BY <3>1, <3>2
  <2>2. ASSUME NEW i \in 1 .. Len(bus'), bus'[i].type = "answer" PROVE bus'[i].of <= k
    BY <1>2, <2>1, <2>2 DEF q
  <2> QED BY <1>11, <2>2 DEF Passed
<1> QED BY <1>10, <1>11

\* The commands that will still be answered: in the channel q, in the hands
\* of the console, or not typed yet.
Coming(q, k) ==
    \/ \E i \in 1 .. Len(q) : q[i].kind # "quit" /\ k = q[i].of
    \/ console = "sending" /\ k = held.of
    \/ k = typed

\* They are behind all answers, and numbers of lines.
LEMMA ComingBehind ==
    ASSUME TInv, OInv, NEW k, Coming(user, k)
    PROVE  k \in 0 .. MaxTyped /\ Behind(k)
<1>1. \A i \in 1 .. Len(user) : user[i] \in Items
  BY ElementOfSeq DEF TInv, Shape
<1> QED BY <1>1, ItemFacts DEF TInv, Shape, TypeOK, OInv, QueueInOrder, Coming

\* They come after the first command of the channel.
LEMMA HeadFirst ==
    ASSUME TInv, OInv, user # <<>>, Head(user).kind # "quit"
    PROVE  /\ Head(user) \in Items /\ Head(user).of \in 0 .. MaxTyped /\ Behind(Head(user).of)
           /\ \A k : Coming(Tail(user), k) => k \in 0 .. MaxTyped /\ Behind(k) /\ Head(user).of <= k
<1>1. /\ Head(user) \in Items /\ Head(user) = user[1] /\ Len(user) \in Nat /\ Len(user) >= 1
      /\ Len(Tail(user)) = Len(user) - 1
      /\ \A i \in 1 .. Len(Tail(user)) : i + 1 \in 1 .. Len(user) /\ Tail(user)[i] = user[i + 1]
  BY TakeFirst DEF TInv, Shape
<1>2. Head(user).of \in 0 .. MaxTyped /\ 1 \in 1 .. Len(user)
  BY <1>1, ItemFacts
<1>3. Behind(Head(user).of)
  BY <1>1, <1>2 DEF OInv, QueueInOrder
<1>4. ASSUME NEW k, Coming(Tail(user), k) PROVE k \in 0 .. MaxTyped /\ Behind(k) /\ Head(user).of <= k
  <2>1. CASE \E i \in 1 .. Len(Tail(user)) : Tail(user)[i].kind # "quit" /\ k = Tail(user)[i].of
    <3>1. PICK i \in 1 .. Len(Tail(user)) : Tail(user)[i].kind # "quit" /\ k = Tail(user)[i].of
      BY <2>1
    <3>2. i + 1 \in 1 .. Len(user) /\ user[i + 1].kind # "quit" /\ k = user[i + 1].of /\ 1 < i + 1
      BY <1>1, <3>1
    <3>3. Coming(user, k)
      BY <3>2 DEF Coming
    <3>4. Head(user).of <= k
      BY <1>1, <1>2, <3>2 DEF OInv, QueueInOrder
    <3> QED BY <3>3, <3>4, ComingBehind
  <2>2. CASE console = "sending" /\ k = held.of
    <3>1. Coming(user, k)
      BY <2>2 DEF Coming
    <3> QED BY <1>1, <1>2, <2>2, <3>1, ComingBehind DEF OInv, QueueInOrder
  <2>3. CASE k = typed
    <3>1. Coming(user, k)
      BY <2>3 DEF Coming
    <3> QED BY <1>1, <1>2, <2>3, <3>1, ComingBehind DEF TInv, Typed
  <2> QED BY <1>4, <2>1, <2>2, <2>3 DEF Coming
<1> QED BY <1>1, <1>2, <1>3, <1>4

\* The channel stays in order when it only loses its first command and what is
\* still to come stays behind all answers.
LEMMA QueueKept ==
    ASSUME TInv, OInv, UNCHANGED tui,
           user' = user \/ (user # <<>> /\ user' = Tail(user)),
           (core.kind = "ExecRemote" => Passed(core.of))',
           \A k : Coming(user', k) => Behind(k)'
    PROVE  QueueInOrder'
<1>1. UNCHANGED <<console, held, typed>>
  BY DEF tui
<1>2. /\ (\A i \in 1 .. Len(user) : user[i].kind # "quit" => Behind(user[i].of))'
      /\ (console = "sending" => Behind(held.of))'
      /\ Behind(typed)'
  BY <1>1 DEF Coming, Behind, Passed
<1>3. \E d \in Nat : \A i \in 1 .. Len(user') : i + d \in 1 .. Len(user) /\ user'[i] = user[i + d]
  <2>1. CASE user' = user
    <3>1. \A i \in 1 .. Len(user') : i + 0 \in 1 .. Len(user) /\ user'[i] = user[i + 0]
      BY <2>1 DEF TInv, Shape
    <3> QED BY <3>1
  <2>2. CASE user # <<>> /\ user' = Tail(user)
    <3>1. \A i \in 1 .. Len(user') : i + 1 \in 1 .. Len(user) /\ user'[i] = user[i + 1]
      BY <2>2, TakeFirst DEF TInv, Shape
    <3> QED BY <3>1
  <2> QED BY <2>1, <2>2
<1>4. PICK d \in Nat : \A i \in 1 .. Len(user') : i + d \in 1 .. Len(user) /\ user'[i] = user[i + d]
  BY <1>3
<1>5. ASSUME NEW i \in 1 .. Len(user'), user'[i].kind # "quit", NEW j \in 1 .. Len(user'), i < j,
             user'[j].kind # "quit"
      PROVE  user'[i].of <= user'[j].of
  <2>1. i + d \in 1 .. Len(user) /\ user'[i] = user[i + d]
    BY <1>4
  <2>2. j + d \in 1 .. Len(user) /\ user'[j] = user[j + d]
    BY <1>4
  <2>3. i + d < j + d
    BY <1>5
  <2> QED BY <1>5, <2>1, <2>2, <2>3 DEF OInv, QueueInOrder
<1>6. console' = "sending" => \A i \in 1 .. Len(user') : user'[i].kind # "quit" => user'[i].of <= held'.of
  BY <1>1, <1>4 DEF OInv, QueueInOrder
<1> QED BY <1>2, <1>5, <1>6 DEF QueueInOrder

\* A step that publishes no answer, and after which Core waits for nothing new.
LEMMA OQuiet ==
    ASSUME TInv, OInv, UNCHANGED tui,
           user' = user \/ (user # <<>> /\ user' = Tail(user)),
           NEW es \in Seq(Events), Publish(es) \/ UNCHANGED <<bus, lag>>,
           \A i \in 1 .. Len(es) : es[i].type # "answer",
           core' = core \/ core'.kind # "ExecRemote",
           TaskKinds'
    PROVE  OInv'
<1>1. panel' = panel /\ 0 \in 0 .. MaxTyped /\ UNCHANGED <<console, held, typed>>
  BY Consts DEF tui
<1>2. BusInOrder' /\ \A k \in 0 .. MaxTyped : Passed(k) => Passed(k)'
  <2>1. CASE Publish(es)
    BY <1>1, <2>1, PublishOrder DEF OInv
  <2>2. CASE UNCHANGED <<bus, lag>>
    BY <1>1, <2>2 DEF OInv, BusInOrder, Passed
  <2> QED BY <2>1, <2>2
<1>3. \A k \in 0 .. MaxTyped : Behind(k) => Behind(k)'
  BY <1>2 DEF Behind
<1>4. (core.kind = "ExecRemote" => Passed(core.of))'
  <2>1. core.of \in 0 .. MaxTyped
    BY ItemFacts DEF TInv, Shape
  <2> QED BY <1>2, <2>1 DEF OInv, QueueInOrder
<1>5. \A k : Coming(user', k) => Coming(user, k)
  <2>1. CASE user' = user
    BY <2>1
  <2>2. CASE user # <<>> /\ user' = Tail(user)
    <3>1. \A i \in 1 .. Len(user') : i + 1 \in 1 .. Len(user) /\ user'[i] = user[i + 1]
      BY <2>2, TakeFirst DEF TInv, Shape
    <3> QED BY <3>1 DEF Coming
  <2> QED BY <2>1, <2>2
<1>6. \A k : Coming(user', k) => Behind(k)'
  BY <1>3, <1>5, ComingBehind
<1>7. QueueInOrder'
  BY <1>4, <1>6, QueueKept
<1> QED BY <1>2, <1>7 DEF OInv

\* A step that publishes one answer, which is not after anything still to come.
LEMMA OAnswer ==
    ASSUME TInv, OInv, UNCHANGED tui,
           user' = user \/ (user # <<>> /\ user' = Tail(user)),
           NEW a \in 0 .. MaxTyped, Publish(<<Answer(a)>>), Passed(a), core' = NoItem,
           \A k : Coming(user', k) => k \in 0 .. MaxTyped /\ Passed(k) /\ a <= k,
           TaskKinds'
    PROVE  OInv'
<1>1. panel' = panel
  BY DEF tui
<1>2. Answer(a) \in Events /\ Answer(a).of = a
  BY EventFacts DEF Answer
<1>3. <<Answer(a)>> \in Seq(Events) /\ \A i \in 1 .. Len(<<Answer(a)>>) : <<Answer(a)>>[i].of = a
  BY <1>2, One
<1>4. BusInOrder' /\ \A k \in 0 .. MaxTyped : Passed(k) /\ a <= k => Passed(k)'
  BY <1>1, <1>3, PublishOrder DEF OInv
<1>5. core'.kind # "ExecRemote"
  BY FixedItems
<1>6. \A k : Coming(user', k) => Behind(k)'
  BY <1>4, <1>5 DEF Behind
<1>7. QueueInOrder'
  BY <1>5, <1>6, QueueKept
<1> QED BY <1>4, <1>7 DEF OInv

\* Core takes a command: whatever it answers is the oldest command there is.
LEMMA ORouteUser == ASSUME TInv, OInv, route_user PROVE OInv'
<1> DEFINE it == Head(user)
<1>1. user # <<>> /\ user' = Tail(user) /\ UNCHANGED tui /\ core = NoItem
  BY DEF route_user
<1>2. \/ it.kind \in AnsweredAtOnce \cup RunsProgram \cup {"ExecRemote"} /\ Publish(<<Answer(it.of)>>) /\ UNCHANGED <<core, tasks>>
      \/ it.kind \in {"Flush"} \cup OnlyNotified \cup RunsProgram /\ tasks' = tasks \cup {it} /\ UNCHANGED <<core, bus, lag>>
      \/ Publish(<<Notify>>) /\ UNCHANGED <<core, tasks>>
      \/ it.kind = "ExecRemote" /\ core' = it /\ UNCHANGED <<tasks, bus, lag>>
      \/ core' = Ended /\ UNCHANGED <<tasks, bus, lag>>
  BY DEF route_user, AnswerAtOnce, Spawn, RunProgram, ExecRemote
<1> HIDE DEF it
<1>3. TaskKinds'
  BY <1>2 DEF OInv, TaskKinds
<1>4. CASE it.kind \in AnsweredAtOnce \cup RunsProgram \cup {"ExecRemote"} /\ Publish(<<Answer(it.of)>>) /\ UNCHANGED <<core, tasks>>
  <2>1. it.kind # "quit"
    BY <1>4 DEF AnsweredAtOnce, RunsProgram
  <2>2. /\ it.of \in 0 .. MaxTyped /\ Passed(it.of)
        /\ \A k : Coming(user', k) => k \in 0 .. MaxTyped /\ Passed(k) /\ it.of <= k
    BY <1>1, <2>1, HeadFirst DEF Behind, it
  <2> QED BY <1>1, <1>3, <1>4, <2>2, OAnswer
<1>5. CASE Publish(<<Notify>>) /\ UNCHANGED <<core, tasks>>
  <2>1. <<Notify>> \in Seq(Events) /\ \A i \in 1 .. Len(<<Notify>>) : <<Notify>>[i].type # "answer"
    BY EventFacts, One DEF Notify
  <2> QED BY <1>1, <1>3, <1>5, <2>1, OQuiet
<1>6. CASE UNCHANGED <<bus, lag>> /\ (core' = core \/ core' = Ended)
  <2>1. <<>> \in Seq(Events) /\ \A i \in 1 .. Len(<<>>) : <<>>[i].type # "answer"
    OBVIOUS
  <2>2. core' = core \/ core'.kind # "ExecRemote"
    BY <1>6, FixedItems
  <2> QED BY <1>1, <1>3, <1>6, <2>1, <2>2, OQuiet
<1>7. CASE it.kind = "ExecRemote" /\ core' = it /\ UNCHANGED <<tasks, bus, lag>>
  <2>1. /\ it.of \in 0 .. MaxTyped /\ Passed(it.of)
        /\ \A k : Coming(user', k) => Passed(k) /\ it.of <= k
    BY <1>1, <1>7, HeadFirst DEF Behind, it
  <2>2. BusInOrder' /\ \A k : Passed(k) => Passed(k)'
    BY <1>1, <1>7 DEF OInv, BusInOrder, Passed, tui
  <2>3. \A k : Coming(user', k) => Behind(k)'
    BY <1>7, <2>1, <2>2 DEF Behind
  <2>4. (core.kind = "ExecRemote" => Passed(core.of))'
    BY <1>1, <1>7, <2>1 DEF Passed, tui
  <2>5. QueueInOrder'
    BY <1>1, <2>3, <2>4, QueueKept
  <2> QED BY <1>3, <2>2, <2>5 DEF OInv
<1> QED BY <1>2, <1>4, <1>5, <1>6, <1>7

\* Core was waiting for this answer, and has answered nothing meanwhile.
LEMMA ORemoteAnswer == ASSUME TInv, OInv, RemoteAnswer PROVE OInv'
<1>1. /\ core.kind = "ExecRemote" /\ core' = NoItem /\ Publish(<<Answer(core.of)>>)
      /\ UNCHANGED tui /\ UNCHANGED <<user, tasks>>
  BY DEF RemoteAnswer
<1>2. core.of \in 0 .. MaxTyped /\ Passed(core.of)
  BY <1>1, ItemFacts DEF TInv, Shape, OInv, QueueInOrder
<1>3. \A k : Coming(user', k) => k \in 0 .. MaxTyped /\ Passed(k) /\ core.of <= k
  BY <1>1, ComingBehind DEF Behind
<1>4. TaskKinds'
  BY <1>1 DEF OInv, TaskKinds
<1> QED BY <1>1, <1>2, <1>3, <1>4, OAnswer

\* What a task publishes is never an answer of Core.
LEMMA OTaskEnds == ASSUME TInv, OInv, NEW it \in tasks, TaskEnds(it) PROVE OInv'
<1>1. it \in Items /\ it.of \in 0 .. MaxTyped /\ it.kind \in {"Flush"} \cup OnlyNotified \cup RunsProgram
  BY ItemFacts DEF TInv, Shape, OInv, TaskKinds
<1>2. UNCHANGED tui /\ UNCHANGED <<user, core>> /\ tasks' = tasks \ {it} /\ TaskKinds'
  BY DEF TaskEnds, OInv, TaskKinds
<1>3. Notify \in Events /\ Notify.type # "answer" /\ Output(it.of) \in Events /\ Output(it.of).type # "answer"
  BY <1>1, EventFacts DEF Notify, Output
<1>4. \/ Publish(<<Notify, Output(it.of)>>) \/ Publish(<<Notify>>) \/ Publish(<<Output(it.of)>>)
  BY <1>1 DEF TaskEnds, Result
<1>5. \E es \in Seq(Events) : Publish(es) /\ \A i \in 1 .. Len(es) : es[i].type # "answer"
  <2> DEFINE n == Notify
             o == Output(it.of)
  <2> HIDE DEF n, o
  <2>1. n \in Events /\ o \in Events /\ n.type # "answer" /\ o.type # "answer"
    BY <1>3 DEF n, o
  <2>2. <<n, o>> \in Seq(Events) /\ \A i \in 1 .. Len(<<n, o>>) : <<n, o>>[i] = n \/ <<n, o>>[i] = o
    BY <2>1
  <2>3. Publish(<<n, o>>) \/ Publish(<<n>>) \/ Publish(<<o>>)
    BY <1>4 DEF n, o
  <2>4. /\ <<n>> \in Seq(Events) /\ (\A i \in 1 .. Len(<<n>>) : <<n>>[i].type # "answer")
        /\ <<o>> \in Seq(Events) /\ (\A i \in 1 .. Len(<<o>>) : <<o>>[i].type # "answer")
    BY <2>1, One
  <2>5. \A i \in 1 .. Len(<<n, o>>) : <<n, o>>[i].type # "answer"
    BY <2>1, <2>2
  <2> QED BY <2>2, <2>3, <2>4, <2>5
<1> QED BY <1>2, <1>5, OQuiet

\* Events of the network are no answers.
LEMMA OSwarmNews == ASSUME TInv, OInv, NEW p \in Peers, SwarmNews(p) PROVE OInv'
<1>1. PICK what \in SaidOn \cup SaidOff, to \in {"down", "up"} : News(p, what, to)
  BY NewsFacts
<1>2. State(what, p) \in Events /\ State(what, p).type # "answer"
  BY EventFacts DEF State, SaidOn, SaidOff
<1>3. UNCHANGED tui /\ UNCHANGED <<user, core, tasks>> /\ Publish(<<State(what, p)>>)
  BY <1>1 DEF News
<1>4. /\ <<State(what, p)>> \in Seq(Events)
      /\ \A i \in 1 .. Len(<<State(what, p)>>) : <<State(what, p)>>[i].type # "answer"
  BY <1>2, One
<1>5. TaskKinds'
  BY <1>3 DEF OInv, TaskKinds
<1> QED BY <1>3, <1>4, <1>5, OQuiet

\* The console takes an event off the bus: what it shows then is not after the
\* rest of the bus, nor after any command that is still to be answered.
LEMMA OHandle == ASSUME TInv, OInv, Handle_Bus_Event PROVE OInv' /\ panel'.seen >= panel.seen
<1> DEFINE e == Head(bus)
<1> HIDE DEF e
<1>1. /\ e \in Events /\ e = bus[1] /\ 1 \in 1 .. Len(bus) /\ Len(bus') \in Nat
      /\ \A i \in 1 .. Len(bus') : i + 1 \in 1 .. Len(bus) /\ bus'[i] = bus[i + 1]
  <2>1. /\ e \in Events /\ e = bus[1] /\ bus' = Tail(bus)
        /\ Len(bus) \in Nat /\ Len(bus) >= 1 /\ Len(bus') = Len(bus) - 1
        /\ \A i \in 1 .. Len(bus') : i + 1 \in 1 .. Len(bus) /\ bus'[i] = bus[i + 1]
    BY TakeFirst DEF TInv, Shape, Handle_Bus_Event, e
  <2> QED BY <2>1
<1>2. /\ UNCHANGED <<console, held, typed, user, core, tasks>>
      /\ panel'.seen = IF e.type = "answer" THEN e.of ELSE panel.seen
  BY DEF Handle_Bus_Event, handle_output, e
<1>3. panel.seen \in Nat /\ panel'.seen \in Nat /\ panel'.seen >= panel.seen
  <2>1. panel.seen \in Nat
    BY DEF TInv, Shape
  <2>2. CASE e.type = "answer"
    BY <1>1, <1>2, <2>1, <2>2, EventFacts DEF OInv, BusInOrder
  <2>3. CASE e.type # "answer"
    BY <1>2, <2>1, <2>3
  <2> QED BY <2>2, <2>3
<1>4. BusInOrder'
  <2>1. ASSUME NEW i \in 1 .. Len(bus'), NEW j \in 1 .. Len(bus'), i < j,
               bus'[i].type = "answer", bus'[j].type = "answer"
        PROVE  bus'[i].of <= bus'[j].of
    <3>1. i + 1 \in 1 .. Len(bus) /\ bus'[i] = bus[i + 1]
      BY <1>1
    <3>2. j + 1 \in 1 .. Len(bus) /\ bus'[j] = bus[j + 1]
      BY <1>1
    <3>3. i + 1 < j + 1
      BY <2>1
    <3> QED BY <2>1, <3>1, <3>2, <3>3 DEF OInv, BusInOrder
  <2>2. ASSUME NEW i \in 1 .. Len(bus'), bus'[i].type = "answer" PROVE panel'.seen <= bus'[i].of
    <3>1. i + 1 \in 1 .. Len(bus) /\ bus'[i] = bus[i + 1] /\ 1 < i + 1
      BY <1>1
    <3> QED BY <1>1, <1>2, <2>2, <3>1 DEF OInv, BusInOrder
  <2> QED BY <2>1, <2>2 DEF BusInOrder
<1>5. \A k : Passed(k) => Passed(k)'
  BY <1>1, <1>2 DEF Passed
<1>6. \A k : Behind(k) => Behind(k)'
  BY <1>2, <1>5 DEF Behind
<1>7. QueueInOrder'
  BY <1>2, <1>5, <1>6 DEF OInv, QueueInOrder
<1>8. TaskKinds'
  BY <1>2 DEF OInv, TaskKinds
<1> QED BY <1>3, <1>4, <1>7, <1>8 DEF OInv

\* Being behind all answers is kept when counting on.
LEMMA BehindUp == ASSUME TInv, NEW k \in Nat, NEW m \in Nat, k <= m, Behind(k) PROVE Behind(m)
<1>1. \A i \in 1 .. Len(bus) : bus[i].type = "answer" => bus[i].of \in Nat
  BY ElementOfSeq, EventFacts DEF TInv, Shape
<1>2. panel.seen \in Nat /\ core.of \in Nat
  BY ItemFacts DEF TInv, Shape
<1> QED BY <1>1, <1>2 DEF Behind, Passed

\* A step of the console that leaves the bus and Core alone and sends at most
\* one command, which comes after those sent before.
LEMMA OConsole ==
    ASSUME TInv, OInv, UNCHANGED <<bus, core, tasks>>, panel'.seen = panel.seen,
           Behind(typed'),
           \/ user' = user
           \/ \E it \in Items :
                 /\ user' = Append(user, it)
                 /\ \/ it.kind = "quit"
                    \/ /\ Behind(it.of)
                       /\ \A i \in 1 .. Len(user) : user[i].kind # "quit" => user[i].of <= it.of,
           console' = "sending" =>
              /\ user' = user /\ Behind(held'.of)
              /\ \A i \in 1 .. Len(user) : user[i].kind # "quit" => user[i].of <= held'.of
    PROVE  OInv' /\ panel'.seen >= panel.seen
<1>1. \A k : (Passed(k) => Passed(k)') /\ (Behind(k) => Behind(k)')
  BY DEF Passed, Behind
<1>2. BusInOrder' /\ TaskKinds'
  BY DEF OInv, BusInOrder, TaskKinds
<1>3. /\ (core.kind = "ExecRemote" => Passed(core.of))' /\ Behind(typed)'
      /\ (console = "sending" =>
            /\ Behind(held.of)
            /\ \A i \in 1 .. Len(user) : user[i].kind # "quit" => user[i].of <= held.of)'
  BY <1>1 DEF OInv, QueueInOrder, Behind, Passed
<1>4. (\A i \in 1 .. Len(user) : user[i].kind # "quit" =>
          /\ Behind(user[i].of)
          /\ \A j \in 1 .. Len(user) : i < j /\ user[j].kind # "quit" => user[i].of <= user[j].of)'
  <2>1. CASE user' = user
    BY <1>1, <2>1 DEF OInv, QueueInOrder
  <2>2. CASE user' # user
    <3>1. PICK it \in Items :
             /\ user' = Append(user, it)
             /\ \/ it.kind = "quit"
                \/ /\ Behind(it.of)
                   /\ \A i \in 1 .. Len(user) : user[i].kind # "quit" => user[i].of <= it.of
      BY <2>2
    <3>2. /\ Len(user') = Len(user) + 1 /\ Len(user) \in Nat
          /\ \A i \in 1 .. Len(user) : user'[i] = user[i]
          /\ user'[Len(user) + 1] = it
      BY <3>1, AddLast DEF TInv, Shape
    <3>3. \A i \in 1 .. Len(user') : i \in 1 .. Len(user) \/ i = Len(user) + 1
      BY <3>2
    <3>4. \A i \in 1 .. Len(user') : user'[i].kind # "quit" => Behind(user'[i].of)
      BY <3>1, <3>2, <3>3 DEF OInv, QueueInOrder
    <3>5. ASSUME NEW i \in 1 .. Len(user'), user'[i].kind # "quit", NEW j \in 1 .. Len(user'), i < j,
                 user'[j].kind # "quit"
          PROVE  user'[i].of <= user'[j].of
      <4>1. i \in 1 .. Len(user)
        BY <3>2, <3>5
      <4>2. CASE j \in 1 .. Len(user)
        BY <3>2, <3>5, <4>1, <4>2 DEF OInv, QueueInOrder
      <4>3. CASE j = Len(user) + 1
        BY <3>1, <3>2, <3>5, <4>1, <4>3
      <4> QED BY <3>3, <4>2, <4>3
    <3>6. (\A i \in 1 .. Len(user) : user[i].kind # "quit" => Behind(user[i].of))'
      BY <3>4 DEF Behind, Passed
    <3> QED BY <3>5, <3>6
  <2> QED BY <2>1, <2>2
<1>5. panel'.seen >= panel.seen
  BY DEF TInv, Shape
<1> QED BY <1>2, <1>3, <1>4, <1>5 DEF OInv, QueueInOrder

\* The commands in the channel are numbered by the lines typed so far.
LEMMA ChannelTyped ==
    ASSUME TInv
    PROVE  /\ \A i \in 1 .. Len(user) : user[i].of \in Nat /\ user[i].of <= typed
           /\ typed \in Nat
<1>1. \A i \in 1 .. Len(user) : user[i] \in Items
  BY ElementOfSeq DEF TInv, Shape
<1> QED BY <1>1, ItemFacts DEF TInv, TypeOK, Typed

\* The steps of the console other than typing and reading.
LEMMA OConsoleSteps ==
    ASSUME TInv, OInv, Subscribe \/ Interrupt \/ ConsoleFails \/ SendHeld \/ SendQuit
    PROVE  OInv' /\ panel'.seen >= panel.seen
<1>1. UNCHANGED <<bus, core, tasks, typed, panel>> /\ console' # "sending"
  BY DEF Subscribe, Interrupt, ConsoleFails, SendHeld, SendQuit
<1>2. Behind(typed')
  BY <1>1 DEF OInv, QueueInOrder
<1>3. CASE Subscribe \/ Interrupt \/ ConsoleFails
  <2>1. user' = user
    BY <1>3 DEF Subscribe, Interrupt, ConsoleFails
  <2> QED BY <1>1, <1>2, <2>1, OConsole
<1>4. CASE SendHeld
  <2>1. console = "sending" /\ user' = Append(user, held) /\ held \in Items
    BY <1>4 DEF SendHeld, TInv, Shape
  <2>2. Behind(held.of) /\ \A i \in 1 .. Len(user) : user[i].kind # "quit" => user[i].of <= held.of
    BY <2>1 DEF OInv, QueueInOrder
  <2> QED BY <1>1, <1>2, <2>1, <2>2, OConsole
<1>5. CASE SendQuit
  <2>1. \E it \in Items : user' = Append(user, it) /\ it.kind = "quit"
    BY <1>5, FixedItems DEF SendQuit
  <2> QED BY <1>1, <1>2, <2>1, OConsole
<1> QED BY <1>3, <1>4, <1>5

\* A line is typed: its number is the largest so far.
LEMMA OTypeLine ==
    ASSUME TInv, OInv, NEW line \in Lines, TypeLine(line)
    PROVE  OInv' /\ panel'.seen >= panel.seen
<1> DEFINE c == parse_user_command(line)
           k == typed + 1
           it == Item(k, c)
<1> HIDE DEF c
<1>0. typed \in Nat /\ k \in 0 .. MaxTyped /\ k \in Nat /\ typed <= k /\ c \in Parsed
  BY Consts DEF TInv, TypeOK, TypeLine, Parsed, c
<1>1. it \in Items /\ it.of = k
  BY <1>0, ItemFacts
<1>2. /\ UNCHANGED <<core, tasks, bus>> /\ console = "run"
      /\ \/ UNCHANGED <<typed, user, panel>> /\ (console' = console \/ console' = "quit")
         \/ /\ typed' = k /\ panel' = [panel EXCEPT !.by = k, !.completed = TRUE]
            /\ UNCHANGED <<console, held, user>>
         \/ /\ typed' = k /\ panel' = [panel EXCEPT !.completed = (mode = "cli" /\ @)]
            /\ Submit(it)
  BY DEF TypeLine, c
<1>3. panel'.seen = panel.seen
  BY <1>2 DEF TInv, Shape
<1>4. Behind(typed) /\ Behind(k)
  BY <1>0, BehindUp DEF OInv, QueueInOrder
<1>5. Behind(typed')
  BY <1>2, <1>4
<1>6. \A i \in 1 .. Len(user) : user[i].of <= k
  BY <1>0, ChannelTyped
<1>7. CASE user' = user /\ console' \in {console, "quit"}
  BY <1>2, <1>3, <1>5, <1>7, OConsole
<1>8. CASE Submit(it)
  <2> HIDE DEF it, k
  <2>1. CASE Len(user) < UserCap
    <3>1. user' = Append(user, it) /\ console' = "run"
      BY <1>2, <1>8, <2>1 DEF Submit
    <3> QED BY <1>1, <1>2, <1>3, <1>4, <1>5, <1>6, <3>1, OConsole
  <2>2. CASE ~(Len(user) < UserCap)
    <3>1. user' = user /\ held' = it
      BY <1>8, <2>2 DEF Submit
    <3>2. Behind(held'.of) /\ \A i \in 1 .. Len(user) : user[i].of <= held'.of
      BY <1>1, <1>4, <1>6, <3>1
    <3> QED BY <1>2, <1>3, <1>5, <3>1, <3>2, OConsole
  <2> QED BY <2>1, <2>2
<1> QED BY <1>2, <1>7, <1>8

\* OInv is inductive, and no step shows an older answer.
LEMMA NextOInv == TInv /\ OInv /\ [Next]_vars => OInv' /\ panel'.seen >= panel.seen
<1> SUFFICES ASSUME TInv, OInv, [Next]_vars PROVE OInv' /\ panel'.seen >= panel.seen
  OBVIOUS
<1>0. UNCHANGED tui => panel'.seen >= panel.seen
  <2>1. panel.seen \in Nat
    BY DEF TInv, Shape
  <2> QED BY <2>1 DEF tui
<1>1. CASE CoreStep
  <2>1. UNCHANGED tui
    BY <1>1 DEF CoreStep, route_user, RemoteAnswer
  <2> QED BY <1>0, <1>1, <2>1, ORouteUser, ORemoteAnswer DEF CoreStep
<1>2. CASE ConsoleStep \/ Interrupt \/ ConsoleFails
  BY <1>2, OConsoleSteps, OHandle DEF ConsoleStep
<1>3. CASE Done \/ UNCHANGED vars
  <2>1. UNCHANGED vars
    BY <1>3 DEF Done
  <2>2. UNCHANGED tui
    BY <2>1 DEF vars, tui
  <2>3. OInv'
    BY <2>1 DEF OInv, TaskKinds, BusInOrder, QueueInOrder, Behind, Passed, vars
  <2> QED BY <1>0, <2>2, <2>3
<1>4. CASE \E line \in Lines : TypeLine(line)
  BY <1>4, OTypeLine
<1>5. CASE \E it \in tasks : TaskEnds(it)
  <2>1. UNCHANGED tui
    BY <1>5 DEF TaskEnds
  <2> QED BY <1>0, <1>5, <2>1, OTaskEnds
<1>6. CASE \E p \in Peers : SwarmNews(p)
  <2>1. UNCHANGED tui
    BY <1>6 DEF SwarmNews, News
  <2> QED BY <1>0, <1>6, <2>1, OSwarmNews
<1> QED BY <1>1, <1>2, <1>3, <1>4, <1>5, <1>6 DEF Next

\* For any lines, programs and capacities: the answers of Core appear in the
\* command panel in the order in which their commands were typed, although
\* blocking_send may hold a command back, Core waits for other nodes inside
\* its loop, and the bus may drop events.
THEOREM AnswersInOrder == Spec => ResultsInOrder
<1>1. TInv /\ OInv /\ [Next]_vars => OInv'
  BY NextOInv
<1>2. TInv /\ OInv /\ [Next]_vars => [panel'.seen >= panel.seen]_vars
  BY NextOInv
<1> QED BY <1>1, <1>2, ConsoleInvariance, InitOInv, PTL DEF Spec, ResultsInOrder

(***************************************************************************)
(* The peers on the screen.                                                *)
(***************************************************************************)
\* Initially nobody is shown.
LEMMA InitSInv == Init => SInv
BY DEF Init, SInv, Unsubscribed, LastWord

\* A step that leaves the bus, the peers and their connections alone.
LEMMA SQuiet ==
    ASSUME SInv, UNCHANGED <<mode, bus, lag, shown, link>>, console' = "starting" => console = "starting"
    PROVE  SInv'
BY DEF SInv, Unsubscribed, LastWord

\* A step that publishes: a connection that is down afterwards was down before
\* and nothing is said about the peer, or the event says that it is down.
LEMMA SPublish ==
    ASSUME TInv, SInv, UNCHANGED <<mode, console, shown>>, NEW es \in Seq(Events), Publish(es),
           \A p \in Peers : link'[p] = "down" =>
              \/ link[p] = "down" /\ \A i \in 1 .. Len(es) : ~SaysOn(es[i], p)
              \/ Len(es) = 1 /\ SaysOff(es[1], p)
    PROVE  SInv'
<1>1. bus \in Seq(Events) /\ lag \in BOOLEAN /\ Len(bus) <= BusCap
  BY DEF TInv, TypeOK, Shape
<1>2. /\ (lag => lag') /\ (console = "starting" => bus' = bus /\ lag' = lag)
      /\ (console # "starting" /\ ~lag' => bus' = bus \o es)
  BY <1>1, PublishShape
<1>3. Unsubscribed'
  BY <1>2 DEF SInv, Unsubscribed
<1>4. CASE console = "starting"
  <2>1. bus' = <<>> /\ \A p \in Peers : shown'[p] = "absent"
    BY <1>2, <1>4 DEF SInv, Unsubscribed
  <2> QED BY <1>3, <2>1 DEF SInv, LastWord
<1>5. CASE console # "starting"
  <2> SUFFICES ASSUME mode = "tui", ~lag', NEW p \in Peers, link'[p] = "down"
               PROVE  /\ shown[p] = "on" => \E i \in 1 .. Len(bus') : SaysOff(bus'[i], p)
                      /\ \A i \in 1 .. Len(bus') : SaysOn(bus'[i], p) =>
                            \E j \in 1 .. Len(bus') : i < j /\ SaysOff(bus'[j], p)
    BY <1>3 DEF SInv, LastWord, SaysOff, SaysOn
  <2>1. /\ Len(bus') = Len(bus) + Len(es) /\ Len(bus) \in Nat /\ Len(es) \in Nat
        /\ \A j \in 1 .. Len(bus) + Len(es) : bus'[j] = IF j <= Len(bus) THEN bus[j] ELSE es[j - Len(bus)]
    BY <1>1, <1>2, <1>5, ConcatProperties, LenProperties
  <2>2. \A j \in 1 .. Len(bus) : j \in 1 .. Len(bus') /\ bus'[j] = bus[j]
    BY <2>1
  <2>3. \A j \in 1 .. Len(bus') : \/ j \in 1 .. Len(bus)
                                  \/ j - Len(bus) \in 1 .. Len(es) /\ bus'[j] = es[j - Len(bus)]
    BY <2>1
  <2>4. CASE link[p] = "down" /\ \A i \in 1 .. Len(es) : ~SaysOn(es[i], p)
    <3>1. /\ shown[p] = "on" => \E i \in 1 .. Len(bus) : SaysOff(bus[i], p)
          /\ \A i \in 1 .. Len(bus) : SaysOn(bus[i], p) =>
                \E j \in 1 .. Len(bus) : i < j /\ SaysOff(bus[j], p)
      BY <1>2, <2>4 DEF SInv, LastWord
    <3>2. \A i \in 1 .. Len(bus') : SaysOn(bus'[i], p) => i \in 1 .. Len(bus) /\ SaysOn(bus[i], p)
      BY <2>2, <2>3, <2>4
    <3> QED BY <2>2, <3>1, <3>2
  <2>5. CASE Len(es) = 1 /\ SaysOff(es[1], p)
    <3>1. Len(bus) + 1 \in 1 .. Len(bus') /\ bus'[Len(bus) + 1] = es[1]
      BY <2>1, <2>5
    <3>2. SaysOff(bus'[Len(bus) + 1], p) /\ ~SaysOn(bus'[Len(bus) + 1], p)
      BY <2>5, <3>1 DEF SaysOff, SaysOn, SaidOn, SaidOff
    <3>3. \A i \in 1 .. Len(bus') : SaysOn(bus'[i], p) => i < Len(bus) + 1
      <4>1. \A i \in 1 .. Len(bus') : i = Len(bus) + 1 \/ i < Len(bus) + 1
        BY <2>1, <2>5
      <4> QED BY <3>2, <4>1
    <3> QED BY <3>1, <3>2, <3>3
  <2> QED BY <2>4, <2>5
<1> QED BY <1>4, <1>5

\* Core, tasks: what they publish says nothing about peers.
LEMMA SCore ==
    ASSUME TInv, SInv, UNCHANGED tui, UNCHANGED link, NEW es \in Seq(Events),
           Publish(es) \/ UNCHANGED <<bus, lag>>,
           \A i \in 1 .. Len(es) : es[i].type \notin SaidOn
    PROVE  SInv'
<1>1. UNCHANGED <<mode, console, shown>>
  BY DEF tui
<1>2. CASE Publish(es)
  BY <1>1, <1>2, SPublish DEF SaysOn
<1>3. CASE UNCHANGED <<bus, lag>>
  BY <1>1, <1>3, SQuiet
<1> QED BY <1>2, <1>3

\* What Core and its tasks publish.
LEMMA CoreEvents ==
    ASSUME TInv, CoreStep \/ \E it \in tasks : TaskEnds(it)
    PROVE  /\ UNCHANGED tui /\ UNCHANGED link
           /\ \E es \in Seq(Events) : /\ Publish(es) \/ UNCHANGED <<bus, lag>>
                                      /\ \A i \in 1 .. Len(es) : es[i].type \notin SaidOn
<1> DEFINE Own == {e \in Events : e.type \notin SaidOn}
<1>0. UNCHANGED tui /\ UNCHANGED link
  BY DEF CoreStep, route_user, RemoteAnswer, TaskEnds, network
<1>1. \A x \in 0 .. MaxTyped : Answer(x) \in Own /\ Output(x) \in Own
  BY EventFacts DEF Answer, Output, SaidOn
<1>2. Notify \in Own
  BY EventFacts DEF Notify, SaidOn
<1>3. \/ UNCHANGED <<bus, lag>> \/ \E e \in Own : Publish(<<e>>) \/ \E f \in Own : Publish(<<e, f>>)
  <2>1. CASE route_user
    <3>1. user # <<>>
      BY <2>1 DEF route_user
    <3>2. Head(user).of \in 0 .. MaxTyped
      BY <3>1, TakeFirst, ItemFacts DEF TInv, Shape
    <3>3. UNCHANGED <<bus, lag>> \/ Publish(<<Notify>>) \/ Publish(<<Answer(Head(user).of)>>)
      BY <2>1 DEF route_user, AnswerAtOnce, Spawn, RunProgram, ExecRemote
    <3> QED BY <1>1, <1>2, <3>2, <3>3
  <2>2. CASE RemoteAnswer
    <3>1. core.of \in 0 .. MaxTyped /\ Publish(<<Answer(core.of)>>)
      BY <2>2, ItemFacts DEF TInv, Shape, RemoteAnswer
    <3> QED BY <1>1, <3>1
  <2>3. ASSUME NEW it \in tasks, TaskEnds(it)
        PROVE  \E e \in Own : Publish(<<e>>) \/ \E f \in Own : Publish(<<e, f>>)
    <3>1. it.of \in 0 .. MaxTyped
      BY ItemFacts DEF TInv, Shape
    <3>2. \/ Publish(<<Notify, Output(it.of)>>) \/ Publish(<<Notify>>)
          \/ Publish(<<Output(it.of)>>) \/ Publish(<<Answer(it.of)>>)
      BY <2>3 DEF TaskEnds, Result
    <3> QED BY <1>1, <1>2, <3>1, <3>2
  <2> QED BY <2>1, <2>2, <2>3 DEF CoreStep
<1>4. CASE UNCHANGED <<bus, lag>>
  <2>1. <<>> \in Seq(Events) /\ \A i \in 1 .. Len(<<>>) : <<>>[i].type \notin SaidOn
    OBVIOUS
  <2> QED BY <1>0, <1>4, <2>1
<1>5. ASSUME NEW e \in Own, NEW f \in Own, Publish(<<e>>) \/ Publish(<<e, f>>)
      PROVE  \E es \in Seq(Events) : Publish(es) /\ \A i \in 1 .. Len(es) : es[i].type \notin SaidOn
  <2>1. <<e>> \in Seq(Events) /\ \A i \in 1 .. Len(<<e>>) : <<e>>[i] = e
    BY One
  <2>2. <<e, f>> \in Seq(Events) /\ \A i \in 1 .. Len(<<e, f>>) : <<e, f>>[i] = e \/ <<e, f>>[i] = f
    OBVIOUS
  <2>3. /\ \A i \in 1 .. Len(<<e>>) : <<e>>[i].type \notin SaidOn
        /\ \A i \in 1 .. Len(<<e, f>>) : <<e, f>>[i].type \notin SaidOn
    BY <2>1, <2>2
  <2> QED BY <1>5, <2>1, <2>2, <2>3
<1> QED BY <1>0, <1>3, <1>4, <1>5

\* An event of the network: when a connection goes down, the event says so.
LEMMA SSwarmNews == ASSUME TInv, SInv, NEW p \in Peers, SwarmNews(p) PROVE SInv'
<1>1. PICK what \in SaidOn \cup SaidOff, to \in {"down", "up"} :
         News(p, what, to) /\ (to = "down" => what \in SaidOff)
  BY NewsFacts
<1> DEFINE e == State(what, p)
<1> HIDE DEF e
<1>2. e \in Events /\ e.type = what /\ e.of = p
  BY EventFacts DEF State, e
<1>3. /\ UNCHANGED <<mode, console, shown>> /\ Publish(<<e>>) /\ link' = [link EXCEPT ![p] = to]
  BY <1>1 DEF News, tui, e
<1>4. <<e>> \in Seq(Events) /\ Len(<<e>>) = 1 /\ <<e>>[1] = e /\ \A i \in 1 .. Len(<<e>>) : <<e>>[i] = e
  BY <1>2, One
<1>5. ASSUME NEW r \in Peers, link'[r] = "down"
      PROVE  \/ link[r] = "down" /\ \A i \in 1 .. Len(<<e>>) : ~SaysOn(<<e>>[i], r)
             \/ Len(<<e>>) = 1 /\ SaysOff(<<e>>[1], r)
  <2>1. link \in [Peers -> {"down", "up"}]
    BY DEF TInv, TypeOK
  <2>2. CASE r = p
    BY <1>1, <1>2, <1>3, <1>4, <1>5, <2>1, <2>2 DEF SaysOff
  <2>3. CASE r # p
    BY <1>2, <1>3, <1>4, <1>5, <2>1, <2>3 DEF SaysOn
  <2> QED BY <2>2, <2>3
<1> QED BY <1>3, <1>4, <1>5, SPublish

\* Reading an event: either it is the last word about the peer and goes to the
\* screen, or a later one is still on the bus.
LEMMA SHandle == ASSUME TInv, SInv, Handle_Bus_Event PROVE SInv'
<1> DEFINE e == Head(bus)
<1> HIDE DEF e
<1>1. /\ e \in Events /\ e = bus[1] /\ Len(bus) \in Nat /\ Len(bus) >= 1 /\ Len(bus') = Len(bus) - 1
      /\ \A i \in 1 .. Len(bus') : i + 1 \in 1 .. Len(bus) /\ bus'[i] = bus[i + 1]
  BY TakeFirst DEF TInv, Shape, Handle_Bus_Event, e
<1>2. UNCHANGED <<mode, console, lag, link>> /\ console # "starting"
  BY DEF Handle_Bus_Event, network
<1>3. Unsubscribed'
  BY <1>2 DEF Unsubscribed
<1>4. CASE mode # "tui"
  BY <1>2, <1>3, <1>4 DEF SInv, LastWord
<1>5. CASE mode = "tui"
  <2> SUFFICES ASSUME ~lag, NEW p \in Peers, link[p] = "down"
               PROVE  /\ shown'[p] = "on" => \E i \in 1 .. Len(bus') : SaysOff(bus'[i], p)
                      /\ \A i \in 1 .. Len(bus') : SaysOn(bus'[i], p) =>
                            \E j \in 1 .. Len(bus') : i < j /\ SaysOff(bus'[j], p)
    BY <1>2, <1>3 DEF SInv, LastWord, SaysOff, SaysOn
  <2>1. /\ shown[p] = "on" => \E i \in 1 .. Len(bus) : SaysOff(bus[i], p)
        /\ \A i \in 1 .. Len(bus) : SaysOn(bus[i], p) =>
              \E j \in 1 .. Len(bus) : i < j /\ SaysOff(bus[j], p)
    BY <1>5 DEF SInv, LastWord
  <2>2. \A j \in 1 .. Len(bus) : j # 1 => j - 1 \in 1 .. Len(bus') /\ bus'[j - 1] = bus[j]
    <3>1. \A j \in 1 .. Len(bus) : j # 1 => j - 1 \in 1 .. Len(bus') /\ (j - 1) + 1 = j
      BY <1>1
    <3> QED BY <1>1, <3>1
  <2>3. ASSUME NEW i \in 1 .. Len(bus'), SaysOn(bus'[i], p)
        PROVE  \E j \in 1 .. Len(bus') : i < j /\ SaysOff(bus'[j], p)
    <3>1. i + 1 \in 1 .. Len(bus) /\ SaysOn(bus[i + 1], p)
      BY <1>1, <2>3
    <3>2. PICK j \in 1 .. Len(bus) : i + 1 < j /\ SaysOff(bus[j], p)
      BY <2>1, <3>1
    <3>3. j - 1 \in 1 .. Len(bus') /\ bus'[j - 1] = bus[j] /\ i < j - 1
      BY <2>2, <3>2
    <3> QED BY <3>2, <3>3
  <2>4. ASSUME shown'[p] = "on" PROVE \E i \in 1 .. Len(bus') : SaysOff(bus'[i], p)
    <3>1. \E i \in 1 .. Len(bus) : i # 1 /\ SaysOff(bus[i], p)
      <4>0. handle_state(e) /\ shown \in [Peers -> {"absent", "off", "on"}] /\ 1 \in 1 .. Len(bus)
        BY <1>1, <1>5 DEF Handle_Bus_Event, TInv, TypeOK, e
      <4>1. CASE SaysOn(e, p)
        <5>1. PICK j \in 1 .. Len(bus) : 1 < j /\ SaysOff(bus[j], p)
          BY <1>1, <2>1, <4>0, <4>1
        <5> QED BY <5>1
      <4>2. CASE SaysOff(e, p)
        BY <2>4, <4>0, <4>2 DEF SaysOff, SaidOff, handle_state, Update_Peer
      <4>3. CASE ~SaysOn(e, p) /\ ~SaysOff(e, p)
        <5>1. shown'[p] = shown[p]
          BY <4>0, <4>3 DEF SaysOff, SaidOff, SaysOn, SaidOn, handle_state, Update_Peer
        <5> QED BY <1>1, <2>1, <2>4, <4>3, <5>1
      <4> QED BY <4>1, <4>2, <4>3
    <3> QED BY <2>2, <3>1
  <2> QED BY <2>3, <2>4
<1> QED BY <1>4, <1>5

\* SInv is inductive.
LEMMA NextSInv == TInv /\ SInv /\ [Next]_vars => SInv'
<1> SUFFICES ASSUME TInv, SInv, [Next]_vars PROVE SInv'
  OBVIOUS
<1>1. CASE CoreStep \/ \E it \in tasks : TaskEnds(it)
  BY <1>1, CoreEvents, SCore
<1>2. CASE SendHeld \/ SendQuit \/ Subscribe \/ Interrupt \/ ConsoleFails
  <2>1. UNCHANGED <<mode, bus, lag, shown, link>> /\ console' # "starting"
    BY <1>2 DEF SendHeld, SendQuit, Subscribe, Interrupt, ConsoleFails, network
  <2> QED BY <2>1, SQuiet
<1>3. CASE Handle_Bus_Event
  BY <1>3, SHandle
<1>4. CASE Done \/ UNCHANGED vars
  <2>1. UNCHANGED <<mode, bus, lag, shown, link, console>>
    BY <1>4 DEF Done, vars
  <2> QED BY <2>1, SQuiet
<1>5. ASSUME NEW line \in Lines, TypeLine(line) PROVE SInv'
  <2>1. UNCHANGED <<mode, bus, lag, shown, link>> /\ console' # "starting"
    BY <1>5 DEF TypeLine, Submit, network
  <2> QED BY <2>1, SQuiet
<1>6. CASE \E p \in Peers : SwarmNews(p)
  BY <1>6, SSwarmNews
<1> QED BY <1>1, <1>2, <1>3, <1>4, <1>5, <1>6 DEF Next, ConsoleStep

\* For any peers and any capacity of the bus: once the TUI has read all events
\* and none was lost, a peer it shows as connected is connected.
THEOREM ScreenCurrent == Spec => []ShownIsConnected
<1>1. TInv /\ SInv /\ [Next]_vars => SInv'
  BY NextSInv
<1>2. TInv /\ SInv => ShownIsConnected
  <2> SUFFICES ASSUME TInv, SInv, mode = "tui", bus = <<>>, ~lag, NEW p \in Peers, shown[p] = "on"
               PROVE  link[p] = "up"
    BY DEF ShownIsConnected
  <2>1. link[p] \in {"down", "up"}
    BY DEF TInv, TypeOK
  <2>2. link[p] # "down"
    BY DEF SInv, LastWord
  <2> QED BY <2>1, <2>2
<1> QED BY <1>1, <1>2, ConsoleInvariance, InitSInv, PTL DEF Spec

================================================================================
