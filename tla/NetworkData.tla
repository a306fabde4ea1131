----------------------------- MODULE NetworkData -----------------------------
(***************************************************************************)
(* What the request-response protocol puts on the wire                     *)
(* (Network/Request_Response/codec.rs) and the text of a command           *)
(* (Orchestrator/command.rs).  A text is the sequence of the pieces that   *)
(* split('|') makes of it: two texts joined by a '|' are concatenated, so  *)
(* a '|' inside a parameter makes one more piece.                          *)
(***************************************************************************)
EXTENDS Naturals, Sequences

CONSTANTS MAX_FRAME_SIZE, \* the longest payload a reader takes
          Numbers         \* the pieces that parse::<u64>() takes

ASSUME FrameSize == MAX_FRAME_SIZE \in Nat

BadFrame == [bad |-> TRUE]

\* `repr(u8)`: 3 was the bandwidth test and is not used any more.
DataTypes == [Command |-> 0, Data |-> 1, File |-> 2, Info |-> 4]

From_U8(v) == {t \in DOMAIN DataTypes : DataTypes[t] = v}

Write_Frame(d) == [type |-> DataTypes[d.data_type], len |-> d.size, payload |-> d.payload]

\* The writer does not look at the length, the reader refuses a long frame.
Read_Frame(f) ==
    IF From_U8(f.type) = {} \/ f.len > MAX_FRAME_SIZE
    THEN BadFrame
    ELSE [data_type |-> CHOOSE t \in From_U8(f.type) : TRUE, payload |-> f.payload, size |-> f.len]

----------------------------------------------------------------------------
ParseError == [proto |-> "Err", args |-> <<>>]

\* How many pieces each command has, and which of them are numbers.
Arity == [ESTABLISH_TENSOR_STREAM |-> 3, JOIN_PIPELINE |-> 6, PROFILE |-> 4, EXEC |-> 3]

NumericPieces == [ESTABLISH_TENSOR_STREAM |-> {2}, JOIN_PIPELINE |-> {2, 5, 6},
                  PROFILE |-> {3}, EXEC |-> {}]

\* `args` holds the text of each field.
Serialize_Network_Command(cmd) ==
    LET Join[i \in 0 .. Len(cmd.args)] == IF i = 0 THEN <<cmd.proto>> ELSE Join[i - 1] \o cmd.args[i]
    IN  Join[Len(cmd.args)]

Parse_Network_Command(text) ==
    LET p == text[1]
    IN  IF /\ p \in DOMAIN Arity
           /\ Len(text) = Arity[p]
           /\ \A i \in NumericPieces[p] : text[i] \in Numbers
        THEN [proto |-> p, args |-> Tail(text)]
        ELSE ParseError
=============================================================================
