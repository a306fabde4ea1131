------------------------------ MODULE GgufModel ------------------------------
(***************************************************************************)
(* Model files and what is computed with them (Src/ML_Engine).  A file     *)
(* gives its tensors by name; what matters of a tensor is which tensor of  *)
(* the original model its bytes are.  A block has one tensor here, and all *)
(* tensors are of one size.  Layers are numbered as in the code: 0 is the  *)
(* embedding, 1..N the blocks, N+1 the output layer.                       *)
(*                                                                         *)
(* A tensor passed between layers is what was computed: the weights it     *)
(* went through and, for each block, the KV cache it was attended with.    *)
(***************************************************************************)
EXTENDS Integers, Sequences, FiniteSets, SequencesExt, FiniteSetsExt

CONSTANTS Blocks,   \* N, block_count in the metadata
          Tied,     \* there is no output.weight: token_embd.weight serves
          RawOrder, \* the tensors of the .gguf file in the order of their data
          None

LastLayer  == Blocks + 1
TokenEmbd  == 0
OutputNorm == Blocks + 1
Output     == Blocks + 2
Names      == (0 .. OutputNorm) \cup (IF Tied THEN {} ELSE {Output})

ASSUME GgufConstants ==
    /\ Blocks \in 1..256 /\ Tied \in BOOLEAN   \* layer_bitmap has 256 bits
    /\ Len(RawOrder) = Cardinality(Names) /\ ToSet(RawOrder) = Names

Digits[n \in 0..Blocks] == IF n < 10 THEN <<n>> ELSE Append(Digits[n \div 10], n % 10)

\* Names are compared as strings: "blk.1." < "blk.10." < "blk.2.".
NameBefore(i, j) ==
    LET a == Digits[i - 1]  b == Digits[j - 1]
    IN  \/ IsStrictPrefix(a, b)
        \/ \E k \in DOMAIN a \cap DOMAIN b :
              a[k] < b[k] /\ \A l \in 1..(k - 1) : a[l] = b[l]

\* "blk..." < "output.weight" < "output_norm.weight" < "token_embd.weight"
SortedNames == SortSeq([i \in 1..Blocks |-> i], NameBefore)
                   \o (IF Tied THEN <<>> ELSE <<Output>>) \o <<OutputNorm, TokenEmbd>>

\* The tensor infos are written in the order of their names, with offsets
\* counted up in that order; the data is copied as it lies in the source.
streaming_write_pgguf ==
    [n \in Names |-> RawOrder[CHOOSE i \in 1..Len(SortedNames) : SortedNames[i] = n]]

\* The .pgguf file a .gguf file becomes when it is first analyzed.
GGUF_Analyze_And_Convert == [weights |-> streaming_write_pgguf, split |-> <<>>]

TensorsOf(l) == IF l = LastLayer THEN {OutputNorm, Output} ELSE {l}

Build_Layer_Bitmap(file) == {b \in 0..(Blocks - 1) : b + 1 \in DOMAIN file.weights}

GGUF_Analyze_From_Content(file) ==
    [num_layers |-> Blocks, is_split |-> file.split # <<>>,
     split_start |-> IF file.split = <<>> THEN 0 ELSE file.split[1],
     split_end   |-> IF file.split = <<>> THEN 0 ELSE file.split[2]]

\* The layers start..end as a file of their own, or None.  With tied weights
\* the output layer takes the embedding along.
GGUF_Split_Model(file, start, end) ==
    LET own  == (UNION {TensorsOf(l) : l \in start..end}) \cap DOMAIN file.weights
        tied == IF LastLayer \in start..end /\ Output \notin DOMAIN file.weights
                THEN {TokenEmbd} \cap DOMAIN file.weights ELSE {}
        kept == own \cup tied
    IN  IF start > end \/ end > LastLayer \/ kept = {} THEN None
        ELSE [weights |-> [n \in kept |-> file.weights[n]], split |-> <<start, end>>]

\* The tensors of one layer; a layer without any is an error.
GGUF_Load_Layer(file, l) ==
    LET found == IF l > LastLayer THEN {} ELSE TensorsOf(l) \cap DOMAIN file.weights
    IN  IF found = {} THEN None ELSE [n \in found |-> file.weights[n]]

\* A range outside of what a split file declares is refused; the end is cut
\* off at the last layer of a whole file.
LayerRange(file, start, end) ==
    LET info == GGUF_Analyze_From_Content(file)
    IN  IF info.is_split
        THEN {l \in start..end : info.split_start <= start /\ end <= info.split_end}
        ELSE start..Min({end, info.num_layers + 1})

\* The head: output_norm and output.weight, or the embedding in its place.
OutputHead(file) ==
    IF OutputNorm \notin DOMAIN file.weights THEN None
    ELSE IF Output \in DOMAIN file.weights
         THEN <<file.weights[OutputNorm], file.weights[Output]>>
    ELSE IF TokenEmbd \in DOMAIN file.weights
         THEN <<file.weights[OutputNorm], file.weights[TokenEmbd]>>
    ELSE None

\* The layers start..end, assembled, with an empty KV cache per block; None
\* if one of them is not to be had.
GGUF_Load_Model(file, start, end) ==
    LET layers == LayerRange(file, start, end)
        inner  == layers \cap 1..Blocks
        below  == Max({start, 1}) - 1
    IN  IF \/ layers = {} \/ \E l \in layers : GGUF_Load_Layer(file, l) = None
           \/ LastLayer \in layers /\ OutputHead(file) = None
        THEN None
        ELSE [input  |-> IF 0 \in layers THEN <<file.weights[TokenEmbd]>> ELSE <<>>,
              blocks |-> [i \in 1..Cardinality(inner) |-> file.weights[below + i]],
              head   |-> IF LastLayer \in layers THEN OutputHead(file) ELSE <<>>,
              kv     |-> [i \in 1..Cardinality(inner) |-> <<>>]]

(***************************************************************************)
(* One forward pass.  A chunk <<c, n>> is the n-th tensor of conversation  *)
(* c: the prompt for n = 0, one token after it for n > 0.                  *)
(***************************************************************************)
TokenIds(chunk) == [kind |-> "ids", chunk |-> chunk, trace |-> <<>>]

Clear_Kv_Cache(model) == [model EXCEPT !.kv = [i \in DOMAIN @ |-> <<>>]]

\* The caches of a model that has blocks and has run; None if it has not.
extract_kv_cache(model) ==
    IF model.kv = <<>> \/ <<>> \in ToSet(model.kv) THEN None ELSE model.kv

\* The caches of the same number of blocks are appended to those there are.
restore_kv_cache(model, kvs) ==
    IF Len(kvs) # Len(model.kv) THEN None
    ELSE [model EXCEPT !.kv = [i \in DOMAIN kvs |-> @[i] \o kvs[i]]]

\* Token ids go to an embedding, hidden states to blocks and to the head.
\* The causal mask of a prompt does not fit to a cache that is not empty.
Fits(model, x) ==
    /\ x.kind = (IF model.input # <<>> THEN "ids" ELSE "hidden")
    /\ x.chunk[2] = 0 => \A i \in DOMAIN model.kv : model.kv[i] = <<>>

\* Every block appends to its cache and attends to all that is in it.
Forward(model, x) ==
    LET kv == [i \in DOMAIN model.kv |-> Append(model.kv[i], x.chunk)]
    IN  [model |-> [model EXCEPT !.kv = kv],
         out   |-> [kind  |-> IF model.head = <<>> THEN "hidden" ELSE "logits",
                    chunk |-> x.chunk,
                    trace |-> x.trace \o model.input
                                \o [i \in DOMAIN kv |-> <<model.blocks[i], kv[i]>>]
                                \o model.head]]

GGUF_Model_Inference(model, x) == IF Fits(model, x) THEN Forward(model, x) ELSE None

\* What the whole model, as it was converted, computes for a chunk after the
\* chunks before it.
Logits(chunk) ==
    LET w     == streaming_write_pgguf
        sofar == [n \in 1..(chunk[2] + 1) |-> <<chunk[1], n - 1>>]
    IN  [kind |-> "logits", chunk |-> chunk,
         trace |-> <<w[TokenEmbd]>> \o [i \in 1..Blocks |-> <<w[i], sofar>>]
                     \o <<w[OutputNorm], w[IF Tied THEN TokenEmbd ELSE Output]>>]
=============================================================================
