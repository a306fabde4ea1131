------------------------------ MODULE MlThread -------------------------------
(***************************************************************************)
(* What a session expects of the program that runs the model for it: for   *)
(* every tensor sent to it, in order, the logits of the whole model for    *)
(* the conversation the tensor belongs to; or nothing more at all.         *)
(***************************************************************************)
EXTENDS Naturals, Sequences

CONSTANTS Threads,   \* the programs, one per session
          Chunks,    \* the tensors a session may send
          Logits(_)  \* the logits of each

VARIABLES asked, answered, dead   \* of each thread

Init ==
    /\ asked = [t \in Threads |-> <<>>] /\ answered = [t \in Threads |-> <<>>]
    /\ dead = [t \in Threads |-> FALSE]

Ask(t) ==
    /\ \E c \in Chunks : asked' = [asked EXCEPT ![t] = Append(@, c)]
    /\ UNCHANGED <<answered, dead>>

Answer(t) ==
    /\ ~dead[t] /\ Len(answered[t]) < Len(asked[t])
    /\ LET c == asked[t][Len(answered[t]) + 1]
       IN  answered' = [answered EXCEPT ![t] = Append(@, Logits(c))]
    /\ UNCHANGED <<asked, dead>>

Die(t) ==
    /\ dead' = [dead EXCEPT ![t] = TRUE]
    /\ UNCHANGED <<asked, answered>>

Next == \E t \in Threads : Ask(t) \/ Answer(t) \/ Die(t)

Spec == Init /\ [][Next]_<<asked, answered, dead>>
=============================================================================
