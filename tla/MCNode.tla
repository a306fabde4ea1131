-------------------------------- MODULE MCNode --------------------------------
(***************************************************************************)
(* Two nodes that call each other.                                         *)
(***************************************************************************)
EXTENDS Node

CONSTANTS n1, n2, rexec1, rexec2, script

Data(ty, text, size) == [data_type |-> ty, payload |-> text, size |-> size]
Exec(args) == Serialize_Network_Command([proto |-> "EXEC", args |-> args])
By(from, to, by, op, data) == [from |-> from, to |-> to, by |-> by, op |-> op, data |-> data]

\* The second rexec has a parameter with a '|' in it.
McMenu ==
    (rexec1 :> {By(n1, n2, "user", "SendData", Data("Command", Exec(<<<<"prog">>, <<"{}">>>>), 1))}) @@
    (rexec2 :> {By(n2, n1, "user", "SendData", Data("Command", Exec(<<<<"prog">>, <<"{", "}">>>>), 1))}) @@
    (script :> {By(n1, n2, "script", "SendData", Data("File", <<"f">>, 1)),
                By(n1, n2, "script", "SendData", Data("Data", <<"tensor">>, 2)),
                By(n2, n1, "script", "SendData", Data("Info", <<"name">>, 1)),
                By(n1, n2, "script", "Other", Data("Data", <<>>, 0))})

McScripts == [n \in Nodes |-> {"prog"}]
=============================================================================
