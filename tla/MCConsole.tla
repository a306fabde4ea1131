------------------------------- MODULE MCConsole -------------------------------
(***************************************************************************)
(* A console with a line of every kind, one remote peer and short          *)
(* channels.                                                               *)
(***************************************************************************)
EXTENDS Console

McLines ==
    {<<"clear">>, <<"quit">>, <<"ls", "x">>, <<"reload">>, <<"flush">>, <<"dial", "addr">>,
     <<"exec", "hello">>, <<"session_inference", "1", "m">>, <<"rexec", "p", "hello", "k=v">>}

McListings == {{}, {"hello", "single_inf"}}
=============================================================================
