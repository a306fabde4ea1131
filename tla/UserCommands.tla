----------------------------- MODULE UserCommands -----------------------------
(***************************************************************************)
(* The command language of the two consoles (parse_user_command in         *)
(* TUI/mod.rs) and how Core answers each command (route_user in            *)
(* Orchestrator/core/branch_user.rs).  A line is the sequence of its       *)
(* words; a word stands for its class.  Lines are trimmed, so a verb with  *)
(* nothing behind it is an unknown command.                                *)
(***************************************************************************)
EXTENDS Naturals, Sequences

CONSTANTS NumberWords, \* words that parse::<u64>() takes
          PairWords,   \* words of the form key=value
          RangeWords,  \* words that Parse_Peer_Assignment takes (peer:start-end)
          DeviceWords  \* cpu, cuda and cuda:N

Err == [kind |-> "Err", prog |-> ""]
Local(what) == [kind |-> what, prog |-> ""]
Command(kind) == [kind |-> kind, prog |-> ""]
Program(kind, prog) == [kind |-> kind, prog |-> prog]

\* Verbs without an argument, and verbs that take the rest of the line.
BareVerbs == [help |-> "Help", ls |-> "List", flush |-> "Flush", reload |-> "Reload",
              dp |-> "DisplayPeer"]

RestVerbs == [session_create |-> "Session", run |-> "Run", set_name |-> "SetName",
              profile |-> "Profile", dial |-> "Dial"]

NumberVerbs == [api |-> "Api", cancel |-> "Cancel"]

\* All words from the i-th on are in S.
AllFrom(args, i, S) == \A j \in i .. Len(args) : args[j] \in S

parse_user_command(line) ==
    IF line = <<>> THEN Local("nothing") ELSE
    LET verb == Head(line)
        args == Tail(line)
        n == Len(args)
    IN  CASE verb \in {"quit", "exit"} /\ n = 0 -> Local("quit")
          [] verb = "clear" /\ n = 0 -> Local("nothing")
          [] verb \in DOMAIN BareVerbs /\ n = 0 -> Command(BareVerbs[verb])
          [] verb \in DOMAIN RestVerbs /\ n >= 1 -> Command(RestVerbs[verb])
          [] verb \in DOMAIN NumberVerbs /\ n = 1 /\ AllFrom(args, 1, NumberWords)
               -> Command(NumberVerbs[verb])
          [] verb = "set_device" /\ n = 1 /\ AllFrom(args, 1, DeviceWords) -> Command("SetDevice")
          [] verb = "send" /\ n = 2 -> Program("Send", "send")
          [] verb = "distribute" /\ n >= 2 /\ AllFrom(args, 2, RangeWords)
               -> Command("DistributeModel")
          [] verb = "pipeline" /\ n >= 1 -> Program("Execute", "pipeline")
          [] verb = "exec" /\ n >= 1 /\ AllFrom(args, 2, PairWords) -> Program("Execute", args[1])
          [] verb = "rexec" /\ n >= 2 /\ AllFrom(args, 3, PairWords) -> Command("ExecRemote")
          [] verb = "session_inference" /\ n = 2 /\ args[1] \in NumberWords
               -> Program("SessionInference", "single_inf")
          [] verb = "session_inference" /\ n >= 3 /\ args[2] \in NumberWords
               -> Program("SessionInference", args[1])
          [] OTHER -> Err

\* route_user publishes the Output before it returns.
AnsweredAtOnce == {"Help", "List", "Reload", "DisplayPeer", "Run", "SetName", "Profile", "Cancel",
                   "SetDevice", "DistributeModel"}

\* A task is spawned that publishes a notification at its end, never an Output.
OnlyNotified == {"Session", "Dial", "Api"}

\* A Lua program is run in a thread of its own.
RunsProgram == {"Execute", "Send", "SessionInference"}
=============================================================================
