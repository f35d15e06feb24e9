---------------------------- MODULE MCGRPCServer ----------------------------
(***************************************************************************)
(* Two clients listen for events; nobody asks for the files or the logs,   *)
(* but no log may come to a message with the level "warning".  Among the   *)
(* command lines one sets the log level,                                   *)
(* one has an argument without a colon, one names a plugin twice; among    *)
(* the configurations one lacks a key and one has an unknown log level.    *)
(***************************************************************************)
EXTENDS GRPCServer, TLC

CONSTANTS events, moreEvents

MCChannelOf == (events :> "event") @@ (moreEvents :> "event")
MCMaxSent == ("log" :> 1) @@ ("file" :> 1) @@ ("event" :> 1)

NoOptions == [o \in {} |-> ""]
MCCommandLines ==
    {[options |-> NoOptions, plugins |-> <<>>],
     [options |-> ("log_level" :> "debug"), plugins |-> << <<"scanner", "-d">>, <<"tracer", "">> >>],
     [options |-> NoOptions, plugins |-> << <<"scanner">> >>],
     [options |-> NoOptions, plugins |-> << <<"scanner", "-d">>, <<"scanner", "">> >>]}

MCFile(level_) == [k \in Required |-> IF k = "log_level" THEN level_ ELSE "value"]
MCConfigFiles == {MCFile("warning"), MCFile("trace"), [k \in Required \ {"vm.name"} |-> "info"]}
=============================================================================
