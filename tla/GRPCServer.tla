----------------------------- MODULE GRPCServer -----------------------------
(***************************************************************************)
(* How VMICore reports to its clients and how it ends (vmicore/src/        *)
(* main.cpp, lib/io/grpc/GRPCServer.cpp, rust_src/src/grpc_server.rs,      *)
(* grpc_vmi_service.rs, grpc_log_service.rs).                              *)
(*                                                                         *)
(* Logs, files and events go to three unbounded channels.  A thread runs   *)
(* the server; each request of a client gets a stream that takes messages  *)
(* out of one channel, and two streams of the same channel share them.  In *)
(* the end main closes the channels, waits until they are empty or for a   *)
(* time, stops the server, which lets the open streams finish, and joins   *)
(* the thread.                                                             *)
(*                                                                         *)
(* The messages of a channel are numbered in the order in which they are   *)
(* sent: those in the channel are the ones from taken + 1 to sent.         *)
(***************************************************************************)
EXTENDS Configuration, FiniteSets

CONSTANTS
    Streams,     \* the requests that clients may make; each is made once
    ChannelOf,   \* ChannelOf[s]: the channel it asks for
    MaxSent,     \* MaxSent[c]: bound on the messages sent to a channel while VmiHub runs
    Window       \* how many messages a stream may have under way to its client

Channels == {"log", "file", "event"}

ASSUME ServerAssumption ==
    /\ ChannelOf \in [Streams -> Channels]
    /\ MaxSent \in [Channels -> Nat]
    /\ Window \in Nat \ {0}

VARIABLES
    main,       \* where main is, see TypeOK
    exitCode,
    level,      \* the log level that the loggers are made with
    server,     \* the thread: "none", "binding", "serving", "closing", "stopped"
    triggered,  \* the shutdown trigger has been pulled
    closed,     \* the channels are closed
    sent,       \* messages sent to each channel
    taken,      \* messages taken out of each channel
    stream,     \* "idle", "open", "leaving" (the client asks for no more), "returned", "complete", "lost"
    held,       \* messages under way to the client of a stream
    got,        \* messages that a client has received
    dropped     \* ghost: messages that were under way when the connection was lost

mainVars   == <<main, exitCode, level>>
streamVars == <<taken, stream, held, got, dropped>>
vars       == <<main, exitCode, level, server, triggered, closed, sent, taken, stream, held, got, dropped>>

Init ==
    /\ main = "setup" /\ exitCode = 0 /\ level = "info"
    /\ server = "none" /\ triggered = FALSE /\ closed = FALSE
    /\ sent = [c \in Channels |-> 0] /\ taken = [c \in Channels |-> 0]
    /\ stream = [s \in Streams |-> "idle"]
    /\ held = [s \in Streams |-> {}] /\ got = [s \in Streams |-> {}] /\ dropped = [s \in Streams |-> {}]

-----------------------------------------------------------------------------
(* main *)

\* The command line, the configuration or its log level is refused before the server is started.
SetupFails ==
    /\ main = "setup"
    /\ main' = "ended"
    /\ \E line \in CommandLines, file \in ConfigFiles :
          SetupCode(line, file) # 0 /\ exitCode' = SetupCode(line, file)
    /\ UNCHANGED <<level, server, triggered, closed, sent, streamVars>>

\* set_log_level: new_logger and new_named_logger, which are called later, give it to the loggers.
SetLogLevel(l) == level' = l

Start ==
    /\ main = "setup"
    /\ main' = "running"
    /\ \E line \in CommandLines, file \in ConfigFiles :
          SetupCode(line, file) = 0 /\ SetLogLevel(Value("log_level", line, file))
    /\ server' = "binding"
    /\ UNCHANGED <<exitCode, triggered, closed, sent, streamVars>>

\* log_no_base_fields: how many messages a log of level l comes to
Written(l) == IF Rank(l) < Rank(level) THEN 0 ELSE 1

\* VmiHub and the plugins run.  The channels are open as long as they do.
Running(c) ==
    /\ main = "running" /\ sent[c] < MaxSent[c]
    /\ UNCHANGED <<mainVars, server, triggered, closed, streamVars>>

\* debug, info, warning and error
Log(l) == Running("log") /\ sent' = [sent EXCEPT !["log"] = @ + Written(l)]

\* saveBinaryToFile
SaveBinaryToFile == Running("file") /\ sent' = [sent EXCEPT !["file"] = @ + 1]

\* sendProcessEvent, sendBSODEvent, sendReadyEvent, sendInMemDetectionEvent, ...
SendEvent == Running("event") /\ sent' = [sent EXCEPT !["event"] = @ + 1]

Send == (\E l \in LogLevels : Log(l)) \/ SaveBinaryToFile \/ SendEvent

\* What VmiHub::run returns is not used.
RunReturns ==
    /\ main = "running"
    /\ main' = "reporting"
    /\ UNCHANGED <<exitCode, level, server, triggered, closed, sent, streamVars>>

LogAndEvent(l) == sent' = [sent EXCEPT !["log"] = @ + Written(l), !["event"] = @ + 1]

RunThrows ==
    /\ main = "running"
    /\ main' = "reporting"
    /\ exitCode' = 1
    /\ LogAndEvent("error")
    /\ UNCHANGED <<level, server, triggered, closed, streamVars>>

\* "Done with VMI" and the termination event
Report ==
    /\ main = "reporting"
    /\ main' = "stopping"
    /\ LogAndEvent("info")
    /\ UNCHANGED <<exitCode, level, server, triggered, closed, streamVars>>

\* Mutant: stop_server waits for empty channels without closing them.
LeaveChannelsOpen ==
    /\ main = "stopping"
    /\ main' = "draining"
    /\ UNCHANGED <<exitCode, level, server, triggered, closed, sent, streamVars>>

\* stop_server
CloseChannels ==
    /\ main = "stopping"
    /\ main' = "draining"
    /\ closed' = TRUE
    /\ UNCHANGED <<exitCode, level, server, triggered, sent, streamVars>>

Empty(c) == taken[c] = sent[c]

PullTrigger ==
    /\ main' = "joining"
    /\ triggered' = TRUE
    /\ UNCHANGED <<exitCode, level, server, closed, sent, streamVars>>

Drained == main = "draining" /\ (\A c \in Channels : Empty(c)) /\ PullTrigger
DrainTimedOut == main = "draining" /\ (\E c \in Channels : ~Empty(c)) /\ PullTrigger

\* Mutant: the thread of the server is detached.
Detach ==
    /\ main = "joining"
    /\ main' = "ended"
    /\ UNCHANGED <<exitCode, level, server, triggered, closed, sent, streamVars>>

Join ==
    /\ main = "joining" /\ server = "stopped"
    /\ main' = "ended"
    /\ UNCHANGED <<exitCode, level, server, triggered, closed, sent, streamVars>>

-----------------------------------------------------------------------------
(* The thread of the server *)

Alive == main \notin {"ended", "aborted"}

\* The error of start_server leaves the function of the thread: the program aborts.
BindFails ==
    /\ Alive /\ server = "binding"
    /\ server' = "stopped"
    /\ main' = "aborted"
    /\ UNCHANGED <<exitCode, level, triggered, closed, sent, streamVars>>

Serve ==
    /\ Alive /\ server = "binding"
    /\ server' = "serving"
    /\ UNCHANGED <<mainVars, triggered, closed, sent, streamVars>>

\* The trigger is noticed: no request is accepted any more.
BeginShutdown ==
    /\ server = "serving" /\ triggered
    /\ server' = "closing"
    /\ UNCHANGED <<mainVars, triggered, closed, sent, streamVars>>

Over(s) == \/ stream[s] \in {"idle", "lost"}
           \/ stream[s] \in {"returned", "complete"} /\ held[s] = {}

StopServing ==
    /\ server = "closing"
    /\ \A s \in Streams : Over(s)
    /\ server' = "stopped"
    /\ UNCHANGED <<mainVars, triggered, closed, sent, streamVars>>

-----------------------------------------------------------------------------
(* A stream: read_logs, dump_msg_to_file, listen_for_events *)

Connect(s) ==
    /\ server = "serving" /\ stream[s] = "idle"
    /\ stream' = [stream EXCEPT ![s] = "open"]
    /\ UNCHANGED <<mainVars, server, triggered, closed, sent, taken, held, got, dropped>>

Receive(c) == [taken EXCEPT ![c] = @ + 1]

\* Mutant: a message that arrives when the client asks for no more is thrown away.
TakeUnlessLeaving(s) ==
    LET c == ChannelOf[s]
    IN  /\ stream[s] \in {"open", "leaving"}
        /\ ~Empty(c) /\ Cardinality(held[s]) < Window
        /\ taken' = Receive(c)
        /\ held' = [held EXCEPT ![s] = IF stream[s] = "open" THEN @ \cup {taken[c] + 1} ELSE @]
        /\ UNCHANGED <<mainVars, server, triggered, closed, sent, stream, got, dropped>>

\* select! may still take a message when the client asks for no more.
Take(s) ==
    LET c == ChannelOf[s]
    IN  /\ stream[s] \in {"open", "leaving"}
        /\ ~Empty(c) /\ Cardinality(held[s]) < Window
        /\ taken' = Receive(c)
        /\ held' = [held EXCEPT ![s] = @ \cup {taken[c] + 1}]
        /\ UNCHANGED <<mainVars, server, triggered, closed, sent, stream, got, dropped>>

\* recv returns an error if the channel is closed and empty.
NothingToCome(c) == closed /\ Empty(c)

Complete(s) ==
    /\ stream[s] \in {"open", "leaving"}
    /\ NothingToCome(ChannelOf[s])
    /\ stream' = [stream EXCEPT ![s] = "complete"]
    /\ UNCHANGED <<mainVars, server, triggered, closed, sent, taken, held, got, dropped>>

\* wait_for_termination is over.
Return(s) ==
    /\ stream[s] = "leaving"
    /\ stream' = [stream EXCEPT ![s] = "returned"]
    /\ UNCHANGED <<mainVars, server, triggered, closed, sent, taken, held, got, dropped>>

-----------------------------------------------------------------------------
(* The client of a stream *)

AskNoMore(s) ==
    /\ Alive /\ stream[s] = "open"
    /\ stream' = [stream EXCEPT ![s] = "leaving"]
    /\ UNCHANGED <<mainVars, server, triggered, closed, sent, taken, held, got, dropped>>

Deliver(s) ==
    /\ Alive
    /\ \E m \in held[s] :
          /\ \A k \in held[s] : m <= k
          /\ got' = [got EXCEPT ![s] = @ \cup {m}]
          /\ held' = [held EXCEPT ![s] = @ \ {m}]
    /\ UNCHANGED <<mainVars, server, triggered, closed, sent, taken, stream, dropped>>

ConnectionLost(s) ==
    /\ Alive /\ stream[s] \in {"open", "leaving", "returned", "complete"}
    /\ stream' = [stream EXCEPT ![s] = "lost"]
    /\ dropped' = [dropped EXCEPT ![s] = held[s]]
    /\ held' = [held EXCEPT ![s] = {}]
    /\ UNCHANGED <<mainVars, server, triggered, closed, sent, taken, got>>

-----------------------------------------------------------------------------
MainStep   == CloseChannels \/ Drained \/ DrainTimedOut \/ Join \/ Report
ServerStep == Serve \/ BindFails \/ BeginShutdown \/ StopServing
StreamStep(s) == Take(s) \/ Complete(s) \/ Return(s)

Next ==
    \/ SetupFails \/ Start \/ RunReturns \/ RunThrows
    \/ Send
    \/ MainStep
    \/ ServerStep
    \/ \E s \in Streams : Connect(s) \/ StreamStep(s) \/ AskNoMore(s) \/ Deliver(s) \/ ConnectionLost(s)

\* The threads and tasks run; a client reads what it is sent, or goes.
Spec ==
    /\ Init /\ [][Next]_vars
    /\ WF_vars(MainStep) /\ WF_vars(ServerStep)
    /\ \A s \in Streams : WF_vars(StreamStep(s)) /\ WF_vars(Deliver(s))

-----------------------------------------------------------------------------
On(c) == {s \in Streams : ChannelOf[s] = c}

TypeOK ==
    /\ main \in {"setup", "running", "reporting", "stopping", "draining", "joining", "ended", "aborted"}
    /\ exitCode \in 0..2 /\ level \in LogLevels
    /\ server \in {"none", "binding", "serving", "closing", "stopped"}
    /\ triggered \in BOOLEAN /\ closed \in BOOLEAN
    /\ sent \in [Channels -> Nat] /\ taken \in [Channels -> Nat]
    /\ \A c \in Channels : taken[c] <= sent[c]
    /\ stream \in [Streams -> {"idle", "open", "leaving", "returned", "complete", "lost"}]
    /\ held \in [Streams -> SUBSET Nat] /\ got \in [Streams -> SUBSET Nat]
    /\ dropped \in [Streams -> SUBSET Nat]

\* The messages that a stream has taken out of its channel
Had(s) == held[s] \cup got[s] \cup dropped[s]

\* Each message that left its channel is under way to one client, received by one, or lost with the
\* connection of one; and a client receives what it gets in the order in which it was sent.
EachMessageOnce ==
    /\ \A c \in Channels : UNION {Had(s) : s \in On(c)} = 1..taken[c]
    /\ \A s, t \in Streams : s # t /\ ChannelOf[s] = ChannelOf[t] => Had(s) \cap Had(t) = {}
    /\ \A s \in Streams : got[s] \cap (held[s] \cup dropped[s]) = {}
    /\ \A s \in Streams : \A m \in got[s], k \in held[s] \cup dropped[s] : m < k

\* When the program ends, also if main gave up waiting, no stream still has a message under way, and
\* a channel that a client listened to until its stream was complete has been emptied.  The
\* termination event, which is the last, is therefore received by a client that listens alone.
NothingLeftBehind ==
    main = "ended" =>
        /\ \A s \in Streams : stream[s] \notin {"open", "leaving"} /\ held[s] = {}
        /\ \A s \in Streams : stream[s] = "complete" => taken[ChannelOf[s]] = sent[ChannelOf[s]]

\* Once it has something to report last, the program ends.
ProgramEnds == main = "reporting" ~> main \in {"ended", "aborted"}
=============================================================================
