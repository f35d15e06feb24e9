------------------------- MODULE GRPCServer_proofs -------------------------
(***************************************************************************)
(* What the server of VMICore delivers, for any clients and any number of  *)
(* messages.  The invariant adds to the types where each message is (Dealt *)
(* and its parts, which say of single messages what EachMessageOnce says   *)
(* of sets) and how the state of the streams goes with that of the server  *)
(* and of main (Progress).                                                 *)
(***************************************************************************)
EXTENDS GRPCServer, TLAPS

\* What a stream had was taken out of its channel,
Within == \A s \in Streams : Had(s) \subseteq 1..taken[ChannelOf[s]]

\* whatever was taken is with a stream,
Somewhere == \A c \in Channels : \A m \in 1..taken[c] : \E s \in Streams : ChannelOf[s] = c /\ m \in Had(s)

\* no two streams had the same message,
Apart == \A s, t \in Streams : s # t /\ ChannelOf[s] = ChannelOf[t] => Had(s) \cap Had(t) = {}

\* and a client received what precedes all that it did not.
InOrder ==
    \A s \in Streams : /\ got[s] \cap (held[s] \cup dropped[s]) = {}
                       /\ \A m \in got[s], k \in held[s] \cup dropped[s] : m < k

Dealt == Within /\ Somewhere /\ Apart /\ InOrder

Progress ==
    /\ closed => main \in {"draining", "joining", "ended", "aborted"}
    /\ main = "setup" => server = "none"
    /\ main = "ended" => server \in {"none", "stopped"}
    /\ \A s \in Streams : stream[s] = "complete" => closed /\ taken[ChannelOf[s]] = sent[ChannelOf[s]]
    /\ \A s \in Streams : stream[s] \in {"idle", "lost"} => held[s] = {}
    /\ \A s \in Streams : stream[s] = "idle" => Had(s) = {}
    /\ \A s \in Streams : stream[s] # "lost" => dropped[s] = {}
    /\ server \in {"none", "binding"} => \A s \in Streams : stream[s] = "idle"
    /\ server = "stopped" => \A s \in Streams : Over(s)

Inv == TypeOK /\ Dealt /\ Progress

-----------------------------------------------------------------------------
\* Initially nothing was sent.
LEMMA InitInv == Init => Inv
  <1> SUFFICES ASSUME Init PROVE Inv
    OBVIOUS
  <1> USE ServerAssumption DEF Init
  <1>1. TypeOK
    <2>1. {} \in SUBSET Nat
      OBVIOUS
    <2>2. held \in [Streams -> SUBSET Nat] /\ got \in [Streams -> SUBSET Nat] /\ dropped \in [Streams -> SUBSET Nat]
      BY <2>1, Zenon
    <2>3. sent \in [Channels -> Nat] /\ taken \in [Channels -> Nat]
      OBVIOUS
    <2>4. \A c \in Channels : taken[c] = 0 /\ sent[c] = 0
      OBVIOUS
    <2>5. stream \in [Streams -> {"idle", "open", "leaving", "returned", "complete", "lost"}]
      OBVIOUS
    <2>6. triggered \in BOOLEAN /\ closed \in BOOLEAN
      BY Zenon
    <2>7. main = "setup" /\ exitCode = 0 /\ server = "none" /\ level \in LogLevels
      BY DEF LogLevels
    <2> HIDE DEF Init
    <2> QED
      BY <2>2, <2>3, <2>4, <2>5, <2>6, <2>7, SMT DEF TypeOK
  <1>2. Dealt
    BY DEF Dealt, Within, Somewhere, Apart, InOrder, Had, Channels
  <1>3. Progress
    BY DEF Progress, Had
  <1> QED
    BY <1>1, <1>2, <1>3 DEF Inv

\* Sending moves nothing else, and happens while the channels are open.
LEMMA SendKeeps ==
    ASSUME Send
    PROVE  main = "running" /\ UNCHANGED <<mainVars, server, triggered, closed, streamVars>>
  BY DEF Send, Log, SaveBinaryToFile, SendEvent, Running

\* The server starts with a log level that is known.
LEMMA StartedLevel ==
    ASSUME Start
    PROVE  level' \in LogLevels
  <1>1. PICK line \in CommandLines, file \in ConfigFiles :
            SetupCode(line, file) = 0 /\ level' = Value("log_level", line, file)
    BY DEF Start, SetLogLevel
  <1>2. convert_to_log_level(level') # "throws"
    BY <1>1 DEF SetupCode
  <1> QED
    BY <1>2 DEF convert_to_log_level

\* Every step keeps the types.
LEMMA NextTypes ==
    ASSUME Inv, [Next]_vars
    PROVE  TypeOK'
  <1> USE ServerAssumption DEF Inv, TypeOK
  <1>1. CASE SetupFails
    <2>1. exitCode' \in 0..2
      BY <1>1 DEF SetupFails, SetupCode
    <2> QED
      BY <1>1, <2>1 DEF SetupFails, streamVars
  <1>2. CASE Start
    <2>1. level' \in LogLevels
      BY <1>2, StartedLevel
    <2> QED
      BY <1>2, <2>1 DEF Start, SetLogLevel, streamVars
  <1>3. CASE RunReturns
    BY <1>3 DEF RunReturns, streamVars
  <1>12. ASSUME NEW l \in LogLevels, NEW c \in Channels, sent' = [sent EXCEPT ![c] = @ + Written(l)]
         PROVE  sent' \in [Channels -> Nat] /\ \A d \in Channels : sent[d] <= sent'[d]
    BY <1>12 DEF Written
  <1>13. ASSUME NEW l \in LogLevels, LogAndEvent(l)
         PROVE  sent' \in [Channels -> Nat] /\ \A d \in Channels : sent[d] <= sent'[d]
    BY <1>13 DEF LogAndEvent, Written, Channels
  <1>14. CASE RunThrows
    <2>1. sent' \in [Channels -> Nat] /\ \A c \in Channels : sent[c] <= sent'[c]
      BY <1>13, <1>14 DEF RunThrows, LogLevels
    <2> QED
      BY <1>14, <2>1 DEF RunThrows, streamVars
  <1>15. CASE Send
    <2>1. sent' \in [Channels -> Nat] /\ \A c \in Channels : sent[c] <= sent'[c]
      <3>1. ASSUME NEW l \in LogLevels, Log(l)
            PROVE  sent' \in [Channels -> Nat] /\ \A c \in Channels : sent[c] <= sent'[c]
        BY <1>12, <3>1 DEF Log, Channels
      <3>2. CASE SaveBinaryToFile \/ SendEvent
        BY <3>2 DEF SaveBinaryToFile, SendEvent, Channels
      <3> QED
        BY <1>15, <3>1, <3>2 DEF Send
    <2> QED
      BY <1>15, <2>1, SendKeeps DEF mainVars, streamVars
  <1>4. CASE CloseChannels \/ Drained \/ DrainTimedOut \/ Join
    BY <1>4 DEF CloseChannels, Drained, DrainTimedOut, PullTrigger, Join, streamVars
  <1>5. CASE Report
    <2>1. sent' \in [Channels -> Nat] /\ \A c \in Channels : sent[c] <= sent'[c]
      BY <1>5, <1>13 DEF Report, LogLevels
    <2> QED
      BY <1>5, <2>1 DEF Report, streamVars
  <1>6. CASE ServerStep
    BY <1>6 DEF ServerStep, Serve, BindFails, BeginShutdown, StopServing, mainVars, streamVars
  <1>7. ASSUME NEW s \in Streams, Connect(s) \/ Complete(s) \/ Return(s) \/ AskNoMore(s)
        PROVE  TypeOK'
    BY <1>7 DEF Connect, Complete, Return, AskNoMore, mainVars
  <1>8. ASSUME NEW s \in Streams, Take(s)
        PROVE  TypeOK'
    BY <1>8 DEF Take, Receive, Empty, mainVars
  <1>9. ASSUME NEW s \in Streams, Deliver(s)
        PROVE  TypeOK'
    BY <1>9 DEF Deliver, mainVars
  <1>10. ASSUME NEW s \in Streams, ConnectionLost(s)
         PROVE  TypeOK'
    BY <1>10 DEF ConnectionLost, mainVars
  <1>11. CASE UNCHANGED vars
    BY <1>11 DEF vars
  <1> QED
    BY <1>1, <1>2, <1>3, <1>4, <1>5, <1>6, <1>7, <1>8, <1>9, <1>10, <1>11, <1>14, <1>15
    DEF Next, MainStep, StreamStep

-----------------------------------------------------------------------------
(* Where the messages are *)

\* A stream takes the message after those that were taken.
LEMMA TakeDeals ==
    ASSUME Inv, NEW s \in Streams, Take(s)
    PROVE  Dealt'
  <1> DEFINE c == ChannelOf[s]
             n == taken[c] + 1
  <1>1. /\ c \in Channels /\ taken[c] \in Nat
        /\ taken' = [taken EXCEPT ![c] = n]
        /\ \A d \in Channels : taken'[d] = IF d = c THEN n ELSE taken[d]
    BY ServerAssumption DEF Take, Receive, Inv, TypeOK
  <1>2. /\ held'[s] = held[s] \cup {n} /\ UNCHANGED <<got, dropped>>
        /\ \A t \in Streams : t # s => held'[t] = held[t]
    BY DEF Take, Inv, TypeOK
  <1>3. Had(s)' = Had(s) \cup {n} /\ \A t \in Streams : t # s => Had(t)' = Had(t)
    BY <1>2 DEF Had
  <1>4. \A t \in Streams : ChannelOf[t] \in Channels /\ taken[ChannelOf[t]] \in Nat
    BY ServerAssumption DEF Inv, TypeOK
  <1>5. \A t \in Streams : Had(t) \subseteq 1..taken[ChannelOf[t]]
    BY DEF Inv, Dealt, Within
  <1>6. Within'
    <2> SUFFICES ASSUME NEW t \in Streams, NEW m \in Had(t)'
                 PROVE  m \in 1..taken'[ChannelOf[t]]
      BY DEF Within
    <2>1. CASE t = s
      BY <1>1, <1>3, <1>5, <2>1
    <2>2. CASE t # s
      BY <1>1, <1>3, <1>4, <1>5, <2>2
    <2> QED
      BY <2>1, <2>2
  <1>7. Somewhere'
    <2> SUFFICES ASSUME NEW d \in Channels, NEW m \in 1..taken'[d]
                 PROVE  \E t \in Streams : ChannelOf[t] = d /\ m \in Had(t)'
      BY DEF Somewhere
    <2>1. CASE m \in 1..taken[d]
      <3>1. PICK t \in Streams : ChannelOf[t] = d /\ m \in Had(t)
        BY <2>1 DEF Inv, Dealt, Somewhere
      <3> QED
        BY <1>3, <3>1
    <2>2. CASE m \notin 1..taken[d]
      <3>1. d = c /\ m = n
        BY <1>1, <2>2
      <3> QED
        BY <1>3, <3>1
    <2> QED
      BY <2>1, <2>2
  <1>8. Apart'
    <2>1. ASSUME NEW t \in Streams, t # s, ChannelOf[t] = ChannelOf[s]
          PROVE  n \notin Had(t)
      BY <1>1, <1>5, <2>1
    <2> QED
      BY <1>3, <2>1 DEF Inv, Dealt, Apart
  <1>9. InOrder'
    <2> SUFFICES ASSUME NEW t \in Streams
                 PROVE  /\ got'[t] \cap (held'[t] \cup dropped'[t]) = {}
                        /\ \A m \in got'[t], k \in held'[t] \cup dropped'[t] : m < k
      BY DEF InOrder
    <2>1. /\ got[t] \cap (held[t] \cup dropped[t]) = {}
          /\ \A m \in got[t], k \in held[t] \cup dropped[t] : m < k
      BY DEF Inv, Dealt, InOrder
    <2>2. \A m \in got[s] : m \in 1..taken[c]
      BY <1>5 DEF Had
    <2>3. CASE t = s
      BY <1>1, <1>2, <2>1, <2>2, <2>3
    <2>4. CASE t # s
      BY <1>2, <2>1, <2>4
    <2> QED
      BY <2>3, <2>4
  <1> QED
    BY <1>6, <1>7, <1>8, <1>9 DEF Dealt

\* What a stream had stays what it had when a message arrives, or is lost with the connection.
LEMMA HadKept ==
    ASSUME Inv, NEW s \in Streams, Deliver(s) \/ ConnectionLost(s)
    PROVE  /\ \A t \in Streams : Had(t)' = Had(t)
           /\ UNCHANGED taken
  <1>1. CASE Deliver(s)
    BY <1>1 DEF Deliver, Had, Inv, TypeOK
  <1>2. CASE ConnectionLost(s)
    <2>1. dropped[s] = {}
      BY <1>2 DEF ConnectionLost, Inv, Progress
    <2> QED
      BY <1>2, <2>1 DEF ConnectionLost, Had, Inv, TypeOK
  <1> QED
    BY <1>1, <1>2

\* A message arrives, the first of those under way.
LEMMA DeliverDeals ==
    ASSUME Inv, NEW s \in Streams, Deliver(s)
    PROVE  Dealt'
  <1>1. (\A t \in Streams : Had(t)' = Had(t)) /\ UNCHANGED taken
    BY HadKept
  <1>2. Within' /\ Somewhere' /\ Apart'
    BY <1>1 DEF Inv, Dealt, Within, Somewhere, Apart
  <1>3. PICK m \in held[s] : /\ \A k \in held[s] : m <= k
                             /\ got' = [got EXCEPT ![s] = @ \cup {m}]
                             /\ held' = [held EXCEPT ![s] = @ \ {m}]
                             /\ dropped' = dropped
    BY DEF Deliver
  <1>4. /\ got[s] \cap (held[s] \cup dropped[s]) = {}
        /\ \A i \in got[s], k \in held[s] \cup dropped[s] : i < k
        /\ held[s] \subseteq Nat /\ got[s] \subseteq Nat
    BY DEF Inv, Dealt, InOrder, TypeOK
  <1>5. dropped[s] = {}
    BY <1>3 DEF Inv, Progress
  <1>6. got'[s] = got[s] \cup {m} /\ held'[s] = held[s] \ {m} /\ dropped'[s] = {}
    BY <1>3, <1>5 DEF Inv, TypeOK
  <1>7. /\ got'[s] \cap (held'[s] \cup dropped'[s]) = {}
        /\ \A i \in got'[s], k \in held'[s] \cup dropped'[s] : i < k
    BY <1>3, <1>4, <1>6
  <1>8. InOrder'
    BY <1>3, <1>7 DEF Inv, Dealt, InOrder, TypeOK
  <1> QED
    BY <1>2, <1>8 DEF Dealt

\* What was under way is dropped.
LEMMA LossDeals ==
    ASSUME Inv, NEW s \in Streams, ConnectionLost(s)
    PROVE  Dealt'
  <1>1. (\A t \in Streams : Had(t)' = Had(t)) /\ UNCHANGED taken
    BY HadKept
  <1>2. Within' /\ Somewhere' /\ Apart'
    BY <1>1 DEF Inv, Dealt, Within, Somewhere, Apart
  <1>3. /\ UNCHANGED got
        /\ held'[s] = {} /\ dropped'[s] = held[s]
        /\ \A t \in Streams : t # s => held'[t] = held[t] /\ dropped'[t] = dropped[t]
    BY DEF ConnectionLost, Inv, TypeOK
  <1>4. InOrder'
    <2> SUFFICES ASSUME NEW t \in Streams
                 PROVE  /\ got'[t] \cap (held'[t] \cup dropped'[t]) = {}
                        /\ \A m \in got'[t], k \in held'[t] \cup dropped'[t] : m < k
      BY DEF InOrder
    <2>1. /\ got[t] \cap (held[t] \cup dropped[t]) = {}
          /\ \A m \in got[t], k \in held[t] \cup dropped[t] : m < k
      BY DEF Inv, Dealt, InOrder
    <2> QED
      BY <1>3, <2>1
  <1> QED
    BY <1>2, <1>4 DEF Dealt

\* Nothing else moves a message.
LEMMA OthersDeal ==
    ASSUME Inv, UNCHANGED <<taken, held, got, dropped>>
    PROVE  Dealt'
  BY DEF Inv, Dealt, Within, Somewhere, Apart, InOrder, Had

\* Dealt, in every step
LEMMA NextDealt ==
    ASSUME Inv, [Next]_vars
    PROVE  Dealt'
  <1>1. CASE SetupFails \/ Start \/ RunReturns \/ RunThrows
    BY <1>1, OthersDeal DEF SetupFails, Start, RunReturns, RunThrows, streamVars
  <1>2. CASE Send
    BY <1>2, OthersDeal, SendKeeps DEF streamVars
  <1>3. CASE MainStep
    BY <1>3, OthersDeal
    DEF MainStep, CloseChannels, Drained, DrainTimedOut, PullTrigger, Join, Report, streamVars
  <1>4. CASE ServerStep
    BY <1>4, OthersDeal DEF ServerStep, Serve, BindFails, BeginShutdown, StopServing, streamVars
  <1>5. ASSUME NEW s \in Streams, Connect(s) \/ Complete(s) \/ Return(s) \/ AskNoMore(s)
        PROVE  Dealt'
    BY <1>5, OthersDeal DEF Connect, Complete, Return, AskNoMore
  <1>6. CASE UNCHANGED vars
    BY <1>6, OthersDeal DEF vars
  <1> QED
    BY <1>1, <1>2, <1>3, <1>4, <1>5, <1>6, TakeDeals, DeliverDeals, LossDeals DEF Next, StreamStep

-----------------------------------------------------------------------------
(* The state of the streams *)

\* main and the thread of the server
LEMMA ThreadsProgress ==
    ASSUME Inv, SetupFails \/ Start \/ RunReturns \/ RunThrows \/ MainStep \/ ServerStep
    PROVE  Progress'
  <1> USE DEF Inv, TypeOK, Progress
  <1>1. CASE SetupFails \/ Start \/ RunReturns
    BY <1>1 DEF SetupFails, Start, RunReturns, streamVars, Had, Over
  <1>2. CASE RunThrows \/ Report
    <2>1. ~closed /\ \A s \in Streams : stream[s] # "complete"
      BY <1>2 DEF RunThrows, Report
    <2> QED
      BY <1>2, <2>1 DEF RunThrows, Report, LogAndEvent, streamVars, Had, Over
  <1>3. CASE CloseChannels \/ Drained \/ DrainTimedOut \/ Join
    BY <1>3 DEF CloseChannels, Drained, DrainTimedOut, PullTrigger, Join, streamVars, Had, Over
  <1>4. CASE BindFails
    BY <1>4 DEF BindFails, Alive, streamVars, Had, Over
  <1>5. CASE Serve \/ BeginShutdown \/ StopServing
    BY <1>5 DEF Serve, BeginShutdown, StopServing, mainVars, streamVars, Had, Over
  <1> QED
    BY <1>1, <1>2, <1>3, <1>4, <1>5 DEF MainStep, ServerStep

\* A channel is not sent to once it is closed.
LEMMA SendProgress ==
    ASSUME Inv, Send
    PROVE  Progress'
  <1>1. UNCHANGED <<mainVars, server, triggered, closed, streamVars>> /\ main = "running"
    BY SendKeeps
  <1>2. ~closed /\ \A s \in Streams : stream[s] # "complete"
    BY <1>1 DEF Inv, Progress
  <1> QED
    BY <1>1, <1>2 DEF Inv, Progress, mainVars, streamVars, Had, Over

\* A stream only completes when its channel is empty for good.
LEMMA StreamProgress ==
    ASSUME Inv, NEW s \in Streams, Connect(s) \/ Complete(s) \/ Return(s) \/ AskNoMore(s)
    PROVE  Progress'
  <1> USE DEF Inv, TypeOK, Progress
  <1>1. \A t \in Streams : Had(t)' = Had(t) /\ (t # s => stream'[t] = stream[t])
    BY DEF Connect, Complete, Return, AskNoMore, Had
  <1>2. CASE Connect(s)
    BY <1>1, <1>2 DEF Connect, mainVars, Over
  <1>3. CASE Complete(s)
    BY <1>1, <1>3 DEF Complete, NothingToCome, Empty, mainVars, Over
  <1>4. CASE Return(s)
    BY <1>1, <1>4 DEF Return, mainVars, Over
  <1>5. CASE AskNoMore(s)
    BY <1>1, <1>5 DEF AskNoMore, mainVars, Over
  <1> QED
    BY <1>2, <1>3, <1>4, <1>5

\* Taking, delivering and losing a message keep Progress.
LEMMA MessageProgress ==
    ASSUME Inv, NEW s \in Streams, Take(s) \/ Deliver(s) \/ ConnectionLost(s)
    PROVE  Progress'
  <1> USE DEF Inv, TypeOK, Progress
  <1>1. CASE Take(s)
    <2>1. /\ taken[ChannelOf[s]] # sent[ChannelOf[s]] /\ stream[s] \in {"open", "leaving"}
          /\ \A t \in Streams : ChannelOf[t] # ChannelOf[s] => taken'[ChannelOf[t]] = taken[ChannelOf[t]]
          /\ \A t \in Streams : t # s => held'[t] = held[t]
          /\ UNCHANGED <<mainVars, server, triggered, closed, sent, stream, got, dropped>>
      BY <1>1, ServerAssumption DEF Take, Receive, Empty
    <2>2. \A t \in Streams : t # s => Had(t)' = Had(t)
      BY <2>1 DEF Had
    <2>3. \A t \in Streams : stream[t] = "complete" => ChannelOf[t] # ChannelOf[s]
      BY <2>1
    <2>4. \A t \in Streams : stream[t] = "complete" => taken'[ChannelOf[t]] = sent[ChannelOf[t]]
      BY <2>1, <2>3
    <2>5. server # "stopped"
      BY <2>1 DEF Over
    <2> QED
      BY <2>1, <2>2, <2>4, <2>5 DEF mainVars, Over
  <1>2. CASE Deliver(s)
    BY <1>2, HadKept DEF Deliver, mainVars, Over
  <1>3. CASE ConnectionLost(s)
    BY <1>3, HadKept DEF ConnectionLost, mainVars, Over
  <1> QED
    BY <1>1, <1>2, <1>3

\* The invariant of the server, in every step
LEMMA NextInv ==
    ASSUME Inv, [Next]_vars
    PROVE  Inv'
  <1>1. TypeOK' /\ Dealt'
    BY NextTypes, NextDealt
  <1>2. CASE UNCHANGED vars
    BY <1>1, <1>2 DEF vars, Inv, Progress, Had, Over
  <1>3. CASE Next
    BY <1>1, <1>3, ThreadsProgress, SendProgress, StreamProgress, MessageProgress DEF Next, StreamStep, Inv
  <1> QED
    BY <1>2, <1>3

\* The invariant of the server holds in every state.
THEOREM Invariance == Spec => []Inv
  <1>1. Init => Inv
    BY InitInv
  <1>2. Inv /\ [Next]_vars => Inv'
    BY NextInv
  <1> QED
    BY <1>1, <1>2, PTL DEF Spec

-----------------------------------------------------------------------------
\* The server, its channels and streams keep their types, and no channel gives more than it was sent.
THEOREM ServerTypes == Spec => []TypeOK
  <1>1. Inv => TypeOK
    BY DEF Inv
  <1> QED
    BY <1>1, Invariance, PTL

\* What left a channel is with exactly one client, in the order in which it was sent.
THEOREM MessagesAreDealtOut == Spec => []EachMessageOnce
  <1>1. Inv => EachMessageOnce
    <2> SUFFICES ASSUME Inv
                 PROVE  \A c \in Channels : UNION {Had(s) : s \in On(c)} = 1..taken[c]
      BY DEF EachMessageOnce, Inv, Dealt, Apart, InOrder
    <2> TAKE c \in Channels
    <2>1. ASSUME NEW m \in UNION {Had(s) : s \in On(c)}
          PROVE  m \in 1..taken[c]
      <3>1. PICK s \in On(c) : m \in Had(s)
        OBVIOUS
      <3> QED
        BY <3>1 DEF On, Inv, Dealt, Within
    <2>2. ASSUME NEW m \in 1..taken[c]
          PROVE  m \in UNION {Had(s) : s \in On(c)}
      <3>1. PICK s \in Streams : ChannelOf[s] = c /\ m \in Had(s)
        BY DEF Inv, Dealt, Somewhere
      <3> QED
        BY <3>1 DEF On
    <2> QED
      BY <2>1, <2>2
  <1> QED
    BY <1>1, Invariance, PTL

\* When the program ends no stream has a message under way, and a stream that completed has left its
\* channel empty, whether main waited for that or gave up.
THEOREM NothingIsLeftBehind == Spec => []NothingLeftBehind
  <1>1. Inv => NothingLeftBehind
    BY DEF Inv, Progress, NothingLeftBehind, Over
  <1> QED
    BY <1>1, Invariance, PTL
=============================================================================
