------------------------------ MODULE TcpClient ------------------------------
(***************************************************************************)
(* tcpClient.cpp over libhv's TcpClient: one connection that is made again *)
(* when it is lost, with a timer for each connection that writes to the    *)
(* server every Interval seconds, until Enter is pressed.                  *)
(*                                                                         *)
(* The loop's thread runs one callback at a time: an event posted to it, a *)
(* timer that is due, an answer of the network.  The main thread's stop    *)
(* takes several statements; main names the one it has reached:            *)
(*                                                                         *)
(*   getchar     waiting for Enter                                         *)
(*   closing     closesocket() is posted                                   *)
(*   stopping    EventLoop::status_ is kStopping: isRunning() is false     *)
(*   halted      hloop_stop has run                                        *)
(*   joining     EventLoop::loop_ is NULL, and the thread is awaited       *)
(*                                                                         *)
(* Time is counted in seconds.  The loop serves what is due before the     *)
(* next second begins.                                                     *)
(***************************************************************************)
EXTENDS Integers, FiniteSets, Sequences

CONSTANTS
    Channels,                   \* the SocketChannels that can be alive at once
    MinDelay, MaxDelay,         \* of reconn_setting
    ConnectTimeout,             \* HIO_DEFAULT_CONNECT_TIMEOUT
    Interval                    \* between two writes

ASSUME ClientAssumption ==
    /\ {MinDelay, MaxDelay, ConnectTimeout, Interval} \subseteq Nat \ {0}
    /\ MinDelay <= MaxDelay
    /\ IsFiniteSet(Channels)
    /\ Cardinality(Channels) > 1 + (Interval \div MinDelay)

VARIABLES
    main,          \* the statement of the main thread
    loop,          \* the loop's thread: "running", "left" or "aborted"
    events,        \* the events posted to the loop
    channel,       \* the client's current channel
    status,        \* of each channel
    beat,          \* the interval timer that holds a channel: time left, or Off
    connectTimer,  \* of the attempt under way
    reconnTimer,   \* set by startReconnect
    delay,         \* reconn_setting's cur_delay
    reconn,        \* reconn_setting is not NULL
    outOfSockets,  \* socket() failed in startConnect
    reachable      \* the server listens

link == <<channel, status, connectTimer>>
retry == <<reconnTimer, delay, reconn, outOfSockets>>
vars == <<main, loop, events, link, beat, retry, reachable>>

Off == -1

Events == [do : {"startConnect", "closesocket"}]
          \cup [do : {"close", "connected", "killTimer"}, on : Channels]
          \cup [do : {"setTimer"}, delay : MinDelay..MaxDelay]

Open(c) == status[c] # "closed"

isRunning == main \in {"getchar", "closing"}

\* A channel that is neither the client's nor held by a timer or an event:
\* the last shared_ptr to it is gone, and the next socket may have its place.
Free(c) ==
    /\ c # channel
    /\ beat[c] = Off
    /\ \A i \in DOMAIN events : "on" \in DOMAIN events[i] => events[i].on # c

FreshChannel == CHOOSE c \in Channels : Free(c)

Init ==
    /\ main = "getchar"
    /\ loop = "running"
    /\ events = <<[do |-> "startConnect"]>>
    /\ channel \in Channels
    /\ status = [c \in Channels |-> IF c = channel THEN "opened" ELSE "closed"]
    /\ beat = [c \in Channels |-> Off]
    /\ connectTimer = Off
    /\ reconnTimer = Off
    /\ delay = 0
    /\ reconn = TRUE
    /\ outOfSockets = FALSE
    /\ reachable \in BOOLEAN

-----------------------------------------------------------------------------
(* What callbacks do.  Each operator is given the events that are left.    *)

\* Mutant: the delay is not limited.
calc_delayUnlimited(d) == IF 2 * d < MinDelay THEN MinDelay ELSE 2 * d

\* reconn_setting_calc_delay with the exponential policy.
calc_delay(d) ==
    LET doubled == IF 2 * d < MinDelay THEN MinDelay ELSE 2 * d
    IN  IF doubled > MaxDelay THEN MaxDelay ELSE doubled

\* setTimer's assertInLoopThread, or a use of loop_, after stop has cleared it.
Abort == loop' = "aborted" /\ UNCHANGED <<main, events, link, beat, retry, reachable>>

\* setTimeout: at once in the loop, later when it is stopping, or never.
startReconnect(rest) ==
    /\ delay' = calc_delay(delay)
    /\ IF isRunning
         THEN reconnTimer' = delay' /\ events' = rest
         ELSE /\ UNCHANGED reconnTimer
              /\ events' = IF main = "joining" THEN rest
                           ELSE Append(rest, [do |-> "setTimer", delay |-> delay'])

\* Mutant: only a connection that was up is made again.
CloseChannelOnlyUp(rest) ==
    /\ status' = [status EXCEPT ![channel] = "closed"]
    /\ connectTimer' = Off
    /\ IF reconn /\ status[channel] = "connected" THEN startReconnect(rest)
       ELSE events' = rest /\ UNCHANGED <<reconnTimer, delay>>
    /\ UNCHANGED <<main, loop, channel, beat, reconn, outOfSockets, reachable>>

\* hio_close of the current channel, with on_close and onclose.
CloseChannel(rest) ==
    /\ status' = [status EXCEPT ![channel] = "closed"]
    /\ connectTimer' = Off
    /\ IF reconn THEN startReconnect(rest)
       ELSE events' = rest /\ UNCHANGED <<reconnTimer, delay>>
    /\ UNCHANGED <<main, loop, channel, beat, reconn, outOfSockets, reachable>>

\* Mutant: the delay goes on from where it was.
onConnectUnreset(rest) ==
    IF main = "joining" THEN Abort
    ELSE /\ status' = [status EXCEPT ![channel] = "connected"]
         /\ connectTimer' = Off
         /\ beat' = [beat EXCEPT ![channel] = Interval]
         /\ events' = rest
         /\ UNCHANGED <<main, loop, channel, reconnTimer, delay, reconn, outOfSockets, reachable>>

\* on_connect and onconnect: setInterval, then the delay starts anew.
onConnect(rest) ==
    IF main = "joining" THEN Abort
    ELSE /\ status' = [status EXCEPT ![channel] = "connected"]
         /\ connectTimer' = Off
         /\ beat' = [beat EXCEPT ![channel] = Interval]
         /\ delay' = IF reconn THEN 0 ELSE delay
         /\ events' = rest
         /\ UNCHANGED <<main, loop, channel, reconnTimer, reconn, outOfSockets, reachable>>

\* connect() on the channel given: refused or made at once, or under way.
\* Channels has more than are ever held, so that a fresh one is among them.
Connect(given, rest) == \E c \in Channels :
    /\ c = given
    /\ channel' = c
    /\ status' = [status EXCEPT ![c] = "connecting"]
    /\ \/ /\ ~reachable
          /\ events' = Append(rest, [do |-> "close", on |-> c])
          /\ UNCHANGED connectTimer
       \/ /\ reachable
          /\ events' = Append(rest, [do |-> "connected", on |-> c])
          /\ UNCHANGED connectTimer
       \/ /\ connectTimer' = ConnectTimeout
          /\ events' = rest
    /\ UNCHANGED outOfSockets

\* Mutant: every attempt makes a new socket.
startConnectAnew(rest, timer) ==
    IF main = "joining"
      THEN Abort
      ELSE /\ \/ Connect(FreshChannel, rest)
              \/ outOfSockets' = TRUE /\ events' = rest /\ UNCHANGED link
           /\ reconnTimer' = timer
           /\ UNCHANGED <<main, loop, beat, delay, reconn, reachable>>

\* A closed channel is replaced first, for which there may be no socket; one
\* that is connecting or connected is left as it is.
startConnect(rest, timer) ==
    IF ~Open(channel) /\ main = "joining"
      THEN Abort
      ELSE /\ IF status[channel] \in {"connecting", "connected"}
                THEN events' = rest /\ UNCHANGED <<link, outOfSockets>>
                ELSE \/ Connect(IF Open(channel) THEN channel ELSE FreshChannel, rest)
                     \/ /\ ~Open(channel)
                        /\ outOfSockets' = TRUE
                        /\ events' = rest
                        /\ UNCHANGED link
           /\ reconnTimer' = timer
           /\ UNCHANGED <<main, loop, beat, delay, reconn, reachable>>

\* The posted close of c, which does nothing when c was closed before.
CloseEvent(c, rest) ==
    IF c = channel /\ Open(c) THEN CloseChannel(rest)
    ELSE events' = rest /\ UNCHANGED <<main, loop, link, beat, retry, reachable>>

\* nio_connect on c: connected, unless the peer is gone again.
ConnectedEvent(c, rest) ==
    IF c = channel /\ Open(c) THEN onConnect(rest) \/ CloseChannel(rest)
    ELSE events' = rest /\ UNCHANGED <<main, loop, link, beat, retry, reachable>>

\* closesocket's functor: no reconnection from here on, then the close.
CloseSocket(rest) ==
    /\ reconn' = FALSE
    /\ status' = [status EXCEPT ![channel] = "closed"]
    /\ connectTimer' = Off
    /\ events' = rest
    /\ UNCHANGED <<main, loop, channel, beat, reconnTimer, delay, outOfSockets, reachable>>

\* A setTimeout of startReconnect that was posted.
SetTimer(d, rest) ==
    IF main = "joining" THEN Abort
    ELSE /\ reconnTimer' = d
         /\ events' = rest
         /\ UNCHANGED <<main, loop, link, beat, delay, reconn, outOfSockets, reachable>>

KillTimer(c, rest) ==
    /\ beat' = [beat EXCEPT ![c] = Off]
    /\ events' = rest
    /\ UNCHANGED <<main, loop, link, retry, reachable>>

-----------------------------------------------------------------------------
(* Steps of the loop's thread.                                             *)

RunEvent ==
    /\ loop = "running"
    /\ events # <<>>
    /\ LET e == Head(events)
           rest == Tail(events)
       IN  \/ e.do = "startConnect" /\ startConnect(rest, reconnTimer)
           \/ e.do = "close" /\ CloseEvent(e.on, rest)
           \/ e.do = "connected" /\ ConnectedEvent(e.on, rest)
           \/ e.do = "closesocket" /\ CloseSocket(rest)
           \/ e.do = "setTimer" /\ SetTimer(e.delay, rest)
           \/ e.do = "killTimer" /\ KillTimer(e.on, rest)

\* The answer to an attempt that is under way.
Answered ==
    /\ loop = "running"
    /\ connectTimer # Off
    /\ \/ reachable /\ onConnect(events)
       \/ CloseChannel(events)

ConnectTimedOut ==
    /\ loop = "running"
    /\ connectTimer = 0
    /\ CloseChannel(events)

\* The server closes the connection, or it breaks.
PeerCloses ==
    /\ loop = "running"
    /\ status[channel] = "connected"
    /\ CloseChannel(events)

\* Mutant: nobody kills the timer of a connection that is gone.
BeatDueForEver(c) ==
    /\ loop = "running"
    /\ beat[c] = 0
    /\ beat' = [beat EXCEPT ![c] = Interval]
    /\ \/ UNCHANGED events
       \/ events' = Append(events, [do |-> "close", on |-> c])
    /\ UNCHANGED <<main, loop, link, retry, reachable>>

\* The interval timer that holds c writes, which may fail, or kills itself.
BeatDue(c) ==
    /\ loop = "running"
    /\ beat[c] = 0
    /\ IF status[c] # "connected" /\ isRunning
         THEN beat' = [beat EXCEPT ![c] = Off] /\ UNCHANGED events
         ELSE /\ beat' = [beat EXCEPT ![c] = Interval]
              /\ IF status[c] = "connected"
                   THEN \/ UNCHANGED events
                        \/ events' = Append(events, [do |-> "close", on |-> c])
                   ELSE events' = IF main = "joining" THEN events
                                  ELSE Append(events, [do |-> "killTimer", on |-> c])
    /\ UNCHANGED <<main, loop, link, retry, reachable>>

\* Mutant: setInterval instead of setTimeout.
ReconnDueRepeats ==
    /\ loop = "running"
    /\ reconnTimer = 0
    /\ startConnect(events, delay)

ReconnDue ==
    /\ loop = "running"
    /\ reconnTimer = 0
    /\ startConnect(events, Off)

\* hloop_cleanup: connections closed, timers freed, nothing made again.
Leave ==
    /\ loop = "running"
    /\ main \in {"halted", "joining"}
    /\ loop' = "left"
    /\ events' = <<>>
    /\ status' = [c \in Channels |-> "closed"]
    /\ beat' = [c \in Channels |-> Off]
    /\ connectTimer' = Off
    /\ reconnTimer' = Off
    /\ UNCHANGED <<main, channel, delay, reconn, outOfSockets, reachable>>

\* A second passes when nothing is due.
Tick ==
    /\ main = "getchar" /\ loop = "running"
    /\ events = <<>>
    /\ 0 \notin {connectTimer, reconnTimer} \cup {beat[c] : c \in Channels}
    /\ LET Less(t) == IF t = Off THEN Off ELSE t - 1
       IN  /\ connectTimer' = Less(connectTimer)
           /\ reconnTimer' = Less(reconnTimer)
           /\ beat' = [c \in Channels |-> Less(beat[c])]
    /\ UNCHANGED <<main, loop, events, channel, status, delay, reconn, outOfSockets, reachable>>

-----------------------------------------------------------------------------
(* The main thread: Enter, and the destructor's stop.                      *)

Stop(from, to) == main = from /\ main' = to

CloseSocketPosted ==
    /\ Stop("getchar", "closing")
    /\ events' = Append(events, [do |-> "closesocket"])
    /\ UNCHANGED <<loop, link, beat, retry, reachable>>

SetStopping == Stop("closing", "stopping") /\ UNCHANGED <<loop, events, link, beat, retry, reachable>>

HloopStop == Stop("stopping", "halted") /\ UNCHANGED <<loop, events, link, beat, retry, reachable>>

ClearLoop == Stop("halted", "joining") /\ UNCHANGED <<loop, events, link, beat, retry, reachable>>

\* The server comes and goes.
ServerFlips ==
    /\ main = "getchar"
    /\ reachable' = ~reachable
    /\ UNCHANGED <<main, loop, events, link, beat, retry>>

Callback ==
    \/ RunEvent
    \/ Answered \/ ConnectTimedOut \/ PeerCloses
    \/ \E c \in Channels : BeatDue(c)
    \/ ReconnDue

Main == CloseSocketPosted \/ SetStopping \/ HloopStop \/ ClearLoop

Next == Callback \/ Leave \/ Tick \/ Main \/ ServerFlips

Spec == Init /\ [][Next]_vars

\* What is due: callbacks the loop does not have to wait for.
Due ==
    \/ RunEvent
    \/ ConnectTimedOut
    \/ \E c \in Channels : BeatDue(c)
    \/ ReconnDue

Succeeds == Callback /\ ~(status[channel] = "connected") /\ status'[channel'] = "connected"

\* The loop's thread runs, time passes, and of attempts that can succeed
\* again and again one does.
Fairness == WF_vars(Due) /\ WF_vars(Tick) /\ SF_vars(Succeeds)

FairSpec == Spec /\ Fairness

-----------------------------------------------------------------------------
(* Properties.                                                             *)

TypeOK ==
    /\ main \in {"getchar", "closing", "stopping", "halted", "joining"}
    /\ loop \in {"running", "left", "aborted"}
    /\ events \in Seq(Events)
    /\ channel \in Channels
    /\ status \in [Channels -> {"opened", "connecting", "connected", "closed"}]
    /\ beat \in [Channels -> Off..Interval]
    /\ connectTimer \in Off..ConnectTimeout
    /\ reconnTimer \in Off..MaxDelay
    /\ delay \in 0..MaxDelay
    /\ reconn \in BOOLEAN /\ outOfSockets \in BOOLEAN /\ reachable \in BOOLEAN

Pending(what) == \E i \in DOMAIN events : events[i].do = what

\* The client never holds two sockets: a channel it has replaced is closed,
\* and every connection writes its heartbeat from a timer of its own.
OneConnection ==
    /\ \A c \in Channels \ {channel} : ~Open(c)
    /\ main = "getchar" /\ status[channel] = "connected" => beat[channel] # Off

\* However fast connections come and go, the timers of those that are gone
\* do not pile up: a timer outlives its connection by less than one interval,
\* in which only so many attempts fit.
FewTimers == Cardinality({c \in Channels : beat[c] # Off}) <= 1 + (Interval \div MinDelay)

\* What is to come next of the client's connection.
Prospects ==
    {p \in {"start", "connection", "retry", "none"} :
        \/ p = "start" /\ Pending("startConnect")
        \/ p = "connection" /\ status[channel] \in {"connecting", "connected"}
        \/ p = "retry" /\ reconnTimer # Off
        \/ p = "none" /\ outOfSockets}

\* Until Enter is pressed the client is at exactly one place of its cycle, an
\* attempt has exactly one answer coming, and only a failed socket() ends it.
NeverStuck ==
    main = "getchar" =>
        /\ Cardinality(Prospects) = 1
        /\ status[channel] = "connecting" =>
               Cardinality({k \in {"timer", "close", "connected"} :
                   (k = "timer" /\ connectTimer # Off) \/ Pending(k)}) = 1

\* The reconnector's view of the client.
On == main = "getchar" /\ ~outOfSockets

Link ==
    CASE ~On -> "off"
      [] On /\ status[channel] = "connecting" -> "trying"
      [] On /\ status[channel] = "connected" -> "up"
      [] On /\ reconnTimer # Off -> "waiting"
      [] OTHER -> "idle"

Wait == IF On THEN delay ELSE 0
Left == IF On /\ reconnTimer # Off THEN reconnTimer ELSE 0

Retrying == INSTANCE Reconnector
    WITH MinDelay <- MinDelay, MaxDelay <- MaxDelay, link <- Link, wait <- Wait, left <- Left

\* tcpClient.cpp:40, "reconnect: 1,2,4,8,10,10,10...": attempts are made after
\* exactly these waits, and the first again after a connection was up.
Backoff == Retrying!ReconnectorSpec

\* A server that is there to stay gets its connection, again and again.
Reconnects ==
    <>[]reachable => []<>(status[channel] = "connected" \/ outOfSockets \/ main # "getchar")

\* stop is "thread-safe" (TcpClient.h): the loop runs no callback that uses
\* the EventLoop's loop_ after stop has cleared it.
StopThreadSafe == loop # "aborted"
=============================================================================
