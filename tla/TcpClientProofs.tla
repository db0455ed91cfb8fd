-------------------------- MODULE TcpClientProofs --------------------------
(* The invariant of the client's cycle, and that it keeps to the waits of  *)
(* a Reconnector.                                                          *)
EXTENDS TcpClient, TLAPS, FiniteSetTheorems

StartEvent == [do |-> "startConnect"]

Answers(c) == {[do |-> "close", on |-> c], [do |-> "connected", on |-> c]}

OnlyCloses(q) == \A i \in DOMAIN q : q[i].do = "close"

\* The first start: nothing else is under way.
Opened ==
    /\ events = <<StartEvent>>
    /\ connectTimer = Off /\ reconnTimer = Off
    /\ \A c \in Channels : beat[c] = Off

\* An attempt: its one answer is on the way, and nothing else.
Connecting ==
    /\ reconnTimer = Off
    /\ \/ connectTimer # Off /\ events = <<>>
       \/ connectTimer = Off /\ \E e \in Answers(channel) : events = <<e>>

Connected ==
    /\ connectTimer = Off /\ reconnTimer = Off
    /\ delay = 0
    /\ beat[channel] # Off
    /\ OnlyCloses(events)

\* No more, but for the next attempt; what is left of the last one is gone
\* before it comes.
Closed ==
    /\ connectTimer = Off
    /\ OnlyCloses(events)
    /\ outOfSockets <=> reconnTimer = Off
    /\ reconnTimer = 0 => events = <<>>

\* The cycle of the client until Enter is pressed.
Cycle ==
    /\ reconn
    /\ outOfSockets => status[channel] = "closed"
    /\ status[channel] = "opened" => Opened
    /\ status[channel] = "connecting" => Connecting
    /\ status[channel] = "connected" => Connected
    /\ status[channel] = "closed" => Closed

OthersClosed == \A c \in Channels \ {channel} : status[c] = "closed"

ClientInv ==
    /\ TypeOK
    /\ OthersClosed
    /\ main = "getchar" => Cycle

-----------------------------------------------------------------------------
LEMMA Bounds ==
    /\ MinDelay \in Nat /\ MaxDelay \in Nat /\ ConnectTimeout \in Nat /\ Interval \in Nat
    /\ MinDelay > 0 /\ MinDelay <= MaxDelay /\ ConnectTimeout > 0 /\ Interval > 0
BY ClientAssumption

LEMMA Delays == \A d \in 0..MaxDelay : calc_delay(d) \in MinDelay..MaxDelay
BY ClientAssumption DEF calc_delay

LEMMA CalcDelayIsLonger == \A d \in 0..MaxDelay : calc_delay(d) = Retrying!Longer(d)
BY ClientAssumption DEF calc_delay, Retrying!Longer

LEMMA EventKinds ==
    /\ StartEvent \in Events
    /\ [do |-> "closesocket"] \in Events
    /\ \A c \in Channels : Answers(c) \subseteq Events /\ [do |-> "killTimer", on |-> c] \in Events
    /\ \A d \in MinDelay..MaxDelay : [do |-> "setTimer", delay |-> d] \in Events
BY DEF Events, StartEvent, Answers

LEMMA EventFields ==
    \A e \in Events :
        /\ e.do \in {"startConnect", "closesocket", "close", "connected", "killTimer", "setTimer"}
        /\ e.do \in {"close", "connected", "killTimer"} => e.on \in Channels
        /\ e.do = "setTimer" => e.delay \in MinDelay..MaxDelay
BY DEF Events

LEMMA TailCloses ==
    ASSUME NEW S, NEW q \in Seq(S), q # <<>>, OnlyCloses(q)
    PROVE  Tail(q) \in Seq(S) /\ OnlyCloses(Tail(q))
BY DEF OnlyCloses

LEMMA AppendCloses ==
    ASSUME NEW S, NEW q \in Seq(S), OnlyCloses(q), NEW e \in S, e.do = "close"
    PROVE  OnlyCloses(Append(q, e))
BY DEF OnlyCloses

LEMMA ClientInit == Init => ClientInv
<1> SUFFICES ASSUME Init PROVE ClientInv
  OBVIOUS
<1>1. events \in Seq(Events)
  BY EventKinds DEF Init, StartEvent
<1>2. delay \in 0..MaxDelay /\ reconnTimer \in Off..MaxDelay /\ connectTimer \in Off..ConnectTimeout
  BY Bounds DEF Init, Off
<1>3. beat \in [Channels -> Off..Interval]
  BY Bounds DEF Init, Off
<1>4. status \in [Channels -> {"opened", "connecting", "connected", "closed"}]
  BY DEF Init
<1>5. TypeOK
  BY <1>1, <1>2, <1>3, <1>4 DEF Init, TypeOK
<1> QED BY <1>5 DEF ClientInv, Init, OthersClosed, Cycle, Opened, StartEvent, Off

-----------------------------------------------------------------------------
(* The callbacks.                                                          *)
LEMMA AbortStep == ASSUME ClientInv, Abort PROVE ClientInv'
BY DEF ClientInv, TypeOK, Abort, link, retry, OthersClosed, Cycle, Opened, Connecting, Connected, Closed

\* A callback on a connection, with rest the events it leaves.
OnConnection(rest) ==
    /\ rest \in Seq(Events)
    /\ main = "getchar" => status[channel] \in {"connecting", "connected"} /\ OnlyCloses(rest)

LEMMA CloseChannelStep ==
    ASSUME ClientInv, NEW rest, OnConnection(rest), CloseChannel(rest)
    PROVE  ClientInv'
<1>1. CASE reconn
  <2>1. delay' = calc_delay(delay) /\ delay' \in MinDelay..MaxDelay
    BY <1>1, Delays DEF CloseChannel, startReconnect, ClientInv, TypeOK
  <2>2. [do |-> "setTimer", delay |-> delay'] \in Events
    BY <2>1, EventKinds
  <2>3. events' \in Seq(Events)
    BY <1>1, <2>2 DEF CloseChannel, startReconnect, OnConnection
  <2>4. reconnTimer' \in Off..MaxDelay /\ delay' \in 0..MaxDelay
    BY <1>1, <2>1, Bounds DEF CloseChannel, startReconnect, ClientInv, TypeOK, Off
  <2>5. connectTimer' = Off /\ connectTimer' \in Off..ConnectTimeout
    BY Bounds DEF CloseChannel, Off
  <2>6. /\ status' = [status EXCEPT ![channel] = "closed"]
        /\ UNCHANGED <<main, loop, channel, beat, reconn, outOfSockets, reachable>>
    BY DEF CloseChannel
  <2>7. TypeOK'
    BY <2>3, <2>4, <2>5, <2>6 DEF ClientInv, TypeOK
  <2>8. OthersClosed' /\ status'[channel'] = "closed"
    BY <2>6 DEF ClientInv, TypeOK, OthersClosed
  <2>9. ASSUME main' = "getchar" PROVE Cycle'
    <3>1. main = "getchar" /\ ~outOfSockets /\ OnlyCloses(rest)
      BY <2>6, <2>9 DEF ClientInv, Cycle, OnConnection
    <3>2. reconnTimer' = delay' /\ events' = rest
      BY <1>1, <3>1 DEF CloseChannel, startReconnect, isRunning
    <3>3. reconnTimer' # Off /\ reconnTimer' # 0
      BY <3>2, <2>1, Bounds DEF Off
    <3>4. Closed'
      BY <2>5, <2>6, <3>1, <3>2, <3>3 DEF Closed, OnlyCloses
    <3> QED BY <1>1, <2>6, <2>8, <3>1, <3>4 DEF Cycle
  <2> QED BY <2>7, <2>8, <2>9 DEF ClientInv
<1>2. CASE ~reconn
  <2>1. main # "getchar" /\ main' # "getchar"
    BY <1>2 DEF ClientInv, Cycle, CloseChannel
  <2>2. connectTimer' \in Off..ConnectTimeout
    BY Bounds DEF CloseChannel, Off
  <2>3. TypeOK' /\ OthersClosed'
    BY <1>2, <2>2 DEF ClientInv, TypeOK, OthersClosed, CloseChannel, OnConnection
  <2> QED BY <2>1, <2>3 DEF ClientInv
<1> QED BY <1>1, <1>2

LEMMA OnConnectStep ==
    ASSUME ClientInv, NEW rest, OnConnection(rest), onConnect(rest)
    PROVE  ClientInv'
<1>1. CASE main = "joining"
  BY <1>1, AbortStep DEF onConnect
<1>2. CASE main # "joining"
  <2>1. /\ status' = [status EXCEPT ![channel] = "connected"]
        /\ connectTimer' = Off
        /\ beat' = [beat EXCEPT ![channel] = Interval]
        /\ delay' = IF reconn THEN 0 ELSE delay
        /\ events' = rest
        /\ UNCHANGED <<main, loop, channel, reconnTimer, reconn, outOfSockets, reachable>>
    BY <1>2 DEF onConnect
  <2>2. delay' \in 0..MaxDelay /\ connectTimer' \in Off..ConnectTimeout /\ Interval \in Off..Interval
    BY <2>1, Bounds DEF ClientInv, TypeOK, Off
  <2>3. TypeOK'
    BY <2>1, <2>2 DEF ClientInv, TypeOK, OnConnection
  <2>4. OthersClosed' /\ status'[channel'] = "connected" /\ beat'[channel'] = Interval
    BY <2>1 DEF ClientInv, TypeOK, OthersClosed
  <2>5. ASSUME main' = "getchar" PROVE Cycle'
    <3>1. main = "getchar" /\ Cycle /\ status[channel] \in {"connecting", "connected"} /\ OnlyCloses(rest)
      BY <2>1, <2>5 DEF ClientInv, OnConnection
    <3>2. reconnTimer = Off /\ ~outOfSockets /\ reconn
      BY <3>1 DEF Cycle, Connecting, Connected
    <3>3. Interval # Off
      BY Bounds DEF Off
    <3>4. Connected'
      BY <2>1, <2>4, <3>1, <3>2, <3>3 DEF Connected, OnlyCloses
    <3> QED BY <2>1, <2>4, <3>2, <3>4 DEF Cycle
  <2> QED BY <2>3, <2>4, <2>5 DEF ClientInv
<1> QED BY <1>1, <1>2

\* Where startConnect runs: at the first start, or when the wait is over.
AtStart(rest, timer) ==
    /\ rest \in Seq(Events)
    /\ timer \in Off..MaxDelay
    /\ main = "getchar" =>
           /\ rest = <<>> /\ timer = Off /\ connectTimer = Off
           /\ status[channel] \in {"opened", "closed"}
           /\ ~outOfSockets

LEMMA StartConnectStep ==
    ASSUME ClientInv, NEW rest, NEW timer, AtStart(rest, timer), startConnect(rest, timer)
    PROVE  ClientInv'
<1>1. CASE Abort
  BY <1>1, AbortStep
<1>2. CASE ~Abort
  <2>1. /\ reconnTimer' = timer
        /\ UNCHANGED <<main, loop, beat, delay, reconn, reachable>>
    BY <1>2 DEF startConnect
  <2>2. CASE events' = rest /\ UNCHANGED <<link, outOfSockets>> /\ status[channel] \in {"connecting", "connected"}
    <3>1. main # "getchar"
      BY <2>2 DEF AtStart
    <3> QED BY <2>1, <2>2, <3>1 DEF ClientInv, TypeOK, OthersClosed, AtStart, link
  <2>3. CASE ~Open(channel) /\ outOfSockets' = TRUE /\ events' = rest /\ UNCHANGED link
    <3>1. TypeOK' /\ OthersClosed'
      BY <2>1, <2>3 DEF ClientInv, TypeOK, OthersClosed, AtStart, link
    <3>2. ASSUME main' = "getchar" PROVE Cycle'
      <4>1. reconn /\ rest = <<>> /\ timer = Off /\ connectTimer = Off
        BY <3>2, <2>1 DEF ClientInv, AtStart, Cycle
      <4>2. OnlyCloses(<<>>)
        BY DEF OnlyCloses
      <4> QED BY <2>1, <2>3, <4>1, <4>2 DEF Cycle, Closed, OnlyCloses, link, Open
    <3> QED BY <3>1, <3>2 DEF ClientInv
  <2>4. ASSUME NEW c \in Channels, c = channel \/ ~Open(channel),
               channel' = c, status' = [status EXCEPT ![c] = "connecting"],
               UNCHANGED outOfSockets,
               \/ \E e \in Answers(c) : events' = Append(rest, e) /\ UNCHANGED connectTimer
               \/ connectTimer' = ConnectTimeout /\ events' = rest
        PROVE ClientInv'
    <3>1. connectTimer' \in Off..ConnectTimeout
      BY <2>4, Bounds DEF ClientInv, TypeOK, Off
    <3>2. events' \in Seq(Events)
      <4>1. rest \in Seq(Events) /\ Answers(c) \subseteq Events
        BY EventKinds DEF AtStart
      <4>2. \A e \in Events : Append(rest, e) \in Seq(Events)
        BY <4>1
      <4> QED BY <2>4, <4>1, <4>2
    <3>3. TypeOK'
      BY <2>1, <2>4, <3>1, <3>2 DEF ClientInv, TypeOK, AtStart
    <3>4. OthersClosed' /\ status'[channel'] = "connecting"
      BY <2>4 DEF ClientInv, TypeOK, OthersClosed, Open
    <3>5. ASSUME main' = "getchar" PROVE Cycle'
      <4>1. reconn /\ rest = <<>> /\ timer = Off /\ connectTimer = Off /\ ~outOfSockets
        BY <3>5, <2>1 DEF ClientInv, AtStart, Cycle
      <4>2. ConnectTimeout # Off /\ \A e : Append(<<>>, e) = <<e>>
        BY Bounds DEF Off
      <4>3. \/ connectTimer' # Off /\ events' = <<>>
            \/ connectTimer' = Off /\ \E e \in Answers(channel') : events' = <<e>>
        BY <2>4, <4>1, <4>2
      <4>4. Connecting'
        BY <4>1, <4>3, <2>1 DEF Connecting, Answers
      <4> QED BY <2>1, <2>4, <3>4, <4>1, <4>4 DEF Cycle
    <3> QED BY <3>3, <3>4, <3>5 DEF ClientInv
  <2>5. ASSUME NEW given, given = channel \/ ~Open(channel), Connect(given, rest) PROVE ClientInv'
    BY <2>4, <2>5 DEF Connect, Answers
  <2> QED BY <1>2, <2>1, <2>2, <2>3, <2>5 DEF startConnect
<1> QED BY <1>1, <1>2

-----------------------------------------------------------------------------
(* The steps of the loop.                                                  *)
LEMMA HeadFacts ==
    ASSUME ClientInv, events # <<>>
    PROVE  /\ Head(events) \in Events
           /\ Tail(events) \in Seq(Events)
           /\ main = "getchar" =>
                /\ status[channel] = "opened" => Head(events) = StartEvent /\ Tail(events) = <<>>
                /\ status[channel] = "connecting" =>
                       Head(events) \in Answers(channel) /\ Tail(events) = <<>> /\ connectTimer = Off
                /\ status[channel] \in {"connected", "closed"} =>
                       Head(events).do = "close" /\ OnlyCloses(Tail(events))
<1>1. events \in Seq(Events)
  BY DEF ClientInv, TypeOK
<1>2. Head(events) \in Events /\ Tail(events) \in Seq(Events)
  BY <1>1
<1>3. ASSUME NEW e, events = <<e>> PROVE Head(events) = e /\ Tail(events) = <<>>
  BY <1>3
<1>4. ASSUME main = "getchar", status[channel] = "opened"
      PROVE  Head(events) = StartEvent /\ Tail(events) = <<>>
  BY <1>3, <1>4 DEF ClientInv, Cycle, Opened
<1>5. ASSUME main = "getchar", status[channel] = "connecting"
      PROVE  Head(events) \in Answers(channel) /\ Tail(events) = <<>> /\ connectTimer = Off
  BY <1>3, <1>5 DEF ClientInv, Cycle, Connecting
<1>6. ASSUME main = "getchar", status[channel] \in {"connected", "closed"}
      PROVE  Head(events).do = "close" /\ OnlyCloses(Tail(events))
  <2>1. OnlyCloses(events)
    BY <1>6 DEF ClientInv, Cycle, Connected, Closed
  <2>2. OnlyCloses(Tail(events))
    BY <1>1, <2>1, TailCloses
  <2>3. Head(events) = events[1] /\ 1 \in DOMAIN events
    BY <1>1
  <2> QED BY <2>1, <2>2, <2>3 DEF OnlyCloses
<1> QED BY <1>2, <1>4, <1>5, <1>6

LEMMA ChannelStatus ==
    ASSUME ClientInv
    PROVE  channel \in Channels /\ status[channel] \in {"opened", "connecting", "connected", "closed"}
BY DEF ClientInv, TypeOK

\* An event that finds its connection gone.
LEMMA DroppedStep ==
    ASSUME ClientInv, events # <<>>, events' = Tail(events),
           main = "getchar" => status[channel] \in {"connected", "closed"},
           UNCHANGED <<main, loop, link, beat, retry, reachable>>
    PROVE  ClientInv'
<1>1. TypeOK' /\ OthersClosed'
  BY HeadFacts DEF ClientInv, TypeOK, OthersClosed, link, retry
<1>2. ASSUME main' = "getchar" PROVE Cycle'
  <2>1. main = "getchar" /\ Cycle /\ OnlyCloses(events')
    BY <1>2, HeadFacts DEF ClientInv
  <2>2. Connected => Connected'
    BY <2>1 DEF Connected, OnlyCloses, link, retry
  <2>3. Closed => Closed'
    BY <2>1 DEF Closed, OnlyCloses, link, retry
  <2> QED BY <2>1, <2>2, <2>3 DEF Cycle, link, retry
<1> QED BY <1>1, <1>2 DEF ClientInv

LEMMA StartEventAt ==
    ASSUME ClientInv, events # <<>>, Head(events).do = "startConnect"
    PROVE  AtStart(Tail(events), reconnTimer)
<1>1. reconnTimer \in Off..MaxDelay
  BY DEF ClientInv, TypeOK
<1>2. ASSUME main = "getchar"
      PROVE  /\ Tail(events) = <<>> /\ reconnTimer = Off /\ connectTimer = Off
             /\ status[channel] = "opened" /\ ~outOfSockets
  <2>1. status[channel] = "opened"
    BY <1>2, HeadFacts, ChannelStatus DEF Answers
  <2> QED BY <1>2, <2>1, HeadFacts DEF ClientInv, Cycle, Opened
<1> QED BY <1>1, <1>2, HeadFacts DEF AtStart

LEMMA AnswerEventOn ==
    ASSUME ClientInv, events # <<>>, Head(events).do \in {"close", "connected"},
           Head(events).on = channel, Open(channel)
    PROVE  OnConnection(Tail(events))
<1>1. ASSUME main = "getchar"
      PROVE  status[channel] \in {"connecting", "connected"} /\ OnlyCloses(Tail(events))
  <2>1. status[channel] \in {"connecting", "connected"}
    BY <1>1, HeadFacts, ChannelStatus DEF StartEvent, Open
  <2>2. OnlyCloses(<<>>)
    BY DEF OnlyCloses
  <2> QED BY <1>1, <2>1, <2>2, HeadFacts
<1> QED BY <1>1, HeadFacts DEF OnConnection

LEMMA RunEventStep == ASSUME ClientInv, RunEvent PROVE ClientInv'
<1> DEFINE e == Head(events)
           rest == Tail(events)
<1>1. events # <<>>
  BY DEF RunEvent
<1>2. CASE e.do = "startConnect" /\ startConnect(rest, reconnTimer)
  BY <1>1, <1>2, StartEventAt, StartConnectStep
<1>3. CASE /\ e.do \in {"close", "connected"}
           /\ e.on = channel /\ Open(channel)
           /\ CloseChannel(rest) \/ onConnect(rest)
  BY <1>1, <1>3, AnswerEventOn, CloseChannelStep, OnConnectStep
<1>4. CASE /\ e.do \in {"close", "connected"}
           /\ ~(e.on = channel /\ Open(channel))
           /\ events' = rest /\ UNCHANGED <<main, loop, link, beat, retry, reachable>>
  <2>1. ASSUME main = "getchar" PROVE status[channel] \in {"connected", "closed"}
    BY <1>1, <1>4, <2>1, HeadFacts, ChannelStatus DEF StartEvent, Answers, Open
  <2> QED BY <1>1, <1>4, <2>1, DroppedStep
<1>5. ASSUME e.do \in {"closesocket", "setTimer", "killTimer"}
      PROVE  main # "getchar"
  BY <1>1, <1>5, HeadFacts, ChannelStatus DEF StartEvent, Answers
<1>6. CASE e.do = "closesocket" /\ CloseSocket(rest)
  <2>1. Off \in Off..ConnectTimeout /\ main # "getchar"
    BY <1>5, <1>6, Bounds DEF Off
  <2>2. TypeOK' /\ OthersClosed' /\ main' # "getchar"
    BY <1>1, <1>6, <2>1, HeadFacts DEF CloseSocket, ClientInv, TypeOK, OthersClosed
  <2> QED BY <2>2 DEF ClientInv
<1>7. CASE e.do = "setTimer" /\ SetTimer(e.delay, rest)
  <2>1. CASE Abort
    BY <2>1, AbortStep
  <2>2. CASE ~Abort
    <3>1. e.delay \in Off..MaxDelay
      BY <1>1, <1>7, HeadFacts, EventFields, Bounds DEF Off
    <3>2. TypeOK' /\ OthersClosed' /\ main' # "getchar"
      BY <1>1, <1>5, <1>7, <2>2, <3>1, HeadFacts DEF SetTimer, ClientInv, TypeOK, OthersClosed, link
    <3> QED BY <3>2 DEF ClientInv
  <2> QED BY <2>1, <2>2
<1>8. CASE e.do = "killTimer" /\ KillTimer(e.on, rest)
  <2>1. Off \in Off..Interval /\ main # "getchar"
    BY <1>5, <1>8, Bounds DEF Off
  <2>2. TypeOK' /\ OthersClosed' /\ main' # "getchar"
    BY <1>1, <1>8, <2>1, HeadFacts DEF KillTimer, ClientInv, TypeOK, OthersClosed, link, retry
  <2> QED BY <2>2 DEF ClientInv
<1> QED BY <1>2, <1>3, <1>4, <1>6, <1>7, <1>8 DEF RunEvent, CloseEvent, ConnectedEvent

LEMMA NoEvents == OnlyCloses(<<>>) /\ <<>> \in Seq(Events)
BY DEF OnlyCloses

\* An attempt under way, and a connection that is up, are what they seem.
LEMMA OnTimer ==
    ASSUME ClientInv, connectTimer # Off
    PROVE  OnConnection(events) /\ (main = "getchar" => status[channel] = "connecting")
<1>1. ASSUME main = "getchar" PROVE status[channel] = "connecting" /\ events = <<>>
  BY <1>1, ChannelStatus DEF ClientInv, Cycle, Opened, Connecting, Connected, Closed
<1> QED BY <1>1, NoEvents DEF OnConnection, ClientInv, TypeOK

LEMMA AnsweredStep == ASSUME ClientInv, Answered PROVE ClientInv'
BY OnTimer, OnConnectStep, CloseChannelStep DEF Answered

LEMMA ConnectTimedOutStep == ASSUME ClientInv, ConnectTimedOut PROVE ClientInv'
BY OnTimer, CloseChannelStep DEF ConnectTimedOut, Off

LEMMA PeerClosesOn == ASSUME ClientInv, PeerCloses PROVE OnConnection(events)
BY DEF PeerCloses, OnConnection, ClientInv, TypeOK, Cycle, Connected

LEMMA PeerClosesStep == ASSUME ClientInv, PeerCloses PROVE ClientInv'
BY PeerClosesOn, CloseChannelStep DEF PeerCloses

LEMMA ReconnDueAt ==
    ASSUME ClientInv, reconnTimer = 0
    PROVE  AtStart(events, Off) /\ (main = "getchar" => status[channel] = "closed")
<1>1. ASSUME main = "getchar"
      PROVE  status[channel] = "closed" /\ events = <<>> /\ connectTimer = Off /\ ~outOfSockets
  <2>1. reconnTimer # Off
    BY DEF Off
  <2> QED BY <1>1, <2>1, ChannelStatus DEF ClientInv, Cycle, Opened, Connecting, Connected, Closed
<1> QED BY <1>1, Bounds DEF AtStart, ClientInv, TypeOK, Off

LEMMA ReconnDueStep == ASSUME ClientInv, ReconnDue PROVE ClientInv'
BY ReconnDueAt, StartConnectStep DEF ReconnDue

LEMMA BeatDueStep == ASSUME ClientInv, NEW c \in Channels, BeatDue(c) PROVE ClientInv'
<1>1. /\ beat[c] = 0
      /\ UNCHANGED <<main, loop, channel, status, connectTimer, reconnTimer, delay, reconn, outOfSockets, reachable>>
  BY DEF BeatDue, link, retry
<1>2. Off \in Off..Interval /\ Interval \in Off..Interval /\ Interval # Off /\ Off # 0
  BY Bounds DEF Off
<1>3. events' \in Seq(Events)
  <2>1. events \in Seq(Events)
    BY DEF ClientInv, TypeOK
  <2>2. [do |-> "close", on |-> c] \in Events /\ [do |-> "killTimer", on |-> c] \in Events
    BY EventKinds DEF Answers
  <2>3. \A e \in Events : Append(events, e) \in Seq(Events)
    BY <2>1
  <2>4. \/ events' = events
        \/ events' = Append(events, [do |-> "close", on |-> c])
        \/ events' = Append(events, [do |-> "killTimer", on |-> c])
    BY DEF BeatDue
  <2> QED BY <2>1, <2>2, <2>3, <2>4
<1>4. beat' \in [Channels -> Off..Interval]
  BY <1>2 DEF BeatDue, ClientInv, TypeOK
<1>5. TypeOK' /\ OthersClosed'
  BY <1>1, <1>3, <1>4 DEF ClientInv, TypeOK, OthersClosed
<1>6. ASSUME main' = "getchar" PROVE Cycle'
  <2>1. main = "getchar" /\ Cycle /\ isRunning
    BY <1>1, <1>6 DEF ClientInv, isRunning
  <2>2. status[channel] # "opened"
    BY <1>1, <1>2, <2>1 DEF Cycle, Opened
  <2>3. CASE status[c] # "connected"
    <3>1. events' = events /\ beat' = [beat EXCEPT ![c] = Off]
      BY <2>1, <2>3 DEF BeatDue
    <3>2. status[channel] = "connected" => beat'[channel] = beat[channel]
      BY <2>3, <3>1, ChannelStatus DEF ClientInv, TypeOK
    <3>3. Connecting => Connecting'
      BY <1>1, <3>1 DEF Connecting, Answers
    <3>4. Closed => Closed'
      BY <1>1, <3>1 DEF Closed, OnlyCloses
    <3>5. status[channel] = "connected" /\ Connected => Connected'
      BY <1>1, <3>1, <3>2 DEF Connected, OnlyCloses
    <3> QED BY <1>1, <2>1, <2>2, <3>3, <3>4, <3>5 DEF Cycle
  <2>4. CASE status[c] = "connected"
    <3>1. c = channel
      BY <2>4 DEF ClientInv, OthersClosed
    <3>2. beat' = [beat EXCEPT ![c] = Interval]
          /\ (events' = events \/ events' = Append(events, [do |-> "close", on |-> c]))
      BY <2>1, <2>4 DEF BeatDue
    <3>3. Connected
      BY <2>1, <2>4, <3>1 DEF Cycle
    <3>4. OnlyCloses(events')
      <4>1. events \in Seq(Events) /\ [do |-> "close", on |-> c] \in Events
        BY EventKinds DEF ClientInv, TypeOK, Answers
      <4>2. OnlyCloses(events)
        BY <3>3 DEF Connected
      <4> QED BY <3>2, <4>1, <4>2, AppendCloses
    <3>5. beat'[channel] = Interval
      BY <3>1, <3>2 DEF ClientInv, TypeOK
    <3>6. Connected'
      BY <1>1, <1>2, <3>3, <3>4, <3>5 DEF Connected, OnlyCloses
    <3> QED BY <1>1, <2>1, <2>4, <3>1, <3>6 DEF Cycle
  <2> QED BY <2>3, <2>4
<1> QED BY <1>5, <1>6 DEF ClientInv

LEMMA LeaveStep == ASSUME ClientInv, Leave PROVE ClientInv'
<1>1. Off \in Off..ConnectTimeout /\ Off \in Off..MaxDelay /\ Off \in Off..Interval
  BY Bounds DEF Off
<1>2. <<>> \in Seq(Events)
  OBVIOUS
<1>3. TypeOK' /\ OthersClosed' /\ main' # "getchar"
  BY <1>1, <1>2 DEF Leave, ClientInv, TypeOK, OthersClosed
<1> QED BY <1>3 DEF ClientInv

LEMMA TickStep == ASSUME ClientInv, Tick PROVE ClientInv'
<1> DEFINE Less(t) == IF t = Off THEN Off ELSE t - 1
<1>1. /\ events = <<>> /\ connectTimer # 0 /\ reconnTimer # 0 /\ \A c \in Channels : beat[c] # 0
      /\ connectTimer' = Less(connectTimer) /\ reconnTimer' = Less(reconnTimer)
      /\ beat' = [c \in Channels |-> Less(beat[c])]
      /\ UNCHANGED <<main, loop, events, channel, status, delay, reconn, outOfSockets, reachable>>
  BY DEF Tick
<1>2. \A n \in Nat : \A t \in Off..n : t # 0 => Less(t) \in Off..n /\ (Less(t) = Off <=> t = Off)
  BY DEF Off
<1>3. /\ connectTimer \in Off..ConnectTimeout /\ reconnTimer \in Off..MaxDelay
      /\ \A c \in Channels : beat[c] \in Off..Interval
  BY DEF ClientInv, TypeOK
<1> HIDE DEF Less
<1>4. /\ connectTimer' \in Off..ConnectTimeout /\ (connectTimer' = Off <=> connectTimer = Off)
      /\ reconnTimer' \in Off..MaxDelay /\ (reconnTimer' = Off <=> reconnTimer = Off)
      /\ \A c \in Channels : beat'[c] \in Off..Interval /\ (beat'[c] = Off <=> beat[c] = Off)
  BY <1>1, <1>2, <1>3, Bounds
<1>5. beat' \in [Channels -> Off..Interval]
  BY <1>1, <1>4
<1>6. TypeOK' /\ OthersClosed'
  BY <1>1, <1>4, <1>5 DEF ClientInv, TypeOK, OthersClosed
<1>7. ASSUME main' = "getchar" PROVE Cycle'
  <2>1. Cycle /\ channel' = channel /\ status' = status /\ channel \in Channels
    BY <1>1, <1>7, ChannelStatus DEF ClientInv
  <2>2. /\ Opened => Opened'
        /\ Connecting => Connecting'
        /\ Connected => Connected'
        /\ Closed => Closed'
    <3>1. Opened => Opened'
      BY <1>1, <1>4 DEF Opened
    <3>2. Connecting => Connecting'
      BY <1>1, <1>4, <2>1 DEF Connecting, Answers
    <3>3. Connected => Connected'
      BY <1>1, <1>4, <2>1 DEF Connected, OnlyCloses
    <3>4. Closed => Closed'
      BY <1>1, <1>4 DEF Closed, OnlyCloses
    <3> QED BY <3>1, <3>2, <3>3, <3>4
  <2>3. status'[channel'] = status[channel] /\ reconn' = reconn /\ outOfSockets' = outOfSockets
    BY <1>1, <2>1
  <2> HIDE DEF Opened, Connecting, Connected, Closed
  <2> QED BY <2>1, <2>2, <2>3 DEF Cycle
<1> QED BY <1>6, <1>7 DEF ClientInv

LEMMA MainStep == ASSUME ClientInv, Main PROVE ClientInv'
<1>1. CASE CloseSocketPosted
  <2>1. events' \in Seq(Events)
    <3>1. events \in Seq(Events) /\ [do |-> "closesocket"] \in Events
      BY EventKinds DEF ClientInv, TypeOK
    <3> QED BY <1>1, <3>1 DEF CloseSocketPosted
  <2> QED BY <1>1, <2>1 DEF CloseSocketPosted, Stop, ClientInv, TypeOK, OthersClosed, link, retry
<1>2. CASE SetStopping \/ HloopStop \/ ClearLoop
  <2>1. main' \in {"stopping", "halted", "joining"} /\ UNCHANGED <<loop, events, link, beat, retry, reachable>>
    BY <1>2 DEF SetStopping, HloopStop, ClearLoop, Stop
  <2> QED BY <2>1 DEF ClientInv, TypeOK, OthersClosed, link, retry
<1> QED BY <1>1, <1>2 DEF Main

\* A step that the cycle does not see.
LEMMA OutsideStep ==
    ASSUME ClientInv, reachable' \in BOOLEAN, UNCHANGED <<main, loop, events, link, beat, retry>>
    PROVE  ClientInv'
<1>1. TypeOK' /\ OthersClosed'
  BY DEF ClientInv, TypeOK, OthersClosed, link, retry
<1>2. Cycle => Cycle'
  BY DEF Cycle, Opened, Connecting, Connected, Closed, OnlyCloses, Answers, link, retry
<1> QED BY <1>1, <1>2 DEF ClientInv

LEMMA ClientStep == ClientInv /\ [Next]_vars => ClientInv'
<1> SUFFICES ASSUME ClientInv, [Next]_vars PROVE ClientInv'
  OBVIOUS
<1>1. CASE RunEvent
  BY <1>1, RunEventStep
<1>2. CASE Answered \/ ConnectTimedOut \/ PeerCloses
  BY <1>2, AnsweredStep, ConnectTimedOutStep, PeerClosesStep
<1>3. CASE \E c \in Channels : BeatDue(c)
  BY <1>3, BeatDueStep
<1>4. CASE ReconnDue
  BY <1>4, ReconnDueStep
<1>5. CASE Leave \/ Tick \/ Main
  BY <1>5, LeaveStep, TickStep, MainStep
<1>6. CASE ServerFlips \/ UNCHANGED vars
  <2>1. reachable' \in BOOLEAN
    BY <1>6, Zenon DEF ServerFlips, vars, ClientInv, TypeOK
  <2> QED BY <1>6, <2>1, OutsideStep DEF ServerFlips, vars
<1> QED BY <1>1, <1>2, <1>3, <1>4, <1>5, <1>6 DEF Next, Callback

(* Whatever the network, the timers and Enter do, the client's cycle is    *)
(* what ClientInv says: an inductive invariant.                            *)
THEOREM ClientInvariant == Spec => []ClientInv
<1> QED BY ClientInit, ClientStep, PTL DEF Spec

(* Every variable keeps its type.                                          *)
THEOREM ClientTypeOK == Spec => []TypeOK
<1>1. ClientInv => TypeOK
  BY DEF ClientInv
<1> QED BY <1>1, ClientInvariant, PTL

(* createsocket in startConnect replaces a closed channel only, so that    *)
(* the client never holds two sockets; a connection has its heartbeat.     *)
THEOREM OnlyOneConnection == Spec => []OneConnection
<1>1. ClientInv => OneConnection
  BY DEF ClientInv, OneConnection, OthersClosed, Cycle, Connected, Open
<1> QED BY <1>1, ClientInvariant, PTL

(* One answer to every attempt, one place in the cycle: the client waits   *)
(* for something that comes, until socket() fails.                         *)
THEOREM NeverGetsStuck == Spec => []NeverStuck
<1>1. ASSUME ClientInv PROVE NeverStuck
  <2> SUFFICES ASSUME main = "getchar"
               PROVE  /\ Cardinality(Prospects) = 1
                      /\ status[channel] = "connecting" =>
                            Cardinality({k \in {"timer", "close", "connected"} :
                                (k = "timer" /\ connectTimer # Off) \/ Pending(k)}) = 1
    BY DEF NeverStuck
  <2>1. Cycle
    BY <1>1 DEF ClientInv
  <2>2. ASSUME NEW x, NEW S, S = {x} PROVE Cardinality(S) = 1
    BY <2>2, FS_Singleton
  <2>3. ASSUME NEW e, events = <<e>> PROVE \A what : Pending(what) <=> e.do = what
    BY <2>3 DEF Pending
  <2>4. ASSUME OnlyCloses(events) PROVE \A what : what # "close" => ~Pending(what)
    BY <2>4 DEF Pending, OnlyCloses
  <2>5. events = <<>> => \A what : ~Pending(what)
    BY DEF Pending
  <2>6. \E x : Prospects = {x}
    <3>1. CASE status[channel] = "opened"
      <4>1. Opened /\ ~outOfSockets
        BY <2>1, <3>1 DEF Cycle
      <4>2. Pending("startConnect")
        BY <2>3, <4>1 DEF Opened, StartEvent
      <4>3. Prospects = {"start"}
        BY <3>1, <4>1, <4>2 DEF Prospects, Opened
      <4> QED BY <4>3
    <3>2. CASE status[channel] = "connecting"
      <4>1. Connecting /\ ~outOfSockets
        BY <2>1, <3>2 DEF Cycle
      <4>2. ~Pending("startConnect")
        BY <2>3, <2>5, <4>1 DEF Connecting, Answers
      <4>3. Prospects = {"connection"}
        BY <3>2, <4>1, <4>2 DEF Prospects, Connecting
      <4> QED BY <4>3
    <3>3. CASE status[channel] = "connected"
      <4>1. Connected /\ ~outOfSockets
        BY <2>1, <3>3 DEF Cycle
      <4>2. ~Pending("startConnect")
        BY <2>4, <4>1 DEF Connected
      <4>3. Prospects = {"connection"}
        BY <3>3, <4>1, <4>2 DEF Prospects, Connected
      <4> QED BY <4>3
    <3>4. CASE status[channel] = "closed"
      <4>1. Closed
        BY <2>1, <3>4 DEF Cycle
      <4>2. ~Pending("startConnect")
        BY <2>4, <4>1 DEF Closed
      <4>3. Prospects = {"retry"} \/ Prospects = {"none"}
        BY <3>4, <4>1, <4>2 DEF Prospects, Closed
      <4> QED BY <4>3
    <3> QED BY <1>1, <3>1, <3>2, <3>3, <3>4, ChannelStatus
  <2>7. ASSUME status[channel] = "connecting"
        PROVE  \E x : {k \in {"timer", "close", "connected"} :
                          (k = "timer" /\ connectTimer # Off) \/ Pending(k)} = {x}
    <3>1. Connecting
      BY <2>1, <2>7 DEF Cycle
    <3>2. CASE connectTimer # Off /\ events = <<>>
      BY <2>5, <3>2
    <3>3. CASE connectTimer = Off /\ \E e \in Answers(channel) : events = <<e>>
      <4>1. PICK e \in Answers(channel) : events = <<e>>
        BY <3>3
      <4>2. e.do \in {"close", "connected"} /\ \A what : Pending(what) <=> e.do = what
        BY <2>3, <4>1 DEF Answers
      <4> QED BY <3>3, <4>2
    <3> QED BY <3>1, <3>2, <3>3 DEF Connecting
  <2> QED BY <2>2, <2>6, <2>7
<1> QED BY <1>1, ClientInvariant, PTL

-----------------------------------------------------------------------------
(* The refinement.                                                         *)

View == <<Link, Wait, Left>>

Retries == [Retrying!ReconnectorNext]_View

LEMMA OffView == ASSUME ~On PROVE Link = "off" /\ Wait = 0 /\ Left = 0
BY DEF Link, Wait, Left

\* Enter is pressed once, and no socket is found again.
LEMMA StaysOff == ASSUME ~On, ~On' PROVE Retries
<1>1. View' = View
  BY OffView DEF View, Link, Wait, Left
<1> QED BY <1>1 DEF Retries

LEMMA GoesOff == ASSUME On, ~On' PROVE Retries
<1>1. Link # "off" /\ Link' = "off" /\ Wait' = 0 /\ Left' = 0
  BY DEF Link, Wait, Left
<1> QED BY <1>1 DEF Retries, Retrying!ReconnectorNext, Retrying!GoOff

LEMMA SameLink ==
    ASSUME main' = main, outOfSockets' = outOfSockets, reconnTimer' = reconnTimer, delay' = delay,
           status'[channel'] = status[channel]
    PROVE  Retries
<1>1. View' = View
  BY DEF View, Link, Wait, Left, On
<1> QED BY <1>1 DEF Retries

\* What each status means in the reconnector's terms.
LEMMA LinkOf ==
    ASSUME ClientInv, On
    PROVE  /\ Wait = delay
           /\ status[channel] = "opened" => Link = "idle" /\ Left = 0
           /\ status[channel] = "connecting" => Link = "trying" /\ Left = 0
           /\ status[channel] = "connected" => Link = "up" /\ Left = 0 /\ Wait = 0
           /\ status[channel] = "closed" => Link = "waiting" /\ Left = reconnTimer
BY DEF ClientInv, Cycle, Opened, Connecting, Connected, Closed, Link, Wait, Left, On

LEMMA CloseChannelView ==
    ASSUME ClientInv, NEW rest, OnConnection(rest), CloseChannel(rest)
    PROVE  Retries
<1>1. main' = main /\ outOfSockets' = outOfSockets /\ (On' <=> On)
  BY DEF CloseChannel, On
<1>2. CASE ~On
  BY <1>1, <1>2, StaysOff
<1>3. CASE On
  <2>1. Cycle /\ main = "getchar" /\ reconn
    BY <1>3 DEF On, ClientInv, Cycle
  <2>2. Link \in {"trying", "up"} /\ Wait = delay
    BY <1>3, <2>1, LinkOf DEF OnConnection
  <2>3. ClientInv'
    BY CloseChannelStep
  <2>4. status'[channel'] = "closed" /\ delay' = calc_delay(delay) /\ reconnTimer' = delay'
    BY <2>1, ChannelStatus DEF CloseChannel, startReconnect, isRunning, ClientInv, TypeOK
  <2>5. Link' = "waiting" /\ Wait' = delay' /\ Left' = reconnTimer'
    <3>1. reconnTimer' # Off
      BY <2>4, Delays, Bounds DEF ClientInv, TypeOK, Off
    <3> QED BY <1>1, <1>3, <2>4, <3>1 DEF Link, Wait, Left
  <2>6. calc_delay(delay) = Retrying!Longer(Wait)
    BY <2>2, CalcDelayIsLonger DEF ClientInv, TypeOK
  <2>7. Retrying!Down
    BY <2>2, <2>4, <2>5, <2>6 DEF Retrying!Down
  <2> QED BY <2>7 DEF Retries, Retrying!ReconnectorNext
<1> QED BY <1>2, <1>3

LEMMA OnConnectView ==
    ASSUME ClientInv, NEW rest, OnConnection(rest), onConnect(rest)
    PROVE  Retries
<1>1. main' = main /\ outOfSockets' = outOfSockets /\ (On' <=> On)
  BY DEF onConnect, Abort, retry, On
<1>2. CASE ~On
  BY <1>1, <1>2, StaysOff
<1>3. CASE On
  <2>1. main = "getchar" /\ reconn /\ status[channel] \in {"connecting", "connected"}
    BY <1>3 DEF On, ClientInv, Cycle, OnConnection
  <2>2. status'[channel'] = "connected" /\ delay' = 0 /\ reconnTimer' = reconnTimer
    BY <2>1, ChannelStatus DEF onConnect, ClientInv, TypeOK
  <2>3. ClientInv'
    BY OnConnectStep
  <2>4. Link' = "up" /\ Wait' = 0 /\ Left' = 0
    <3>1. reconnTimer = Off
      BY <2>1 DEF ClientInv, Cycle, Connecting, Connected
    <3> QED BY <1>1, <1>3, <2>2, <3>1 DEF Link, Wait, Left
  <2>5. CASE status[channel] = "connecting"
    <3>1. Link = "trying" /\ Left = 0
      BY <1>3, <2>5, LinkOf
    <3> QED BY <2>4, <3>1 DEF Retries, Retrying!ReconnectorNext, Retrying!Up
  <2>6. CASE status[channel] = "connected"
    <3>1. Link = "up" /\ Left = 0 /\ Wait = 0
      BY <1>3, <2>6, LinkOf
    <3> QED BY <2>4, <3>1 DEF Retries, View
  <2> QED BY <2>1, <2>5, <2>6
<1> QED BY <1>2, <1>3

LEMMA StartConnectView ==
    ASSUME ClientInv, NEW rest, NEW timer, AtStart(rest, timer), startConnect(rest, timer),
           timer = Off, reconnTimer \in {Off, 0},
           main = "getchar" /\ status[channel] = "closed" => reconnTimer = 0
    PROVE  Retries
<1>1. main' = main /\ (~On => ~On')
  BY DEF startConnect, Abort, retry, On, Connect, link
<1>2. CASE ~On
  BY <1>1, <1>2, StaysOff
<1>3. CASE On /\ ~On'
  BY <1>3, GoesOff
<1>4. CASE On /\ On'
  <2>1. main = "getchar" /\ status[channel] \in {"opened", "closed"} /\ ~outOfSockets'
    BY <1>4 DEF On, AtStart
  <2>2. status'[channel'] = "connecting" /\ reconnTimer' = Off /\ delay' = delay
    BY <2>1 DEF startConnect, Connect, ClientInv, TypeOK
  <2>3. Link' = "trying" /\ Left' = 0 /\ Wait' = delay
    BY <1>4, <2>2 DEF Link, Wait, Left
  <2>4. /\ Link = "idle" \/ (Link = "waiting" /\ Left = 0)
        /\ Left = 0 /\ Wait = delay
    BY <1>4, <2>1, LinkOf
  <2>5. Retrying!Try
    BY <2>3, <2>4 DEF Retrying!Try
  <2> QED BY <2>5 DEF Retries, Retrying!ReconnectorNext
<1> QED BY <1>2, <1>3, <1>4

LEMMA RunEventView == ASSUME ClientInv, RunEvent PROVE Retries
<1> DEFINE e == Head(events)
           rest == Tail(events)
<1>1. events # <<>>
  BY DEF RunEvent
<1>2. CASE e.do = "startConnect" /\ startConnect(rest, reconnTimer)
  <2>1. AtStart(rest, reconnTimer)
    BY <1>1, <1>2, StartEventAt
  <2>2. main = "getchar" => reconnTimer = Off /\ status[channel] # "closed"
    BY <1>1, <1>2, <2>1, HeadFacts DEF AtStart
  <2>3. CASE main = "getchar"
    BY <1>2, <2>1, <2>2, <2>3, StartConnectView
  <2>4. CASE main # "getchar"
    <3>1. main' = main
      BY <1>2 DEF startConnect, Abort
    <3> QED BY <2>4, <3>1, StaysOff DEF On
  <2> QED BY <2>3, <2>4
<1>3. CASE /\ e.do \in {"close", "connected"}
           /\ e.on = channel /\ Open(channel)
           /\ CloseChannel(rest) \/ onConnect(rest)
  BY <1>1, <1>3, AnswerEventOn, CloseChannelView, OnConnectView
<1>4. CASE UNCHANGED <<main, loop, link, beat, retry, reachable>>
  BY <1>4, SameLink DEF link, retry
<1>5. CASE e.do \in {"closesocket", "setTimer", "killTimer"}
  <2>1. main # "getchar"
    BY <1>1, <1>5, HeadFacts, ChannelStatus DEF StartEvent, Answers
  <2>2. main' = main
    BY <1>5 DEF RunEvent, CloseSocket, SetTimer, KillTimer, Abort
  <2> QED BY <2>1, <2>2, StaysOff DEF On
<1> QED BY <1>2, <1>3, <1>4, <1>5 DEF RunEvent, CloseEvent, ConnectedEvent

LEMMA TickView == ASSUME ClientInv, Tick PROVE Retries
<1>1. /\ main' = main /\ outOfSockets' = outOfSockets /\ delay' = delay
      /\ status' = status /\ channel' = channel
      /\ reconnTimer # 0
      /\ reconnTimer' = IF reconnTimer = Off THEN Off ELSE reconnTimer - 1
  BY DEF Tick
<1>2. CASE ~On
  BY <1>1, <1>2, StaysOff DEF On
<1>3. CASE On /\ reconnTimer = Off
  BY <1>1, <1>3, SameLink
<1>4. CASE On /\ reconnTimer # Off
  <2>1. status[channel] = "closed"
    BY <1>4, ChannelStatus DEF On, ClientInv, Cycle, Opened, Connecting, Connected
  <2>2. Link = "waiting" /\ Left = reconnTimer /\ Wait = delay
    BY <1>4, <2>1, LinkOf
  <2>3. reconnTimer' = reconnTimer - 1 /\ reconnTimer' # Off /\ reconnTimer > 0
    BY <1>1, <1>4, Bounds DEF ClientInv, TypeOK, Off
  <2>4. Link' = "waiting" /\ Left' = Left - 1 /\ Wait' = Wait
    BY <1>1, <1>4, <2>1, <2>2, <2>3 DEF On, Link, Left, Wait
  <2>5. Retrying!Second
    BY <2>2, <2>3, <2>4 DEF Retrying!Second
  <2> QED BY <2>5 DEF Retries, Retrying!ReconnectorNext
<1> QED BY <1>2, <1>3, <1>4

(* tcpClient.cpp:40, "reconnect: 1,2,4,8,10,10,10...": for every MinDelay  *)
(* and MaxDelay the attempts of the client, its events and its timers      *)
(* implement the Reconnector.                                              *)
THEOREM ClientBacksOff == Spec => Backoff
<1>1. Init => Retrying!ReconnectorInit
  <2> SUFFICES ASSUME Init PROVE Retrying!ReconnectorInit
    OBVIOUS
  <2>1. On /\ status[channel] = "opened" /\ reconnTimer = Off /\ delay = 0
    BY DEF Init, On
  <2> QED BY <2>1 DEF Retrying!ReconnectorInit, Link, Wait, Left
<1>2. ASSUME ClientInv, [Next]_vars PROVE Retries
  <2>1. CASE RunEvent
    BY <1>2, <2>1, RunEventView
  <2>2. CASE Answered \/ ConnectTimedOut \/ PeerCloses
    BY <1>2, <2>2, OnTimer, PeerClosesOn, OnConnectView, CloseChannelView
       DEF Answered, ConnectTimedOut, PeerCloses, Off
  <2>3. CASE (\E c \in Channels : BeatDue(c)) \/ ServerFlips \/ UNCHANGED vars
    <3>1. /\ main' = main /\ outOfSockets' = outOfSockets /\ reconnTimer' = reconnTimer
          /\ delay' = delay /\ status'[channel'] = status[channel]
      BY <2>3 DEF BeatDue, ServerFlips, vars, link, retry
    <3> QED BY <3>1, SameLink
  <2>4. CASE ReconnDue
    <3>1. AtStart(events, Off) /\ reconnTimer = 0 /\ startConnect(events, Off)
      BY <1>2, <2>4, ReconnDueAt DEF ReconnDue
    <3> QED BY <1>2, <3>1, StartConnectView
  <2>5. CASE Tick
    BY <1>2, <2>5, TickView
  <2>6. CASE Leave \/ SetStopping \/ HloopStop \/ ClearLoop
    <3>1. main # "getchar" /\ main' # "getchar"
      BY <2>6 DEF Leave, SetStopping, HloopStop, ClearLoop, Stop
    <3> QED BY <3>1, StaysOff DEF On
  <2>7. CASE CloseSocketPosted
    <3>1. ~On'
      BY <2>7 DEF CloseSocketPosted, Stop, On
    <3> QED BY <3>1, GoesOff, StaysOff
  <2> QED BY <1>2, <2>1, <2>2, <2>3, <2>4, <2>5, <2>6, <2>7 DEF Next, Callback, Main
<1>3. Retries => [Retrying!ReconnectorNext]_<<Link, Wait, Left>>
  BY DEF Retries, View
<1> QED BY <1>1, <1>2, <1>3, ClientInvariant, PTL DEF Spec, Backoff, Retrying!ReconnectorSpec
=============================================================================
