-------------------------- MODULE TcpClientTimerProofs --------------------------
(* The timers of connections that are gone: how many there can be, and     *)
(* that the next connection finds a channel that is free.                  *)
EXTENDS TcpClientProofs, FunctionTheorems

Timers == {c \in Channels : beat[c] # Off}

\* The most there are.
Most == 1 + (Interval \div MinDelay)

\* A connection that is attempted, or is about to be, has no timer yet.
Attempted == status[channel] \in {"opened", "connecting"}
Attempt == Attempted \/ reconnTimer = 0

\* The channels that somebody holds.
IsOn(e, c) == "on" \in DOMAIN e /\ e.on = c
HeldBy(q) == {c \in Channels : \E i \in DOMAIN q : IsOn(q[i], c)}
Held == {channel} \cup Timers \cup HeldBy(events)

\* What holds whatever the main thread does.
StartsOnce ==
    \A i \in DOMAIN events : events[i].do = "startConnect" => i = 1 /\ status[channel] = "opened"

KillsTheDead ==
    \A i \in DOMAIN events : events[i].do = "killTimer" => status[events[i].on] = "closed"

Standing ==
    /\ Attempted => beat[channel] = Off
    /\ status[channel] = "connected" => beat[channel] # Off
    /\ connectTimer # Off => status[channel] = "connecting"
    /\ reconnTimer = 0 => status[channel] = "closed"
    /\ StartsOnce
    /\ KillsTheDead

Apart(s, t) == s + MinDelay <= t \/ t + MinDelay <= s

\* Two connections are at least MinDelay apart, and so are their timers; the
\* next one comes no sooner.
Spaced ==
    /\ \A c, d \in Timers : c # d => Apart(beat[c], beat[d])
    /\ \A c \in Timers :
           /\ status[channel] = "connected" /\ c # channel => beat[c] + MinDelay <= beat[channel]
           /\ Attempted => beat[c] + MinDelay <= Interval
           /\ status[channel] = "closed" /\ reconnTimer # Off =>
                  beat[c] + MinDelay <= Interval + reconnTimer

\* Once Enter is pressed no time passes, and a timer may be set again beside
\* another; but one connection more is all that can still be made.
Counted ==
    /\ Cardinality(Timers) <= Most
    /\ Attempt => Cardinality(Timers) < Most
    /\ reconnTimer = 0 => Cardinality(Held) <= Most

TimersInv ==
    /\ ClientInv
    /\ Standing
    /\ main = "getchar" => Spaced
    /\ Counted

\* What a step has to show of the state it leads to.
TimersStep ==
    /\ ClientInv
    /\ Standing
    /\ IF main = "getchar" THEN Spaced ELSE Counted

\* However fast connections come and go, the next one finds a channel that
\* nobody holds any more: Connect never waits for one.
FreshIsThere == reconnTimer = 0 => \E c \in Channels : Free(c)

-----------------------------------------------------------------------------
(* Counting.                                                               *)
LEMMA SomeChannels ==
    ASSUME NEW S \in SUBSET Channels
    PROVE  /\ IsFiniteSet(S) /\ Cardinality(S) \in Nat
           /\ \A T \in SUBSET S : Cardinality(T) \in Nat /\ Cardinality(T) <= Cardinality(S)
           /\ \A x : Cardinality(S \cup {x}) \in Nat /\ Cardinality(S \cup {x}) <= Cardinality(S) + 1
<1>1. IsFiniteSet(S) /\ Cardinality(S) \in Nat
  BY ClientAssumption, FS_Subset, FS_CardinalityType
<1>2. \A T \in SUBSET S : Cardinality(T) \in Nat /\ Cardinality(T) <= Cardinality(S)
  BY <1>1, FS_Subset, FS_CardinalityType
<1>3. ASSUME NEW x
      PROVE  Cardinality(S \cup {x}) \in Nat /\ Cardinality(S \cup {x}) <= Cardinality(S) + 1
  <2>1. /\ IsFiniteSet(S \cup {x})
        /\ Cardinality(S \cup {x}) = IF x \in S THEN Cardinality(S) ELSE Cardinality(S) + 1
    BY <1>1, FS_AddElement
  <2> QED BY <1>1, <2>1
<1> QED BY <1>1, <1>2, <1>3

LEMMA Quotients ==
    ASSUME NEW m \in Nat, m > 0, NEW s \in Nat, NEW t \in Nat
    PROVE  /\ s \div m \in Nat
           /\ s + m <= t => (s \div m) + 1 <= t \div m
           /\ s <= t => s \div m <= t \div m
<1>1. \A n \in Nat : n \div m \in Nat /\ n = m * (n \div m) + (n % m) /\ n % m \in 0..(m - 1)
  OBVIOUS
<1> DEFINE a == s \div m
           b == t \div m
<1>2. a \in Nat /\ b \in Nat
  BY <1>1
<1>3. m * a <= s /\ s < m * a + m /\ m * b <= t /\ t < m * b + m
  BY <1>1
<1> HIDE DEF a, b
<1>4. ASSUME s + m <= t PROVE a + 1 <= b
  <2>1. m * a + m < m * b + m
    BY <1>2, <1>3, <1>4
  <2>2. \A x, y \in Nat : m * x < m * y => x < y
    OBVIOUS
  <2> QED BY <1>2, <2>1, <2>2
<1>5. ASSUME s <= t PROVE a <= b
  <2>1. m * a < m * (b + 1)
    BY <1>2, <1>3, <1>5
  <2>2. \A x, y \in Nat : m * x < m * y => x < y
    OBVIOUS
  <2> QED BY <1>2, <2>1, <2>2
<1> QED BY <1>2, <1>4, <1>5 DEF a, b

\* So many channels have values in 0..n that are MinDelay apart.
LEMMA ApartAreFew ==
    ASSUME NEW S \in SUBSET Channels, NEW v, NEW n \in Nat,
           \A c \in S : v[c] \in 0..n,
           \A c, d \in S : c # d => Apart(v[c], v[d])
    PROVE  Cardinality(S) <= 1 + (n \div MinDelay)
<1> DEFINE T == 0..(n \div MinDelay)
           f == [c \in S |-> v[c] \div MinDelay]
<1>1. \A c \in S : v[c] \in Nat /\ v[c] <= n
  OBVIOUS
<1>2. \A c \in S : v[c] \div MinDelay \in T
  BY <1>1, Bounds, Quotients
<1>3. ASSUME NEW c \in S, NEW d \in S, c # d
      PROVE  v[c] \div MinDelay # v[d] \div MinDelay
  <2>1. v[c] \div MinDelay \in Nat /\ v[d] \div MinDelay \in Nat
    BY <1>1, Bounds, Quotients
  <2>2. \/ (v[c] \div MinDelay) + 1 <= v[d] \div MinDelay
        \/ (v[d] \div MinDelay) + 1 <= v[c] \div MinDelay
    BY <1>1, <1>3, Bounds, Quotients DEF Apart
  <2> QED BY <2>1, <2>2
<1>4. f \in Injection(S, T)
  BY <1>2, <1>3 DEF Injection, IsInjective
<1>5. n \div MinDelay \in Nat
  BY Bounds, Quotients
<1> HIDE DEF T, f
<1>6. IsFiniteSet(T) /\ Cardinality(T) = 1 + (n \div MinDelay)
  BY <1>5, FS_Interval DEF T
<1> QED BY <1>4, <1>6, FS_Injection

LEMMA TimersFacts ==
    /\ Most \in Nat /\ Most > 0
    /\ Timers \in SUBSET Channels /\ Cardinality(Timers) \in Nat
    /\ channel \in Channels => Held \in SUBSET Channels /\ Cardinality(Held) \in Nat
<1>1. Interval \div MinDelay \in Nat
  BY Bounds, Quotients
<1>2. Timers \in SUBSET Channels /\ (channel \in Channels => Held \in SUBSET Channels)
  BY DEF Timers, Held, HeldBy
<1> QED BY <1>1, <1>2, SomeChannels DEF Most

LEMMA TimerOf ==
    ASSUME ClientInv
    PROVE  \A c \in Timers : c \in Channels /\ beat[c] \in Nat /\ beat[c] <= Interval
BY Bounds DEF ClientInv, TypeOK, Timers, Off

\* When no timer is within MinDelay of the interval's end, one less.
LEMMA OneLess ==
    ASSUME ClientInv, Spaced, \A c \in Timers : beat[c] + MinDelay <= Interval
    PROVE  Cardinality(Timers) < Most
<1>1. CASE MinDelay <= Interval
  <2> DEFINE n == Interval - MinDelay
  <2>1. n \in Nat /\ n + MinDelay <= Interval
    BY <1>1, Bounds
  <2>2. \A c \in Timers : beat[c] \in 0..n
    BY <2>1, TimerOf, Bounds
  <2> HIDE DEF n
  <2>3. Cardinality(Timers) <= 1 + (n \div MinDelay)
    BY <2>1, <2>2, TimersFacts, ApartAreFew DEF Spaced
  <2>4. (n \div MinDelay) + 1 <= Interval \div MinDelay /\ n \div MinDelay \in Nat
        /\ Interval \div MinDelay \in Nat
    BY <2>1, Bounds, Quotients
  <2> QED BY <2>3, <2>4, TimersFacts DEF Most
<1>2. CASE ~(MinDelay <= Interval)
  <2>1. Timers = {}
    BY <1>2, TimerOf, Bounds
  <2> QED BY <2>1, TimersFacts, FS_EmptySet
<1> QED BY <1>1, <1>2

\* Until Enter is pressed, the spacing is what counts the timers.
LEMMA SpacedIsCounted ==
    ASSUME ClientInv, main = "getchar", Spaced
    PROVE  Counted
<1>1. Cardinality(Timers) <= Most
  <2>1. \A c \in Timers : beat[c] \in 0..Interval
    BY TimerOf, Bounds
  <2> QED BY <2>1, Bounds, TimersFacts, ApartAreFew DEF Spaced, Most
<1>2. ASSUME Attempt PROVE Cardinality(Timers) < Most
  <2>1. CASE Attempted
    BY <2>1, OneLess DEF Spaced
  <2>2. CASE reconnTimer = 0
    <3>1. status[channel] = "closed" /\ reconnTimer # Off
      BY <2>2, ReconnDueAt DEF Off
    <3>2. \A c \in Timers : beat[c] + MinDelay <= Interval
      BY <2>2, <3>1, Bounds DEF Spaced
    <3> QED BY <3>2, OneLess
  <2> QED BY <1>2, <2>1, <2>2 DEF Attempt
<1>3. ASSUME reconnTimer = 0 PROVE Cardinality(Held) <= Most
  <2>1. events = <<>>
    BY <1>3, ReconnDueAt DEF AtStart
  <2>2. HeldBy(events) = {}
    BY <2>1 DEF HeldBy
  <2>3. Held = Timers \cup {channel}
    BY <2>2 DEF Held
  <2>4. Cardinality(Timers) < Most
    BY <1>2, <1>3 DEF Attempt
  <2>5. /\ Cardinality(Held) \in Nat /\ Cardinality(Held) <= Cardinality(Timers) + 1
        /\ Cardinality(Timers) \in Nat /\ Most \in Nat
    BY <2>3, TimersFacts, SomeChannels
  <2> QED BY <2>4, <2>5
<1> QED BY <1>1, <1>2, <1>3 DEF Counted

\* There are more channels than anybody holds.
LEMMA FreshChannelIsFree ==
    ASSUME TimersInv, reconnTimer = 0
    PROVE  FreshChannel \in Channels /\ Free(FreshChannel)
<1>1. channel \in Channels /\ Held \in SUBSET Channels /\ Cardinality(Held) <= Most
      /\ Cardinality(Held) \in Nat
  BY ChannelStatus, TimersFacts DEF TimersInv, Counted
<1>2. IsFiniteSet(Channels) /\ Cardinality(Channels) > Most
  BY ClientAssumption DEF Most
<1>3. Held # Channels
  BY <1>1, <1>2, TimersFacts
<1>4. PICK c \in Channels : c \notin Held
  BY <1>1, <1>3
<1>5. Free(c)
  BY <1>4 DEF Free, Held, Timers, HeldBy, IsOn
<1> QED BY <1>5 DEF FreshChannel

-----------------------------------------------------------------------------
(* The callbacks.  rest are the events that one leaves.                    *)

Remaining(rest) ==
    /\ rest \in Seq(Events)
    /\ \A i \in DOMAIN rest :
           rest[i].do # "startConnect" /\ \E j \in DOMAIN events : rest[i] = events[j]

LEMMA AppendedEvents ==
    ASSUME NEW q \in Seq(Events), NEW e \in Events
    PROVE  \A i \in DOMAIN Append(q, e) :
               \/ i \in DOMAIN q /\ Append(q, e)[i] = q[i]
               \/ Append(q, e)[i] = e
OBVIOUS

LEMMA TailEvents ==
    ASSUME NEW q \in Seq(Events), q # <<>>
    PROVE  \A i \in DOMAIN Tail(q) : i + 1 \in DOMAIN q /\ Tail(q)[i] = q[i + 1] /\ i + 1 # 1
OBVIOUS

LEMMA TailRemains == ASSUME TimersInv, events # <<>> PROVE Remaining(Tail(events))
<1>1. events \in Seq(Events) /\ Tail(events) \in Seq(Events)
  BY HeadFacts DEF TimersInv, ClientInv, TypeOK
<1>2. \A i \in DOMAIN Tail(events) :
          i + 1 \in DOMAIN events /\ Tail(events)[i] = events[i + 1] /\ i + 1 # 1
  BY <1>1, TailEvents
<1> QED BY <1>1, <1>2 DEF Remaining, TimersInv, Standing, StartsOnce

LEMMA AllRemain == ASSUME TimersInv, status[channel] # "opened" PROVE Remaining(events)
BY DEF Remaining, TimersInv, ClientInv, TypeOK, Standing, StartsOnce

\* Events that neither start the client nor kill a timer are no concern.
LEMMA EventsStand ==
    ASSUME TimersInv, NEW rest, Remaining(rest),
           \/ events' = rest
           \/ \E e \in Events : events' = Append(rest, e) /\ e.do \notin {"startConnect", "killTimer"},
           \A c \in Channels :
               (\E i \in DOMAIN rest : rest[i].do = "killTimer" /\ rest[i].on = c)
                   /\ status[c] = "closed" => status'[c] = "closed"
    PROVE  StartsOnce' /\ KillsTheDead'
<1>1. \A i \in DOMAIN events' :
          \/ i \in DOMAIN rest /\ events'[i] = rest[i]
          \/ events'[i].do \notin {"startConnect", "killTimer"}
  BY AppendedEvents DEF Remaining
<1>2. ASSUME NEW i \in DOMAIN rest PROVE rest[i].do # "startConnect"
  BY DEF Remaining
<1>3. ASSUME NEW i \in DOMAIN rest, rest[i].do = "killTimer"
      PROVE  status'[rest[i].on] = "closed"
  <2>1. rest[i] \in Events
    BY DEF Remaining
  <2>2. rest[i].on \in Channels
    BY <1>3, <2>1, EventFields
  <2>3. status[rest[i].on] = "closed"
    BY <1>3 DEF Remaining, TimersInv, Standing, KillsTheDead
  <2> QED BY <1>3, <2>2, <2>3
<1> QED BY <1>1, <1>2, <1>3 DEF StartsOnce, KillsTheDead

\* With no fewer free channels, and no attempt that was not there.
LEMMA StillCounted ==
    ASSUME TimersInv, channel' \in Channels, Timers' \subseteq Timers, Attempt' => Attempt,
           reconnTimer' = 0 => reconnTimer = 0 /\ Held' \subseteq Held
    PROVE  Counted'
<1>1. /\ Timers \in SUBSET Channels /\ Cardinality(Timers) \in Nat /\ Most \in Nat /\ Most' = Most
      /\ Cardinality(Timers') \in Nat /\ Cardinality(Timers') <= Cardinality(Timers)
  BY TimersFacts, SomeChannels DEF Most
<1>2. ASSUME reconnTimer' = 0 PROVE Cardinality(Held') <= Most
  <2>1. Held \in SUBSET Channels /\ Cardinality(Held) <= Most
    BY <1>2, TimersFacts, ChannelStatus DEF TimersInv, Counted
  <2>2. Cardinality(Held') \in Nat /\ Cardinality(Held') <= Cardinality(Held) /\ Cardinality(Held) \in Nat
    BY <1>2, <2>1, SomeChannels
  <2> QED BY <1>1, <2>1, <2>2
<1>3. Cardinality(Timers) <= Most /\ (Attempt => Cardinality(Timers) < Most)
  BY DEF TimersInv, Counted
<1>4. Cardinality(Timers') <= Most /\ (Attempt' => Cardinality(Timers') < Most)
  BY <1>1, <1>3
<1> QED BY <1>1, <1>2, <1>4 DEF Counted

LEMMA CloseChannelTimers ==
    ASSUME TimersInv, NEW rest, Remaining(rest), OnConnection(rest), Open(channel), CloseChannel(rest)
    PROVE  TimersInv'
<1>1. /\ status' = [status EXCEPT ![channel] = "closed"] /\ connectTimer' = Off
      /\ UNCHANGED <<main, channel, beat, reconn>>
  BY DEF CloseChannel
<1>2. channel \in Channels /\ status'[channel'] = "closed" /\ status[channel] # "closed"
      /\ \A c \in Channels : status[c] = "closed" => status'[c] = "closed"
  BY <1>1, ChannelStatus DEF TimersInv, ClientInv, TypeOK, Open
<1>3. reconnTimer # 0 /\ reconnTimer' # 0
  <2>1. reconnTimer # 0
    BY <1>2 DEF TimersInv, Standing
  <2>2. calc_delay(delay) \in MinDelay..MaxDelay
    BY Delays DEF TimersInv, ClientInv, TypeOK
  <2> QED BY <2>1, <2>2, Bounds DEF CloseChannel, startReconnect
<1>4. Standing'
  <2>1. \/ events' = rest
        \/ \E e \in Events : events' = Append(rest, e) /\ e.do \notin {"startConnect", "killTimer"}
    <3>1. calc_delay(delay) \in MinDelay..MaxDelay
      BY Delays DEF TimersInv, ClientInv, TypeOK
    <3>2. /\ [do |-> "setTimer", delay |-> calc_delay(delay)] \in Events
          /\ [do |-> "setTimer", delay |-> calc_delay(delay)].do \notin {"startConnect", "killTimer"}
      BY <3>1, EventKinds
    <3> QED BY <3>2 DEF CloseChannel, startReconnect
  <2>2. StartsOnce' /\ KillsTheDead'
    BY <1>2, <2>1, EventsStand
  <2> QED BY <1>1, <1>2, <1>3, <2>2 DEF Standing, Attempted
<1>5. ASSUME main' = "getchar" PROVE Spaced'
  <2>1. main = "getchar" /\ Spaced /\ Timers' = Timers
    BY <1>1, <1>5 DEF TimersInv, Timers
  <2>2. reconnTimer' = delay' /\ reconnTimer' \in MinDelay..MaxDelay
    BY <2>1, Delays DEF CloseChannel, startReconnect, TimersInv, ClientInv, Cycle, TypeOK, isRunning
  <2>3. \A c \in Timers : beat[c] + MinDelay <= Interval + reconnTimer'
    BY <2>2, TimerOf, Bounds DEF TimersInv
  <2> QED BY <1>1, <1>2, <2>1, <2>3 DEF Spaced, Attempted, Apart
<1>6. Counted'
  <2>1. Timers' = Timers /\ ~Attempt'
    BY <1>1, <1>2, <1>3 DEF Timers, Attempt, Attempted
  <2> QED BY <1>1, <1>2, <1>3, <2>1, StillCounted
<1>7. ClientInv'
  BY CloseChannelStep DEF TimersInv
<1> QED BY <1>4, <1>5, <1>6, <1>7 DEF TimersInv

LEMMA AbortTimers == ASSUME TimersInv, Abort PROVE TimersInv'
<1>1. ClientInv'
  BY AbortStep DEF TimersInv
<1>2. UNCHANGED <<main, events, channel, status, connectTimer, beat, reconnTimer>>
  BY DEF Abort, link, retry
<1>3. Standing' /\ (Spaced => Spaced') /\ Counted'
  BY <1>2 DEF TimersInv, Standing, StartsOnce, KillsTheDead, Spaced, Counted, Timers, Attempt, Attempted,
              Held, HeldBy, IsOn, Most, Apart
<1> QED BY <1>1, <1>2, <1>3 DEF TimersInv

LEMMA OnConnectTimers ==
    ASSUME TimersInv, NEW rest, Remaining(rest), OnConnection(rest), Open(channel), onConnect(rest)
    PROVE  TimersInv'
<1>1. CASE main = "joining"
  BY <1>1, AbortTimers DEF onConnect
<1>2. CASE main # "joining"
  <2>1. /\ status' = [status EXCEPT ![channel] = "connected"] /\ connectTimer' = Off
        /\ beat' = [beat EXCEPT ![channel] = Interval] /\ events' = rest
        /\ UNCHANGED <<main, channel, reconnTimer, reconn>>
    BY <1>2 DEF onConnect
  <2>2. /\ channel \in Channels /\ status'[channel'] = "connected" /\ status[channel] # "closed"
        /\ beat'[channel] = Interval /\ Interval # Off
        /\ \A c \in Channels : status[c] = "closed" => status'[c] = "closed"
        /\ \A c \in Channels : c # channel => beat'[c] = beat[c]
    BY <2>1, ChannelStatus, Bounds DEF TimersInv, ClientInv, TypeOK, Open, Off
  <2>3. reconnTimer # 0 /\ reconnTimer' # 0
    BY <2>1, <2>2 DEF TimersInv, Standing
  <2>4. Timers' = Timers \cup {channel}
    BY <2>2 DEF Timers
  <2>5. Standing'
    <3>1. StartsOnce' /\ KillsTheDead'
      BY <2>1, <2>2, EventsStand
    <3> QED BY <2>1, <2>2, <2>3, <3>1 DEF Standing, Attempted
  <2>6. ASSUME main' = "getchar" PROVE Spaced'
    <3>1. Spaced /\ status[channel] \in {"connecting", "connected"}
      BY <2>1, <2>6 DEF TimersInv, OnConnection
    <3>2. \A c \in Timers : beat[c] \in Nat /\ beat[c] <= Interval
      BY TimerOf DEF TimersInv
    <3>3. ASSUME NEW c \in Timers, c # channel PROVE beat[c] + MinDelay <= Interval
      <4>1. CASE status[channel] = "connecting"
        BY <3>1, <3>3, <4>1 DEF Spaced, Attempted
      <4>2. CASE status[channel] = "connected"
        <5>1. channel \in Timers
          BY <2>2, <4>2 DEF Timers, TimersInv, Standing
        <5>2. beat[c] + MinDelay <= beat[channel] /\ beat[channel] <= Interval
          BY <3>1, <3>2, <3>3, <4>2, <5>1 DEF Spaced
        <5>3. beat[c] \in Nat /\ beat[channel] \in Nat
          BY <3>2, <3>3, <5>1
        <5> QED BY <5>2, <5>3, Bounds
      <4> QED BY <3>1, <4>1, <4>2
    <3>4. \A c \in Timers' : c # channel => c \in Timers /\ beat'[c] = beat[c]
      BY <2>2, <2>4, TimersFacts
    <3>5. ASSUME NEW c \in Timers', NEW d \in Timers', c # d PROVE Apart(beat'[c], beat'[d])
      <4>1. CASE c = channel
        BY <2>2, <3>3, <3>4, <3>5, <4>1 DEF Apart
      <4>2. CASE d = channel
        BY <2>2, <3>3, <3>4, <3>5, <4>2 DEF Apart
      <4>3. CASE c # channel /\ d # channel
        BY <3>1, <3>4, <3>5, <4>3 DEF Spaced
      <4> QED BY <4>1, <4>2, <4>3
    <3>6. ~Attempted' /\ status'[channel'] = "connected" /\ channel' = channel
      BY <2>1, <2>2 DEF Attempted
    <3>7. \A c \in Timers' : c # channel' => beat'[c] + MinDelay <= beat'[channel']
      BY <2>2, <3>3, <3>4, <3>6
    <3> QED BY <3>5, <3>6, <3>7 DEF Spaced, Apart
  <2>7. Counted'
    <3>1. Cardinality(Timers') <= Most
      <4>1. CASE status[channel] = "connected"
        <5>1. Timers' = Timers
          BY <2>2, <2>4, <4>1 DEF TimersInv, Standing, Timers
        <5> QED BY <5>1 DEF TimersInv, Counted
      <4>2. CASE status[channel] # "connected"
        <5>1. Cardinality(Timers) < Most
          BY <2>2, <4>2, ChannelStatus DEF TimersInv, Counted, Attempt, Attempted
        <5>2. /\ Cardinality(Timers') \in Nat /\ Cardinality(Timers') <= Cardinality(Timers) + 1
              /\ Cardinality(Timers) \in Nat /\ Most \in Nat
          BY <2>4, TimersFacts, SomeChannels
        <5> QED BY <5>1, <5>2
      <4> QED BY <4>1, <4>2
    <3>2. ~Attempt' /\ Most' = Most
      BY <2>2, <2>3 DEF Attempt, Attempted, Most
    <3> QED BY <2>3, <3>1, <3>2 DEF Counted
  <2>8. ClientInv'
    BY OnConnectStep DEF TimersInv
  <2> QED BY <2>5, <2>6, <2>7, <2>8 DEF TimersInv
<1> QED BY <1>1, <1>2

\* Where startConnect runs: at the start, or when the wait is over.
Starting(rest, timer) ==
    /\ Remaining(rest)
    /\ AtStart(rest, timer)
    /\ \/ status[channel] = "opened" /\ timer = reconnTimer
       \/ status[channel] = "closed" /\ reconnTimer = 0 /\ timer = Off

LEMMA StartConnectTimers ==
    ASSUME TimersInv, NEW rest, NEW timer, Starting(rest, timer), startConnect(rest, timer)
    PROVE  TimersInv'
<1>1. CASE Abort
  BY <1>1, AbortTimers
<1>2. CASE ~Abort
  <2>1. reconnTimer' = timer /\ beat' = beat /\ main' = main /\ reconn' = reconn /\ Timers' = Timers
    BY <1>2 DEF startConnect, Timers
  <2>2. reconnTimer' # 0 /\ Attempt
    BY <2>1 DEF Starting, TimersInv, Standing, Attempt, Attempted, Off
  <2>3. ClientInv'
    BY StartConnectStep DEF TimersInv, Starting
  <2>4. CASE ~Open(channel) /\ events' = rest /\ UNCHANGED link
    <3>1. channel' = channel /\ status' = status /\ connectTimer' = connectTimer
          /\ status[channel] = "closed" /\ channel \in Channels /\ reconnTimer' = Off
      BY <2>1, <2>4, ChannelStatus DEF link, Open, Starting, TimersInv
    <3>2. StartsOnce' /\ KillsTheDead'
      BY <2>4, <3>1, EventsStand DEF Starting
    <3>3. Standing'
      BY <2>1, <2>2, <3>1, <3>2 DEF Standing, Attempted, TimersInv
    <3>4. Spaced => Spaced'
      BY <2>1, <3>1 DEF Spaced, Attempted, Apart
    <3>5. Counted'
      BY <2>1, <2>2, <3>1, StillCounted
    <3> QED BY <2>1, <2>3, <3>3, <3>4, <3>5 DEF TimersInv
  <2>5. ASSUME NEW c \in Channels, beat[c] = Off,
               \A i \in DOMAIN rest : ~(rest[i].do = "killTimer" /\ rest[i].on = c /\ status[c] = "closed"),
               channel' = c, status' = [status EXCEPT ![c] = "connecting"],
               events' = rest \/ (\E e \in Answers(c) : events' = Append(rest, e))
        PROVE  TimersInv'
    <3>1. status'[channel'] = "connecting" /\ \A d \in Channels : d # c => status'[d] = status[d]
      BY <2>5, ChannelStatus DEF TimersInv, ClientInv, TypeOK
    <3>2. StartsOnce' /\ KillsTheDead'
      <4>0. Answers(c) \subseteq Events
        BY EventKinds
      <4>1. \A e \in Answers(c) : e.do \notin {"startConnect", "killTimer"}
        BY DEF Answers
      <4>2. \A d \in Channels :
               (\E i \in DOMAIN rest : rest[i].do = "killTimer" /\ rest[i].on = d)
                   /\ status[d] = "closed" => status'[d] = "closed"
        BY <2>5, <3>1
      <4> QED BY <2>5, <4>0, <4>1, <4>2, EventsStand DEF Starting
    <3>3. Standing'
      BY <2>1, <2>2, <2>5, <3>1, <3>2 DEF Standing, Attempted
    <3>4. ASSUME main' = "getchar" PROVE Spaced'
      <4>1. Spaced
        BY <2>1, <3>4 DEF TimersInv
      <4>2. \A d \in Timers : beat[d] + MinDelay <= Interval
        <5>1. CASE status[channel] = "opened"
          BY <4>1, <5>1 DEF Spaced, Attempted
        <5>2. CASE status[channel] = "closed" /\ reconnTimer = 0
          BY <4>1, <5>2, Bounds DEF Spaced, Off
        <5> QED BY <5>1, <5>2 DEF Starting
      <4> QED BY <2>1, <3>1, <4>1, <4>2 DEF Spaced, Apart
    <3>5. Counted'
      BY <2>1, <2>2, <2>5, StillCounted
    <3> QED BY <2>3, <3>3, <3>4, <3>5 DEF TimersInv
  <2>6. ASSUME Connect(IF Open(channel) THEN channel ELSE FreshChannel, rest) PROVE TimersInv'
    <3> DEFINE c == IF Open(channel) THEN channel ELSE FreshChannel
    <3>1. /\ c \in Channels /\ channel' = c /\ status' = [status EXCEPT ![c] = "connecting"]
          /\ events' = rest \/ (\E e \in Answers(c) : events' = Append(rest, e))
      BY <2>6, Zenon DEF Connect, Answers
    <3>2. CASE status[channel] = "opened"
      <4>1. c = channel /\ beat[c] = Off /\ status[c] # "closed"
        BY <3>2 DEF Open, TimersInv, Standing, Attempted
      <4> QED BY <2>5, <3>1, <4>1
    <3>3. CASE status[channel] = "closed" /\ reconnTimer = 0
      <4>1. c = FreshChannel /\ Free(c)
        BY <3>3, FreshChannelIsFree DEF Open
      <4>2. beat[c] = Off
        BY <4>1 DEF Free
      <4>3. \A i \in DOMAIN rest : ~(rest[i].do = "killTimer" /\ rest[i].on = c)
        <5> SUFFICES ASSUME NEW i \in DOMAIN rest, rest[i].do = "killTimer", rest[i].on = c PROVE FALSE
          OBVIOUS
        <5>1. PICK j \in DOMAIN events : rest[i] = events[j]
          BY DEF Starting, Remaining
        <5>2. events[j] \in Events
          BY DEF TimersInv, ClientInv, TypeOK
        <5>3. "on" \in DOMAIN events[j]
          BY <5>1, <5>2 DEF Events
        <5> QED BY <4>1, <5>1, <5>3 DEF Free
      <4> HIDE DEF c
      <4> QED BY <2>5, <3>1, <4>2, <4>3
    <3> QED BY <3>2, <3>3 DEF Starting
  <2> QED BY <1>2, <2>4, <2>6 DEF startConnect, Starting
<1> QED BY <1>1, <1>2

-----------------------------------------------------------------------------
(* The steps.                                                              *)
LEMMA RunEventTimers == ASSUME TimersInv, RunEvent PROVE TimersInv'
<1> DEFINE e == Head(events)
           rest == Tail(events)
<1>1. events # <<>> /\ Remaining(rest) /\ ClientInv /\ ClientInv'
  BY TailRemains, RunEventStep DEF RunEvent, TimersInv
<1>2. e \in Events /\ e = events[1] /\ 1 \in DOMAIN events /\ channel \in Channels
  BY <1>1, HeadFacts, ChannelStatus DEF ClientInv, TypeOK
<1>3. CASE e.do = "startConnect" /\ startConnect(rest, reconnTimer)
  <2>1. AtStart(rest, reconnTimer)
    BY <1>1, <1>3, StartEventAt
  <2>2. status[channel] = "opened"
    BY <1>2, <1>3 DEF TimersInv, Standing, StartsOnce
  <2> QED BY <1>1, <1>3, <2>1, <2>2, StartConnectTimers DEF Starting
<1>4. CASE /\ e.do \in {"close", "connected"}
           /\ e.on = channel /\ Open(channel)
           /\ CloseChannel(rest) \/ onConnect(rest)
  BY <1>1, <1>4, AnswerEventOn, CloseChannelTimers, OnConnectTimers
<1>5. HeldBy(rest) \subseteq HeldBy(events)
  BY <1>1 DEF HeldBy, Remaining
<1> HIDE DEF rest
\* The rest leave the connection as it is, or closed.
<1>6. ASSUME events' = rest, channel' = channel, Timers' \subseteq Timers,
             \A c \in Channels : status[c] = "closed" => status'[c] = "closed",
             Attempt' => Attempt, reconnTimer' = 0 => reconnTimer = 0
      PROVE  StartsOnce' /\ KillsTheDead' /\ Counted'
  <2>1. StartsOnce' /\ KillsTheDead'
    BY <1>1, <1>6, EventsStand
  <2>2. Held' \subseteq Held
    BY <1>5, <1>6 DEF Held, HeldBy
  <2> QED BY <1>2, <1>6, <2>1, <2>2, StillCounted
<1>7. CASE events' = rest /\ UNCHANGED <<main, loop, link, beat, retry, reachable>>
  <2>1. UNCHANGED <<main, channel, status, connectTimer, beat, reconnTimer, reconn>>
    BY <1>7 DEF link, retry
  <2>2. StartsOnce' /\ KillsTheDead' /\ Counted'
    BY <1>6, <1>7, <2>1 DEF Timers, Attempt, Attempted
  <2>3. Standing' /\ (Spaced => Spaced')
    BY <2>1, <2>2 DEF TimersInv, Standing, Spaced, Timers, Attempted, Apart
  <2> QED BY <1>1, <2>1, <2>2, <2>3 DEF TimersInv
<1>8. ASSUME e.do \in {"closesocket", "setTimer", "killTimer"} PROVE main # "getchar"
  BY <1>1, <1>8, HeadFacts, ChannelStatus DEF StartEvent, Answers
<1>9. CASE e.do = "closesocket" /\ CloseSocket(rest)
  <2>1. /\ UNCHANGED <<main, channel, beat, reconnTimer>> /\ events' = rest /\ connectTimer' = Off
        /\ status' = [status EXCEPT ![channel] = "closed"] /\ status'[channel] = "closed"
    BY <1>1, <1>2, <1>9 DEF CloseSocket, ClientInv, TypeOK
  <2>2. \A c \in Channels : status[c] = "closed" => status'[c] = "closed"
    BY <1>1, <2>1 DEF ClientInv, TypeOK
  <2>3. StartsOnce' /\ KillsTheDead' /\ Counted'
    BY <1>6, <2>1, <2>2 DEF Timers, Attempt, Attempted
  <2>4. Standing' /\ main' # "getchar"
    BY <1>8, <1>9, <2>1, <2>3 DEF Standing, Attempted
  <2> QED BY <1>1, <2>3, <2>4 DEF TimersInv
<1>10. CASE e.do = "setTimer" /\ SetTimer(e.delay, rest) /\ ~Abort
  <2>1. /\ UNCHANGED <<main, channel, beat, status, connectTimer>> /\ events' = rest
        /\ reconnTimer' = e.delay
    BY <1>10 DEF SetTimer, link
  <2>2. reconnTimer' # 0
    BY <1>2, <1>10, <2>1, EventFields, Bounds
  <2>3. StartsOnce' /\ KillsTheDead' /\ Counted'
    BY <1>6, <2>1, <2>2 DEF Timers, Attempt, Attempted
  <2>4. Standing' /\ main' # "getchar"
    BY <1>8, <1>10, <2>1, <2>2, <2>3 DEF TimersInv, Standing, Attempted
  <2> QED BY <1>1, <2>3, <2>4 DEF TimersInv
<1>11. CASE e.do = "killTimer" /\ KillTimer(e.on, rest)
  <2>1. /\ UNCHANGED <<main, channel, status, connectTimer, reconnTimer>> /\ events' = rest
        /\ beat' = [beat EXCEPT ![e.on] = Off]
    BY <1>11 DEF KillTimer, link, retry
  <2>2. status[e.on] = "closed" /\ e.on \in Channels
    BY <1>2, <1>11, EventFields DEF TimersInv, Standing, KillsTheDead
  <2>3. Timers' \subseteq Timers
    BY <1>1, <2>1 DEF Timers, ClientInv, TypeOK
  <2>4. StartsOnce' /\ KillsTheDead' /\ Counted'
    BY <1>6, <2>1, <2>3 DEF Attempt, Attempted
  <2>5. beat[channel] = Off => beat'[channel] = Off
    BY <1>1, <1>2, <2>1 DEF ClientInv, TypeOK
  <2>6. status[channel] # "closed" => beat'[channel] = beat[channel]
    BY <1>1, <1>2, <2>1, <2>2 DEF ClientInv, TypeOK
  <2>7. Standing' /\ main' # "getchar"
    BY <1>8, <1>11, <2>1, <2>4, <2>5, <2>6 DEF TimersInv, Standing, Attempted
  <2> QED BY <1>1, <2>4, <2>7 DEF TimersInv
<1>12. CASE Abort
  BY <1>12, AbortTimers
<1> QED BY <1>3, <1>4, <1>7, <1>9, <1>10, <1>11, <1>12 DEF RunEvent, CloseEvent, ConnectedEvent, rest

LEMMA AnsweredTimers ==
    ASSUME TimersInv, Answered \/ ConnectTimedOut \/ PeerCloses
    PROVE  TimersInv'
<1>1. status[channel] \in {"connecting", "connected"}
  BY DEF Answered, ConnectTimedOut, PeerCloses, TimersInv, Standing, Off
<1>2. OnConnection(events)
  BY OnTimer, PeerClosesOn DEF Answered, ConnectTimedOut, TimersInv, Off
<1>3. Remaining(events) /\ Open(channel)
  BY <1>1, AllRemain DEF Open
<1> QED BY <1>2, <1>3, CloseChannelTimers, OnConnectTimers DEF Answered, ConnectTimedOut, PeerCloses

LEMMA ReconnDueTimers == ASSUME TimersInv, ReconnDue PROVE TimersInv'
<1>1. status[channel] = "closed" /\ reconnTimer = 0
  BY DEF ReconnDue, TimersInv, Standing
<1>2. AtStart(events, Off) /\ Remaining(events)
  BY <1>1, ReconnDueAt, AllRemain DEF TimersInv
<1> QED BY <1>1, <1>2, StartConnectTimers DEF ReconnDue, Starting

LEMMA LeaveTimers == ASSUME TimersInv, Leave PROVE TimersInv'
<1>1. ClientInv'
  BY LeaveStep DEF TimersInv
<1>2. /\ channel' = channel /\ channel \in Channels /\ status'[channel'] = "closed"
      /\ events' = <<>> /\ connectTimer' = Off /\ reconnTimer' = Off /\ main' # "getchar"
      /\ \A c \in Channels : beat'[c] = Off
  BY ChannelStatus DEF Leave, TimersInv
<1>3. Timers' = {} /\ ~Attempt' /\ reconnTimer' # 0 /\ Off # 0
  BY <1>2 DEF Timers, Attempt, Attempted, Off
<1>4. Counted'
  BY <1>2, <1>3, StillCounted
<1>5. Standing'
  BY <1>2, <1>3 DEF Standing, StartsOnce, KillsTheDead, Attempted
<1> QED BY <1>1, <1>2, <1>4, <1>5 DEF TimersInv

LEMMA MainTimers == ASSUME TimersInv, Main PROVE TimersInv'
<1>1. ClientInv'
  BY MainStep DEF TimersInv
<1>2. /\ main' # "getchar" /\ UNCHANGED <<channel, status, connectTimer, beat, reconnTimer>>
      /\ events' = events \/ events' = Append(events, [do |-> "closesocket"])
  BY DEF Main, CloseSocketPosted, SetStopping, HloopStop, ClearLoop, Stop, link, retry
<1>3. \A i \in DOMAIN events' :
          \/ i \in DOMAIN events /\ events'[i] = events[i]
          \/ events'[i] = [do |-> "closesocket"]
  <2>1. events \in Seq(Events) /\ [do |-> "closesocket"] \in Events
    BY EventKinds DEF TimersInv, ClientInv, TypeOK
  <2>2. CASE events' = events
    BY <2>2
  <2>3. CASE events' = Append(events, [do |-> "closesocket"])
    BY <2>1, <2>3, AppendedEvents
  <2> QED BY <1>2, <2>2, <2>3
<1>4. StartsOnce' /\ KillsTheDead'
  BY <1>2, <1>3 DEF TimersInv, Standing, StartsOnce, KillsTheDead
<1>5. Standing'
  BY <1>2, <1>4 DEF TimersInv, Standing, Attempted
<1>6. HeldBy(events') \subseteq HeldBy(events)
  <2>1. \A c : ~IsOn([do |-> "closesocket"], c)
    BY DEF IsOn
  <2> QED BY <1>3, <2>1 DEF HeldBy
<1>7. Timers' = Timers /\ Held' \subseteq Held /\ (Attempt' <=> Attempt) /\ channel' \in Channels
  BY <1>2, <1>6, ChannelStatus DEF Timers, Held, HeldBy, Attempt, Attempted, TimersInv
<1>8. Counted'
  BY <1>2, <1>7, StillCounted
<1> QED BY <1>1, <1>2, <1>5, <1>8 DEF TimersInv

LEMMA BeatDueTimers == ASSUME TimersInv, NEW c \in Channels, BeatDue(c) PROVE TimersInv'
<1>1. /\ ClientInv /\ ClientInv' /\ channel \in Channels /\ c \in Timers
      /\ beat[c] = 0 /\ Off # 0 /\ Interval # Off
      /\ UNCHANGED <<main, channel, status, connectTimer, reconnTimer>>
  BY BeatDueStep, ChannelStatus, Bounds DEF BeatDue, TimersInv, link, retry, Timers, Off
<1>2. ASSUME status[c] # "connected" PROVE status[c] = "closed"
  BY <1>1, <1>2, ChannelStatus DEF TimersInv, ClientInv, OthersClosed, Standing, Attempted
<1>3. /\ beat'[c] \in {Off, Interval} /\ \A d \in Channels : d # c => beat'[d] = beat[d]
      /\ status[c] = "connected" => beat'[c] = Interval
      /\ status[c] # "connected" /\ isRunning => beat'[c] = Off
  BY <1>1 DEF BeatDue, ClientInv, TypeOK
<1>4. \A i \in DOMAIN events' :
          \/ i \in DOMAIN events /\ events'[i] = events[i]
          \/ events'[i] = [do |-> "close", on |-> c]
          \/ events'[i] = [do |-> "killTimer", on |-> c] /\ status[c] # "connected"
  <2>1. \/ events' = events
        \/ events' = Append(events, [do |-> "close", on |-> c])
        \/ events' = Append(events, [do |-> "killTimer", on |-> c]) /\ status[c] # "connected"
    BY DEF BeatDue
  <2>2. [do |-> "close", on |-> c] \in Events /\ [do |-> "killTimer", on |-> c] \in Events
    BY EventKinds DEF Answers
  <2>3. events \in Seq(Events)
    BY <1>1 DEF ClientInv, TypeOK
  <2>4. CASE events' = events
    BY <2>4
  <2>5. CASE events' = Append(events, [do |-> "close", on |-> c])
    BY <2>2, <2>3, <2>5, AppendedEvents
  <2>6. CASE events' = Append(events, [do |-> "killTimer", on |-> c]) /\ status[c] # "connected"
    BY <2>2, <2>3, <2>6, AppendedEvents
  <2> QED BY <2>1, <2>4, <2>5, <2>6
<1>5. StartsOnce' /\ KillsTheDead'
  BY <1>1, <1>2, <1>4 DEF TimersInv, Standing, StartsOnce, KillsTheDead
<1>6. Standing'
  BY <1>1, <1>3, <1>5 DEF TimersInv, Standing, Attempted
<1>7. Timers' \subseteq Timers
  BY <1>1, <1>3 DEF Timers
<1>8. Counted'
  <2>1. HeldBy(events') \subseteq HeldBy(events) \cup {c}
    <3>1. ASSUME NEW k, NEW d, IsOn([do |-> k, on |-> c], d) PROVE d = c
      BY <3>1 DEF IsOn
    <3> QED BY <1>4, <3>1 DEF HeldBy
  <2>2. Held' \subseteq Held
    BY <1>1, <1>7, <2>1 DEF Held, HeldBy
  <2>3. Attempt' <=> Attempt
    BY <1>1 DEF Attempt, Attempted
  <2> QED BY <1>1, <1>7, <2>2, <2>3, StillCounted
<1>9. ASSUME main' = "getchar" PROVE Spaced'
  <2>1. Spaced /\ isRunning
    BY <1>1, <1>9 DEF TimersInv, isRunning
  <2>2. CASE status[c] # "connected"
    <3>1. \A d \in Timers' : d # c /\ d \in Timers /\ beat'[d] = beat[d]
      BY <1>1, <1>3, <1>7, <2>1, <2>2 DEF Timers
    <3>2. status[channel] = "connected" => beat'[channel] = beat[channel]
      BY <1>1, <1>3, <2>2
    <3> QED BY <1>1, <2>1, <3>1, <3>2 DEF Spaced, Attempted, Apart
  <2>3. CASE status[c] = "connected"
    <3>1. c = channel
      BY <1>1, <2>3 DEF ClientInv, OthersClosed
    <3>2. ASSUME NEW d \in Timers, d # c PROVE FALSE
      <4>1. beat[d] + MinDelay <= 0
        BY <1>1, <2>1, <2>3, <3>1, <3>2 DEF Spaced
      <4>2. beat[d] \in Nat
        BY <1>1, TimerOf
      <4> QED BY <4>1, <4>2, Bounds
    <3>3. \A d \in Timers' : d = channel'
      BY <1>1, <1>7, <3>1, <3>2
    <3>4. status'[channel'] = "connected"
      BY <1>1, <2>3, <3>1
    <3> QED BY <3>3, <3>4 DEF Spaced, Attempted
  <2> QED BY <2>2, <2>3
<1> QED BY <1>1, <1>6, <1>8, <1>9 DEF TimersInv

LEMMA TickTimers == ASSUME TimersInv, Tick PROVE TimersStep'
<1> DEFINE Less(t) == IF t = Off THEN Off ELSE t - 1
<1>1. ClientInv /\ ClientInv' /\ channel \in Channels /\ Spaced /\ main' = "getchar"
  BY TickStep, ChannelStatus DEF TimersInv, Tick
<1>2. /\ reconnTimer # 0 /\ reconnTimer' = Less(reconnTimer)
      /\ connectTimer' = Less(connectTimer)
      /\ \A c \in Channels : beat[c] # 0 /\ beat'[c] = Less(beat[c])
      /\ UNCHANGED <<main, channel, status, events>>
  BY DEF Tick
<1>3. reconnTimer \in Off..MaxDelay /\ \A c \in Channels : beat[c] \in Off..Interval
  BY <1>1 DEF ClientInv, TypeOK
<1>4. /\ \A c \in Channels : beat'[c] = Off <=> beat[c] = Off
      /\ \A c \in Channels : beat[c] # Off => beat'[c] = beat[c] - 1
      /\ reconnTimer' = Off <=> reconnTimer = Off
      /\ reconnTimer # Off => reconnTimer' = reconnTimer - 1
      /\ connectTimer = Off => connectTimer' = Off
  BY <1>2, <1>3, Bounds DEF Off
<1> HIDE DEF Less
<1>5. Timers' = Timers /\ (Attempted' <=> Attempted) /\ status'[channel'] = status[channel]
  BY <1>2, <1>4 DEF Timers, Attempted
<1>6. Standing'
  <2>1. reconnTimer' = 0 => status[channel] = "closed"
    <3>1. CASE reconnTimer = Off
      BY <1>4, <3>1 DEF Off
    <3>2. CASE reconnTimer # Off
      BY <1>1, <1>2, <3>2, ChannelStatus DEF ClientInv, Cycle, Opened, Connecting, Connected
    <3> QED BY <3>1, <3>2
  <2>2. StartsOnce' /\ KillsTheDead'
    BY <1>2 DEF TimersInv, Standing, StartsOnce, KillsTheDead
  <2> QED BY <1>1, <1>2, <1>4, <1>5, <2>1, <2>2 DEF TimersInv, Standing
<1>7. Spaced'
  <2>1. \A c \in Timers : c \in Channels /\ beat[c] \in Nat /\ beat'[c] = beat[c] - 1
    BY <1>1, <1>4, TimerOf DEF Timers
  <2>2. ASSUME NEW c \in Timers, NEW d \in Timers, Apart(beat[c], beat[d])
        PROVE  beat'[c] + MinDelay <= beat'[d] \/ beat'[d] + MinDelay <= beat'[c]
    BY <2>1, <2>2, Bounds DEF Apart
  <2>3. ASSUME NEW c \in Timers, status[channel] = "connected", c # channel
        PROVE  beat'[c] + MinDelay <= beat'[channel]
    <3>1. channel \in Timers /\ beat[c] + MinDelay <= beat[channel]
      BY <1>1, <2>3 DEF TimersInv, Standing, Timers, Spaced
    <3> QED BY <2>1, <3>1, Bounds
  <2>4. ASSUME NEW c \in Timers, Attempted PROVE beat'[c] + MinDelay <= Interval
    <3>1. beat[c] + MinDelay <= Interval
      BY <1>1, <2>4 DEF Spaced
    <3> QED BY <2>1, <3>1, Bounds
  <2>5. ASSUME NEW c \in Timers, status[channel] = "closed", reconnTimer # Off
        PROVE  beat'[c] + MinDelay <= Interval + reconnTimer'
    <3>1. beat[c] + MinDelay <= Interval + reconnTimer
      BY <1>1, <2>5 DEF Spaced
    <3>2. reconnTimer' = reconnTimer - 1 /\ reconnTimer \in Int
      BY <1>3, <1>4, <2>5, Bounds DEF Off
    <3> QED BY <2>1, <3>1, <3>2, Bounds
  <2>6. \A c, d \in Timers' : c # d => beat'[c] + MinDelay <= beat'[d] \/ beat'[d] + MinDelay <= beat'[c]
    BY <1>1, <1>5, <2>2 DEF Spaced
  <2>7. \A c \in Timers' :
           /\ status'[channel'] = "connected" /\ c # channel' => beat'[c] + MinDelay <= beat'[channel']
           /\ Attempted' => beat'[c] + MinDelay <= Interval
           /\ status'[channel'] = "closed" /\ reconnTimer' # Off =>
                  beat'[c] + MinDelay <= Interval + reconnTimer'
    BY <1>2, <1>4, <1>5, <2>3, <2>4, <2>5
  <2> QED BY <2>6, <2>7 DEF Spaced, Apart
<1> QED BY <1>1, <1>6, <1>7 DEF TimersStep

\* The server comes and goes, or nothing happens.
LEMMA OutsideTimers ==
    ASSUME TimersInv, ServerFlips \/ UNCHANGED vars
    PROVE  TimersInv'
<1>1. ClientInv'
  BY ClientStep DEF TimersInv, Next
<1>2. UNCHANGED <<main, events, channel, status, connectTimer, beat, reconnTimer>>
  BY DEF ServerFlips, vars, link, retry
<1> QED BY <1>1, <1>2 DEF TimersInv, Standing, StartsOnce, KillsTheDead, Spaced, Counted, Timers, Attempt,
                          Attempted, Held, HeldBy, IsOn, Most, Apart

LEMMA TimersInit == Init => TimersStep
<1> SUFFICES ASSUME Init PROVE TimersStep
  OBVIOUS
<1>1. ClientInv /\ main = "getchar" /\ status[channel] = "opened"
  BY ClientInit DEF Init
<1>2. Timers = {} /\ reconnTimer # 0 /\ beat[channel] = Off /\ connectTimer = Off
  BY DEF Init, Timers, Off
<1>3. events = <<[do |-> "startConnect"]>>
  BY DEF Init
<1>4. StartsOnce /\ KillsTheDead
  BY <1>1, <1>3 DEF StartsOnce, KillsTheDead
<1> QED BY <1>1, <1>2, <1>4 DEF TimersStep, Standing, Spaced

LEMMA TimersCounted == TimersStep => TimersInv
BY SpacedIsCounted DEF TimersStep, TimersInv

LEMMA TimersNext == TimersInv /\ [Next]_vars => TimersStep'
<1> SUFFICES ASSUME TimersInv, [Next]_vars PROVE TimersStep'
  OBVIOUS
<1>1. CASE Tick
  BY <1>1, TickTimers
<1>2. ASSUME TimersInv' PROVE TimersStep'
  BY <1>2 DEF TimersInv, TimersStep
<1>3. CASE RunEvent \/ ReconnDue
  BY <1>2, <1>3, RunEventTimers, ReconnDueTimers
<1>4. CASE Answered \/ ConnectTimedOut \/ PeerCloses
  BY <1>2, <1>4, AnsweredTimers
<1>5. CASE \E c \in Channels : BeatDue(c)
  BY <1>2, <1>5, BeatDueTimers
<1>6. CASE Leave \/ Main
  BY <1>2, <1>6, LeaveTimers, MainTimers
<1>7. CASE ServerFlips \/ UNCHANGED vars
  BY <1>2, <1>7, OutsideTimers
<1> HIDE DEF TimersInv, TimersStep
<1> QED BY <1>1, <1>3, <1>4, <1>5, <1>6, <1>7 DEF Next, Callback

(* The timers of the client's connections are what TimersInv says, from    *)
(* the first connection to the end of stop: an inductive invariant.        *)
THEOREM TimersInvariant == Spec => []TimersInv
<1> QED BY TimersInit, TimersCounted, TimersNext, PTL DEF Spec

(* Reconnecting (TcpClient.h, startReconnect) leaves timers of connections *)
(* that are gone, which only kill themselves when they are next due: never *)
(* more than fit into one interval, whatever the network does.             *)
THEOREM TimersAreFew == Spec => []FewTimers
<1>1. TimersInv => FewTimers
  BY DEF TimersInv, Counted, Timers, Most, FewTimers
<1> QED BY <1>1, TimersInvariant, PTL

(* createsocket finds a socket channel that no timer and no event holds:   *)
(* the channels of the model are enough for every run of the client.       *)
THEOREM FreshChannelIsThere == Spec => []FreshIsThere
<1>1. TimersInv => FreshIsThere
  BY FreshChannelIsFree DEF FreshIsThere
<1> QED BY <1>1, TimersInvariant, PTL
=============================================================================
