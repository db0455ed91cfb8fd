---------------------- MODULE MapServerLifecycleProofs ----------------------
(* Proofs about MapServerLifecycle.  One inductive invariant: every loop   *)
(* object is coherent, the main thread's statement bounds what the threads *)
(* may be doing, the acceptor outlives no worker, and the events that wait *)
(* are those the connections say.  On top of it, the refinement of         *)
(* MapService and what the joins of the main thread wait for.              *)
EXTENDS MapServerLifecycle, TLAPS

\* In the callback that calls EventLoop::stop, and anywhere from the loop's
\* status kRunning on.
StoppingSelf == {"mark", "tell", "clear"}
InLoop == {"enter", "entry", "poll", "cbs"} \cup StoppingSelf

\* What the fields of a loop say of one another.
Coherent(r) ==
    /\ r.thread \notin {"none", "gone"} => r.joinable
    /\ r.thread = "none" => r.tstat = kInitialized /\ r.owned /\ r.stop = "no" /\ ~r.quit
    /\ r.thread = "begin" => r.tstat \in {kStarting, kStopping}
    /\ r.thread \in InLoop \cup {"run", "ended"} => r.tstat \in {kStarted, kStopping}
    /\ r.thread = "gone" => r.tstat \in {kStopping, kStopped}
    /\ r.thread \in {"none", "begin", "run"} =>
           /\ r.stop \in {"no", "set"}
           /\ r.owned => r.lstat = kInitialized
           /\ ~r.owned => r.lstat = kStopped \/ (r.quit /\ r.lstat = kStopping)
    /\ r.thread \in InLoop =>
           /\ r.lstat \in {kRunning, kStopping}
           /\ ~r.owned \/ r.stop \in {"tell", "clear"} \/ r.thread \in {"tell", "clear"} =>
                  r.lstat = kStopping
    /\ r.thread \in {"ended", "gone"} =>
           /\ r.lstat = kStopped \/ (r.quit /\ r.lstat = kStopping)
           /\ ~r.owned \/ r.stop = "clear"
    /\ r.thread \in {"poll", "cbs"} /\ r.hloop = "STOP" => ~r.owned \/ r.stop = "clear"
    /\ r.stop \in {"mark", "tell"} => r.owned \/ r.quit
    /\ r.thread \in StoppingSelf => r.quit
    /\ r.ready => r.thread \in {"poll", "cbs", "ended", "gone"} \cup StoppingSelf

\* On its way into the loop for the first time.
Entering(r) == r.owned /\ r.thread \in {"begin", "run"}

\* It may still come to accept, or to be given, a connection.
Serving(r) == r.thread \in InLoop \/ (r.owned /\ r.thread \notin {"ended", "gone"})

LoopInv == \A l \in Loops : Coherent(loop[l])

\* The statement that joins a loop.
JoinOf(l) ==
    CASE l = Udp -> "join udp"
      [] l = Acceptor -> "join acceptor"
      [] OTHER -> "join pool"

\* Main is in the stop of a loop only before it joins it, and only the loop
\* of UDP stops itself.
StopInv ==
    \A l \in Loops :
        /\ loop[l].stop # "no" => main \in {JoinOf(l)} \cup Died
        /\ loop[l].quit => l = Udp

\* An object whose constructor returned early, or has not returned yet.
UnbuiltInv ==
    /\ main \in {"udp", "tcp", "buffer"} => ~built
    /\ ~built =>
          /\ main \in {"udp", "tcp", "buffer", "up", "stop udp", "halt udp",
                       "halt acceptor", "halt pool", "stopped", "done"}
          /\ \A l \in Loops : loop[l].thread = "none"
          /\ pool = kInitialized
          /\ udp # "reading"
          /\ listen # "accepting"
          /\ \A c \in Clients : conn[c] \in {"none", "backlog", "refused"}
    /\ main \in {"udp", "tcp"} => listen = "none"
    /\ main = "buffer" => listen = "listening"

\* Main waits for a loop on its way in, and stops the pool only when it runs.
MainInv ==
    /\ Entering(loop[Udp]) => main \in {"wait udp"} \cup Died
    /\ Entering(loop[Acceptor]) => main \in {"wait acceptor"} \cup Died
    /\ \A w \in Workers : Entering(loop[w]) => main \in {"wait pool"} \cup Died
    /\ pool = kStarting => main \in {"wait pool"} \cup Died
    /\ pool \in {kStarted, kRunning, kStopping} => \A w \in Workers : loop[w].ready
    /\ pool = kStopped => \A w \in Workers : loop[w].thread = "gone"
    /\ ~loop[Udp].ready /\ ~loop[Acceptor].ready
    /\ main = "done" => \A l \in Loops : loop[l].thread \in {"none", "gone"}

\* The acceptor is through before a worker loses its loop.
AcceptorInv ==
    /\ loop[Acceptor].tstat = kStopping =>
          loop[Acceptor].thread = "gone" \/ main \in {"join acceptor"} \cup Died
    /\ loop[Acceptor].thread = "none" =>
          \/ ~built
          \/ main \in {"start udp", "wait udp", "start pool", "wait pool", "start acceptor"} \cup Died
    /\ main \in {"halt pool", "join pool"} => loop[Acceptor].thread \in {"none", "gone"}
    /\ Serving(loop[Acceptor]) =>
          /\ \A w \in Workers : loop[w].owned
          /\ built => listen \in {"listening", "accepting"}

EventsOf(l) ==
    CASE l = Udp -> {"startRecv", "recvAgain", "closeUdp"}
      [] l = Acceptor -> {"startAccept"}
      [] OTHER -> {"ready"} \cup Clients

\* A connection waits in the queue of its worker, once.
WaitsOnce(q, w) ==
    \A i \in 1 .. Len(q) :
        q[i] \in Clients =>
            /\ conn[q[i]] = "posted"
            /\ worker[q[i]] = w
            /\ \A j \in 1 .. Len(q) : q[j] = q[i] => j = i

EventInv ==
    /\ \A l \in Loops : events[l] \in Seq(EventsOf(l))
    /\ \A w \in Workers : WaitsOnce(events[w], w)

LifecycleInv ==
    /\ TypeOK /\ LoopInv /\ UnbuiltInv /\ MainInv /\ AcceptorInv /\ StopInv /\ EventInv /\ PostsAlive

-----------------------------------------------------------------------------
(* The loop objects.                                                       *)

USE DEF kInitialized, kStarting, kStarted, kRunning, kStopping, kStopped, KStatus, Died

\* Setting one field.
LEMMA Updates ==
    ASSUME NEW r \in LoopObjects
    PROVE  /\ \A v \in {"none", "begin", "run", "enter", "entry", "poll", "cbs",
                       "mark", "tell", "clear", "ended", "gone"} :
                [r EXCEPT !.thread = v] \in LoopObjects
           /\ \A v \in BOOLEAN : /\ [r EXCEPT !.joinable = v] \in LoopObjects
                               /\ [r EXCEPT !.ready = v] \in LoopObjects
                               /\ [r EXCEPT !.owned = v] \in LoopObjects
                               /\ [r EXCEPT !.quit = v] \in LoopObjects
           /\ \A v \in KStatus : /\ [r EXCEPT !.tstat = v] \in LoopObjects
                               /\ [r EXCEPT !.lstat = v] \in LoopObjects
           /\ \A v \in {"STOP", "RUNNING"} : [r EXCEPT !.hloop = v] \in LoopObjects
           /\ \A v \in {"no", "set", "mark", "tell", "clear"} : [r EXCEPT !.stop = v] \in LoopObjects
<1>1. \A v \in {"none", "begin", "run", "enter", "entry", "poll", "cbs",
               "mark", "tell", "clear", "ended", "gone"} : [r EXCEPT !.thread = v] \in LoopObjects
  BY DEF LoopObjects
<1>2. \A v \in BOOLEAN : /\ [r EXCEPT !.joinable = v] \in LoopObjects
                        /\ [r EXCEPT !.ready = v] \in LoopObjects
  BY DEF LoopObjects
<1>3. \A v \in BOOLEAN : /\ [r EXCEPT !.owned = v] \in LoopObjects
                        /\ [r EXCEPT !.quit = v] \in LoopObjects
  BY DEF LoopObjects
<1>4. \A v \in KStatus : /\ [r EXCEPT !.tstat = v] \in LoopObjects
                        /\ [r EXCEPT !.lstat = v] \in LoopObjects
  BY DEF LoopObjects
<1>5. /\ \A v \in {"STOP", "RUNNING"} : [r EXCEPT !.hloop = v] \in LoopObjects
      /\ \A v \in {"no", "set", "mark", "tell", "clear"} : [r EXCEPT !.stop = v] \in LoopObjects
  BY DEF LoopObjects
<1> QED BY <1>1, <1>2, <1>3, <1>4, <1>5

LEMMA StatusDistinct ==
    /\ kStarting \notin {kStarted, kRunning, kStopping} /\ kStarting # kStopped
    /\ kStopped # kStopping /\ kInitialized \notin {kStarted, kRunning}
OBVIOUS

LEMMA RunningStatus ==
    \A x \in KStatus : x >= kRunning => x # kInitialized
OBVIOUS

\* Coherent, as the steps below use it.
LEMMA CoherentFacts ==
    ASSUME NEW r \in LoopObjects, Coherent(r)
    PROVE  /\ r.thread = "none" => r.tstat = kInitialized /\ r.owned /\ r.stop = "no" /\ ~Stoppable(r.tstat)
           /\ r.tstat = kInitialized => r.thread = "none"
           /\ r.tstat = kStopped => r.thread = "gone"
           /\ Startable(r.tstat) => r.thread \in {"none", "gone"}
           /\ ~Stoppable(r.tstat) /\ r.tstat # kStopping => r.thread \in {"none", "gone"}
           /\ r.thread \notin {"none", "gone"} => r.joinable
           /\ Entering(r) => r.lstat = kInitialized
           /\ r.thread \in {"ended", "gone"} => ~r.owned \/ r.stop = "clear"
           /\ r.thread = "ended" /\ ~r.quit => r.lstat = kStopped
           /\ r.ready => r.thread \in {"poll", "cbs", "ended", "gone"} \cup StoppingSelf
BY DEF Coherent, LoopObjects, InLoop, StoppingSelf, Startable, Stoppable, Entering

LEMMA SpawnedCoherent ==
    ASSUME NEW r \in LoopObjects, Coherent(r), r.thread \in {"none", "gone"}, ~r.ready, r.stop = "no"
    PROVE  /\ Spawned(r) \in LoopObjects
           /\ Coherent(Spawned(r))
           /\ Spawned(r).thread = "begin"
           /\ Spawned(r).tstat = kStarting
           /\ Spawned(r).owned = r.owned
           /\ Spawned(r).ready = FALSE
           /\ Spawned(r).stop = "no"
           /\ Spawned(r).quit = r.quit
<1>1. Spawned(r) \in LoopObjects
  BY Updates DEF Spawned
<1> QED BY <1>1 DEF Spawned, Coherent, LoopObjects, InLoop, StoppingSelf

LEMMA NewLoopCoherent ==
    /\ NewLoop \in LoopObjects
    /\ Coherent(NewLoop)
    /\ NewLoop.stop = "no" /\ ~NewLoop.quit
    /\ Spawned(NewLoop) \in LoopObjects
    /\ Coherent(Spawned(NewLoop))
    /\ Spawned(NewLoop).owned
    /\ Spawned(NewLoop).ready = FALSE
    /\ Spawned(NewLoop).thread = "begin"
    /\ Spawned(NewLoop).stop = "no"
    /\ ~Spawned(NewLoop).quit
<1>1. /\ NewLoop \in LoopObjects /\ Coherent(NewLoop) /\ ~NewLoop.ready
      /\ NewLoop.thread = "none" /\ NewLoop.owned /\ NewLoop.stop = "no" /\ ~NewLoop.quit
  BY DEF NewLoop, Coherent, LoopObjects, InLoop, StoppingSelf
<1> QED BY <1>1, SpawnedCoherent

\* The statements of a stop of the main thread.
LEMMA SetCoherent ==
    ASSUME NEW r \in LoopObjects, Coherent(r), ~Entering(r), r.stop = "set"
    PROVE  /\ ThreadStopped(r) \in LoopObjects
           /\ Coherent(ThreadStopped(r))
<1>1. ThreadStopped(r) \in LoopObjects
  BY Updates DEF ThreadStopped
<1> QED BY <1>1 DEF ThreadStopped, Entering, Coherent, LoopObjects, InLoop, StoppingSelf

LEMMA MarkCoherent ==
    ASSUME NEW r \in LoopObjects, Coherent(r), r.stop = "mark"
    PROVE  /\ [r EXCEPT !.lstat = kStopping, !.stop = "tell"] \in LoopObjects
           /\ Coherent([r EXCEPT !.lstat = kStopping, !.stop = "tell"])
<1>1. [r EXCEPT !.lstat = kStopping, !.stop = "tell"] \in LoopObjects
  BY Updates
<1> QED BY <1>1 DEF Coherent, LoopObjects, InLoop, StoppingSelf

LEMMA TellCoherent ==
    ASSUME NEW r \in LoopObjects, Coherent(r), r.stop = "tell"
    PROVE  /\ r.owned => /\ [r EXCEPT !.hloop = "STOP", !.stop = "clear"] \in LoopObjects
                         /\ Coherent([r EXCEPT !.hloop = "STOP", !.stop = "clear"])
           /\ ~r.owned => /\ [r EXCEPT !.stop = "clear"] \in LoopObjects
                          /\ Coherent([r EXCEPT !.stop = "clear"])
<1>1. /\ [r EXCEPT !.hloop = "STOP", !.stop = "clear"] \in LoopObjects
      /\ [r EXCEPT !.stop = "clear"] \in LoopObjects
  BY Updates
<1> QED BY <1>1 DEF Coherent, LoopObjects, InLoop, StoppingSelf

LEMMA ClearCoherent ==
    ASSUME NEW r \in LoopObjects, Coherent(r), r.stop = "clear"
    PROVE  /\ [r EXCEPT !.owned = FALSE, !.stop = "no"] \in LoopObjects
           /\ Coherent([r EXCEPT !.owned = FALSE, !.stop = "no"])
<1>1. [r EXCEPT !.owned = FALSE, !.stop = "no"] \in LoopObjects
  BY Updates
<1> QED BY <1>1 DEF Coherent, LoopObjects, InLoop, StoppingSelf

\* What a statement of stop leaves of a loop.
Stops(r, q) ==
    /\ q.thread = r.thread /\ q.ready = r.ready /\ q.quit = r.quit
    /\ q.owned => r.owned
    /\ q.tstat \in {r.tstat, kStopping}

LEMMA StopsFacts ==
    ASSUME NEW r \in LoopObjects
    PROVE  /\ Stops(r, ThreadStopped(r))
           /\ Stops(r, [r EXCEPT !.lstat = kStopping, !.stop = "tell"])
           /\ Stops(r, [r EXCEPT !.hloop = "STOP", !.stop = "clear"])
           /\ Stops(r, [r EXCEPT !.stop = "clear"])
           /\ Stops(r, [r EXCEPT !.owned = FALSE, !.stop = "no"])
           /\ Stops(r, [r EXCEPT !.stop = "set"])
BY DEF Stops, ThreadStopped, LoopObjects

\* The statements of a stop of the loop's own.
LEMMA SelfCoherent ==
    ASSUME NEW r \in LoopObjects, Coherent(r)
    PROVE  /\ r.thread = "cbs" => SelfStopped(r) \in LoopObjects /\ Coherent(SelfStopped(r))
           /\ r.thread = "mark" =>
                 /\ [r EXCEPT !.thread = "tell", !.lstat = kStopping] \in LoopObjects
                 /\ Coherent([r EXCEPT !.thread = "tell", !.lstat = kStopping])
           /\ r.thread = "tell" =>
                 /\ [r EXCEPT !.thread = "clear", !.hloop = "STOP"] \in LoopObjects
                 /\ Coherent([r EXCEPT !.thread = "clear", !.hloop = "STOP"])
                 /\ [r EXCEPT !.thread = "clear"] \in LoopObjects
                 /\ Coherent([r EXCEPT !.thread = "clear"])
           /\ r.thread = "clear" =>
                 /\ [r EXCEPT !.thread = "cbs", !.owned = FALSE] \in LoopObjects
                 /\ Coherent([r EXCEPT !.thread = "cbs", !.owned = FALSE])
<1>1. /\ SelfStopped(r) \in LoopObjects
      /\ [r EXCEPT !.thread = "tell", !.lstat = kStopping] \in LoopObjects
      /\ [r EXCEPT !.thread = "clear", !.hloop = "STOP"] \in LoopObjects
      /\ [r EXCEPT !.thread = "clear"] \in LoopObjects
      /\ [r EXCEPT !.thread = "cbs", !.owned = FALSE] \in LoopObjects
  BY Updates DEF SelfStopped
<1> USE DEF Coherent, LoopObjects, InLoop, StoppingSelf
<1>2. r.thread = "cbs" => Coherent(SelfStopped(r))
  BY DEF SelfStopped
<1>3. r.thread = "mark" => Coherent([r EXCEPT !.thread = "tell", !.lstat = kStopping])
  OBVIOUS
<1>4. r.thread = "tell" => /\ Coherent([r EXCEPT !.thread = "clear", !.hloop = "STOP"])
                          /\ Coherent([r EXCEPT !.thread = "clear"])
  OBVIOUS
<1>5. r.thread = "clear" => Coherent([r EXCEPT !.thread = "cbs", !.owned = FALSE])
  OBVIOUS
<1> HIDE DEF Coherent, LoopObjects
<1> QED BY <1>1, <1>2, <1>3, <1>4, <1>5

\* What it leaves of it.
Quits(r, q) ==
    /\ q.ready = r.ready /\ q.tstat = r.tstat /\ q.stop = r.stop
    /\ r.thread \in {"cbs"} \cup StoppingSelf /\ q.thread \in {"cbs"} \cup StoppingSelf
    /\ q.owned => r.owned

LEMMA QuitsFacts ==
    ASSUME NEW r \in LoopObjects
    PROVE  /\ r.thread = "cbs" => Quits(r, SelfStopped(r))
           /\ r.thread = "mark" => Quits(r, [r EXCEPT !.thread = "tell", !.lstat = kStopping])
           /\ r.thread = "tell" => /\ Quits(r, [r EXCEPT !.thread = "clear", !.hloop = "STOP"])
                                   /\ Quits(r, [r EXCEPT !.thread = "clear"])
           /\ r.thread = "clear" => Quits(r, [r EXCEPT !.thread = "cbs", !.owned = FALSE])
BY DEF Quits, SelfStopped, StoppingSelf, LoopObjects

-----------------------------------------------------------------------------
THEOREM LifecycleInit == Init => LifecycleInv
<1> SUFFICES ASSUME Init PROVE LifecycleInv
  OBVIOUS
<1>1. TypeOK
  <2>1. loop \in [Loops -> LoopObjects]
    BY NewLoopCoherent DEF Init
  <2>2. calls \in 0 .. MaxCalls
    BY LifecycleAssumption DEF Init
  <2>3. events \in [Loops -> Seq({"startRecv", "recvAgain", "closeUdp", "ready", "startAccept"} \cup Clients)]
    BY DEF Init
  <2> QED BY <2>1, <2>2, <2>3 DEF Init, TypeOK
<1>2. LoopInv
  BY NewLoopCoherent DEF Init, LoopInv
<1>3. UnbuiltInv /\ MainInv /\ AcceptorInv /\ StopInv /\ PostsAlive
  BY DEF Init, UnbuiltInv, MainInv, AcceptorInv, StopInv, PostsAlive, NewLoop, InLoop, StoppingSelf,
         Entering, Serving, Loops
<1>4. EventInv
  <2>1. \A l \in Loops : events[l] = <<>>
    BY DEF Init
  <2>a. ASSUME NEW S PROVE <<>> \in Seq(S)
    OBVIOUS
  <2>2. \A l \in Loops : events[l] \in Seq(EventsOf(l))
    BY <2>1, <2>a
  <2>3. \A w \in Workers : WaitsOnce(events[w], w)
    BY <2>1 DEF WaitsOnce, Loops
  <2> QED BY <2>2, <2>3 DEF EventInv
<1> QED BY <1>1, <1>2, <1>3, <1>4 DEF LifecycleInv

-----------------------------------------------------------------------------
(* The statements of the main thread.                                      *)

LEMMA LoopFacts ==
    ASSUME TypeOK, LoopInv
    PROVE  \A l \in Loops : loop[l] \in LoopObjects /\ Coherent(loop[l])
BY DEF TypeOK, LoopInv

\* Main in the stop of no loop.
LEMMA ElsewhereFacts ==
    ASSUME TypeOK, StopInv,
           main \notin {"join udp", "join acceptor", "join pool"} \cup Died
    PROVE  \A l \in Loops : loop[l].stop = "no"
BY DEF StopInv, JoinOf

LEMMA CreateUdpStep == LifecycleInv /\ CreateUdp => LifecycleInv'
<1> SUFFICES ASSUME LifecycleInv, CreateUdp PROVE LifecycleInv'
  OBVIOUS
<1>1. TypeOK'
  <2>1. /\ main' \in {"tcp", "up"} /\ (udp' = "bound" \/ udp' = udp)
        /\ built' = built /\ dying' = dying /\ calls' = calls /\ protobuf' = protobuf
        /\ loop' = loop /\ events' = events /\ handling' = handling /\ pool' = pool
        /\ listen' = listen /\ conn' = conn /\ worker' = worker /\ pending' = pending
    BY DEF CreateUdp, At
  <2>2. TypeOK
    BY DEF LifecycleInv
  <2> HIDE DEF KStatus
  <2> QED BY <2>1, <2>2, ZenonT(90) DEF TypeOK
<1> USE DEF LifecycleInv, CreateUdp, At
<1>2. LoopInv' /\ EventInv' /\ PostsAlive'
  BY DEF LoopInv, EventInv, WaitsOnce, PostsAlive
<1>3. UnbuiltInv' /\ MainInv' /\ AcceptorInv' /\ StopInv'
  BY ElsewhereFacts DEF UnbuiltInv, MainInv, AcceptorInv, StopInv
<1> QED BY <1>1, <1>2, <1>3

LEMMA CreateTcpStep == LifecycleInv /\ CreateTcp => LifecycleInv'
<1> SUFFICES ASSUME LifecycleInv, CreateTcp PROVE LifecycleInv'
  OBVIOUS
<1>1. TypeOK'
  <2>1. /\ main' \in {"buffer", "up"} /\ (listen' = "listening" \/ listen' = listen)
        /\ built' = built /\ dying' = dying /\ calls' = calls /\ protobuf' = protobuf
        /\ loop' = loop /\ events' = events /\ handling' = handling /\ pool' = pool
        /\ udp' = udp /\ conn' = conn /\ worker' = worker /\ pending' = pending
    BY DEF CreateTcp, At
  <2>2. TypeOK
    BY DEF LifecycleInv
  <2> HIDE DEF KStatus
  <2> QED BY <2>1, <2>2, ZenonT(90) DEF TypeOK
<1> USE DEF LifecycleInv, CreateTcp, At
<1>2. LoopInv' /\ EventInv' /\ PostsAlive'
  BY DEF LoopInv, EventInv, WaitsOnce, PostsAlive
<1>3. UnbuiltInv' /\ MainInv' /\ AcceptorInv' /\ StopInv'
  BY ElsewhereFacts DEF UnbuiltInv, MainInv, AcceptorInv, StopInv
<1> QED BY <1>1, <1>2, <1>3

LEMMA SetBufferStep == LifecycleInv /\ SetBuffer => LifecycleInv'
<1> SUFFICES ASSUME LifecycleInv, SetBuffer PROVE LifecycleInv'
  OBVIOUS
<1>1. TypeOK'
  <2>1. TypeOK
    BY DEF LifecycleInv
  <2>2. built \in BOOLEAN
    BY <2>1, Zenon DEF TypeOK
  <2>3. /\ main' \in {"start udp", "up"} /\ (built' = TRUE \/ built' = built)
        /\ dying' = dying /\ calls' = calls /\ protobuf' = protobuf
        /\ loop' = loop /\ events' = events /\ handling' = handling /\ pool' = pool
        /\ udp' = udp /\ listen' = listen /\ conn' = conn /\ worker' = worker
        /\ pending' = pending
    BY DEF SetBuffer, At, network
  <2>4. built' \in BOOLEAN
    BY <2>2, <2>3
  <2> HIDE DEF KStatus
  <2> QED BY <2>1, <2>3, <2>4, ZenonT(90) DEF TypeOK
<1>2. LoopInv' /\ EventInv' /\ PostsAlive'
  <2>1. loop' = loop /\ events' = events /\ conn' = conn /\ worker' = worker
    BY DEF SetBuffer, network
  <2>2. LoopInv /\ EventInv /\ PostsAlive
    BY DEF LifecycleInv
  <2> QED BY <2>1, <2>2 DEF LoopInv, EventInv, WaitsOnce, PostsAlive
<1> USE DEF LifecycleInv, SetBuffer, At, network
<1>3. ~built /\ main = "buffer"
  BY DEF UnbuiltInv
<1>4. UnbuiltInv'
  BY <1>3 DEF UnbuiltInv
<1>5. MainInv'
  BY <1>3 DEF UnbuiltInv, MainInv, Entering
<1>7. StopInv'
  <2>1. main' = "start udp" \/ main' = "up"
    OBVIOUS
  <2>2. \A l \in Loops : loop[l].stop = "no" /\ (loop[l].quit => l = Udp)
    BY <1>3, ElsewhereFacts DEF StopInv
  <2> QED BY <2>2 DEF StopInv
<1>6. AcceptorInv'
  <2>1. listen' = "listening" /\ loop' = loop
    BY <1>3 DEF UnbuiltInv, vars
  <2>2. main' = "start udp" \/ (main' = "up" /\ ~built')
    BY <1>3
  <2>3. loop[Acceptor].thread = "none" /\ loop[Acceptor].tstat # kStopping
    <3>1. loop[Acceptor] \in LoopObjects /\ Coherent(loop[Acceptor])
      BY LoopFacts DEF Loops
    <3>2. loop[Acceptor].thread = "none"
      BY <1>3 DEF UnbuiltInv, Loops
    <3> HIDE DEF LifecycleInv, SetBuffer
    <3> QED BY <3>1, <3>2, CoherentFacts
  <2> HIDE DEF LifecycleInv, SetBuffer
  <2>4. AcceptorInv
    BY DEF LifecycleInv
  <2> QED BY <2>1, <2>2, <2>3, <2>4, <1>3 DEF AcceptorInv
<1> QED BY <1>1, <1>2, <1>4, <1>5, <1>6, <1>7

-----------------------------------------------------------------------------
(* The threads of the loops.                                               *)

LEMMA UpdateLoop ==
    ASSUME TypeOK, LoopInv, NEW l \in Loops, NEW q \in LoopObjects, Coherent(q),
           loop' = [loop EXCEPT ![l] = q]
    PROVE  /\ loop' \in [Loops -> LoopObjects]
           /\ LoopInv'
           /\ loop'[l] = q
           /\ \A k \in Loops \ {l} : loop'[k] = loop[k]
BY DEF TypeOK, LoopInv

\* What an object that becomes q on its own may do.
Moves(r, q) ==
    /\ r.thread \notin {"none", "gone"} /\ q.thread # "none"
    /\ q.owned = r.owned /\ q.stop = r.stop /\ q.quit = r.quit
    /\ Entering(q) => Entering(r)
    /\ q.tstat = kStopping => r.tstat = kStopping
    /\ Serving(q) => Serving(r)

\* A thread moves on by itself: main is where it was.
LEMMA ThreadMoves ==
    ASSUME LifecycleInv,
           NEW l \in Loops, NEW q \in LoopObjects, Coherent(q),
           loop' = [loop EXCEPT ![l] = q],
           Moves(loop[l], q),
           q.ready = loop[l].ready \/ (l \in Workers /\ q.ready),
           main' = main, built' = built,
           pool' = pool \/ (pool' = kStopped /\ \A w \in Workers : loop'[w].thread = "gone")
                        \/ (pool' = kRunning /\ \A w \in Workers : loop'[w].ready),
           listen' = listen \/ (l = Acceptor /\ ~Serving(q))
    PROVE  built /\ UnbuiltInv' /\ MainInv' /\ AcceptorInv' /\ StopInv'
<1> USE DEF Moves
<1> DEFINE r == loop[l]
<1> LifecycleInv
  OBVIOUS
<1>1. \/ built /\ main \notin {"udp", "tcp", "buffer", "done", "halt pool", "join pool"}
      \/ (built /\ main \in {"halt pool", "join pool"} /\ l # Acceptor)
  BY DEF LifecycleInv, UnbuiltInv, MainInv, AcceptorInv
<1>2. /\ loop'[l] = q
      /\ \A k \in Loops \ {l} : loop'[k] = loop[k]
  BY UpdateLoop DEF LifecycleInv
<1>3. UnbuiltInv'
  BY <1>1 DEF UnbuiltInv
<1>4. Udp \in Loops /\ Acceptor \in Loops /\ Workers \subseteq Loops
      /\ Udp # Acceptor /\ Udp \notin Workers /\ Acceptor \notin Workers
  BY LifecycleAssumption DEF Loops
<1>5. MainInv'
  <2>1. MainInv
    BY DEF LifecycleInv
  <2>2. \A k \in Loops : Entering(loop'[k]) => Entering(loop[k])
    BY <1>2
  <2>3. /\ (Entering(loop[Udp]) => main \in {"wait udp"} \cup Died)'
        /\ (Entering(loop[Acceptor]) => main \in {"wait acceptor"} \cup Died)'
        /\ (\A w \in Workers : Entering(loop[w]) => main \in {"wait pool"} \cup Died)'
    BY <1>4, <2>1, <2>2 DEF MainInv
  <2> DEFINE Pool == /\ (pool = kStarting => main \in {"wait pool"} \cup Died)'
                     /\ (pool \in {kStarted, kRunning, kStopping} => \A w \in Workers : loop[w].ready)'
                     /\ (pool = kStopped => \A w \in Workers : loop[w].thread = "gone")'
  <2>a. ASSUME pool' = pool PROVE Pool
    <3>1. (pool = kStarting => main \in {"wait pool"} \cup Died)'
      BY <2>1, <2>a DEF MainInv
    <3>2. \A w \in Workers : loop[w].ready => loop'[w].ready
      BY <1>2, <1>4
    <3>3. (pool \in {kStarted, kRunning, kStopping} => \A w \in Workers : loop[w].ready)'
      BY <2>1, <2>a, <3>2 DEF MainInv
    <3>4. (pool = kStopped => \A w \in Workers : loop[w].thread = "gone")'
      <4>1. pool = kStopped => l \notin Workers
        BY <2>1 DEF MainInv
      <4>2. l \notin Workers => \A w \in Workers : loop'[w] = loop[w]
        BY <1>2, <1>4
      <4>3. pool' = kStopped => \A w \in Workers : loop[w].thread = "gone"
        BY <2>1, <2>a DEF MainInv
      <4>4. pool' = kStopped => \A w \in Workers : loop'[w] = loop[w]
        BY <4>1, <4>2, <2>a
      <4> QED BY <4>3, <4>4
    <3> QED BY <3>1, <3>3, <3>4
  <2>b. ASSUME pool' # pool PROVE Pool
    <3>1. \/ pool' = kStopped /\ \A w \in Workers : loop'[w].thread = "gone"
          \/ pool' = kRunning /\ \A w \in Workers : loop'[w].ready
      BY <2>b
    <3>2. CASE pool' = kStopped /\ \A w \in Workers : loop'[w].thread = "gone"
      BY <3>2
    <3>3. CASE pool' = kRunning /\ \A w \in Workers : loop'[w].ready
      <4>1. \A w \in Workers : loop'[w].ready
        BY <3>3
      <4>2. pool' # kStarting /\ pool' # kStopped
        BY <3>3
      <4> QED BY <4>1, <4>2
    <3> QED BY <3>1, <3>2, <3>3
  <2>4. Pool
    BY <2>a, <2>b
  <2>7. (~loop[Udp].ready /\ ~loop[Acceptor].ready)'
    BY <2>1, <1>2, <1>4 DEF MainInv
  <2>8. main' # "done"
    BY <1>1
  <2> QED BY <2>3, <2>4, <2>7, <2>8 DEF MainInv
<1>6. AcceptorInv'
  <2>1. AcceptorInv
    BY DEF LifecycleInv
  <2>2. (loop[Acceptor].tstat = kStopping =>
          loop[Acceptor].thread = "gone" \/ main \in {"join acceptor"} \cup Died)'
    BY <2>1, <1>2, <1>4 DEF AcceptorInv
  <2>3. (loop[Acceptor].thread = "none" =>
          \/ ~built
          \/ main \in {"start udp", "wait udp", "start pool", "wait pool", "start acceptor"} \cup Died)'
    BY <2>1, <1>2, <1>4 DEF AcceptorInv
  <2>4. (main \in {"halt pool", "join pool"} => loop[Acceptor].thread \in {"none", "gone"})'
    BY <2>1, <1>1, <1>2, <1>4 DEF AcceptorInv
  <2>5. (Serving(loop[Acceptor]) =>
          /\ \A w \in Workers : loop[w].owned
          /\ built => listen \in {"listening", "accepting"})'
    <3>1. Serving(loop'[Acceptor]) => Serving(loop[Acceptor])
      BY <1>2, <1>4
    <3>2. \A w \in Workers : loop'[w].owned = loop[w].owned
      BY <1>2, <1>4
    <3>3. Serving(loop'[Acceptor]) => listen' = listen
      BY <1>2
    <3> QED BY <2>1, <3>1, <3>2, <3>3 DEF AcceptorInv
  <2> QED BY <2>2, <2>3, <2>4, <2>5 DEF AcceptorInv
<1>7. StopInv'
  BY <1>2 DEF LifecycleInv, StopInv, JoinOf
<1> QED BY <1>1, <1>3, <1>5, <1>6, <1>7

-----------------------------------------------------------------------------
(* The events that wait.                                                   *)

AnyEvent == {"startRecv", "recvAgain", "closeUdp", "ready", "startAccept"} \cup Clients

EventType == events \in [Loops -> Seq(AnyEvent)]

LEMMA EventTypes ==
    /\ Udp \in Loops /\ Acceptor \in Loops /\ Workers \subseteq Loops
    /\ Udp # Acceptor /\ Udp \notin Workers /\ Acceptor \notin Workers
    /\ EventsOf(Udp) = {"startRecv", "recvAgain", "closeUdp"}
    /\ EventsOf(Acceptor) = {"startAccept"}
    /\ \A w \in Workers : EventsOf(w) = {"ready"} \cup Clients
    /\ \A l \in Loops : EventsOf(l) \subseteq AnyEvent
BY LifecycleAssumption DEF Loops, EventsOf, AnyEvent

LEMMA SameEvents ==
    ASSUME EventInv, events' = events, worker' = worker,
           \A c \in Clients : conn[c] = "posted" => conn'[c] = "posted"
    PROVE  EventInv'
BY DEF EventInv, WaitsOnce

LEMMA PostedEvents ==
    ASSUME EventInv, EventType, NEW l \in Loops, NEW ev \in EventsOf(l), ev \notin Clients,
           events' = Posted(l, ev), conn' = conn, worker' = worker
    PROVE  EventInv' /\ EventType'
<1>1. CASE ~loop[l].owned
  BY <1>1 DEF Posted, EventInv, EventType, WaitsOnce
<1>2. CASE loop[l].owned
  <2>1. /\ events' = [events EXCEPT ![l] = Append(events[l], ev)]
        /\ events[l] \in Seq(EventsOf(l))
        /\ ev \in AnyEvent /\ events[l] \in Seq(AnyEvent)
    BY <1>2, EventTypes DEF Posted, EventInv, EventType
  <2>2. /\ Append(events[l], ev) \in Seq(EventsOf(l))
        /\ Append(events[l], ev) \in Seq(AnyEvent)
    BY <2>1
  <2>3. EventType'
    BY <2>1, <2>2 DEF EventType
  <2>4. \A k \in Loops : events'[k] \in Seq(EventsOf(k))
    BY <2>1, <2>2 DEF EventInv, EventType
  <2>5. ASSUME NEW w \in Workers PROVE WaitsOnce(events[w], w)'
    <3>1. CASE w # l
      BY <3>1, <2>1, EventTypes DEF EventInv, WaitsOnce, EventType
    <3>2. CASE w = l
      <4>1. WaitsOnce(events[l], l)
        BY <3>2 DEF EventInv
      <4>2. events'[l] = Append(events[l], ev)
        BY <2>1 DEF EventType
      <4> QED BY <4>1, <4>2, <2>1, <3>2 DEF WaitsOnce
    <3> QED BY <3>1, <3>2
  <2> QED BY <2>3, <2>4, <2>5 DEF EventInv
<1> QED BY <1>1, <1>2

LEMMA QuietTypes ==
    ASSUME TypeOK, loop' \in [Loops -> LoopObjects], EventType', Quiet
    PROVE  TypeOK'
<1>1. /\ main' = main /\ built' = built /\ dying' = dying /\ calls' = calls
      /\ protobuf' = protobuf /\ handling' = handling /\ pool' = pool
      /\ udp' = udp /\ listen' = listen /\ conn' = conn /\ worker' = worker
      /\ pending' = pending
  BY DEF Quiet, program, network
<1> HIDE DEF KStatus
<1> QED BY <1>1, ZenonT(90) DEF TypeOK, EventType, AnyEvent

-----------------------------------------------------------------------------
(* The steps of a loop's thread.                                           *)

LEMMA BeginStep == ASSUME LifecycleInv, NEW l \in Loops, Begin(l) PROVE LifecycleInv'
<1> DEFINE r == loop[l]
           q == [loop[l] EXCEPT !.thread = "run", !.tstat = kStarted]
<1>1. r \in LoopObjects /\ Coherent(r) /\ r.thread = "begin"
  BY LoopFacts DEF LifecycleInv, Begin, Step, InCallbacks
<1>2. loop' = [loop EXCEPT ![l] = q]
  BY DEF Begin, Step
<1>3. q \in LoopObjects
  BY <1>1, Updates
<1>4. /\ Coherent(q)
      /\ Moves(r, q) /\ q.ready = r.ready
  BY <1>1, <1>3 DEF LoopObjects, Coherent, InLoop, StoppingSelf, Entering, Serving, Moves
<1>5. UnbuiltInv' /\ MainInv' /\ AcceptorInv' /\ StopInv'
  <2> HIDE DEF q
  <2>1. main' = main /\ built' = built /\ pool' = pool /\ listen' = listen
    BY DEF Begin, Quiet, program, network
  <2> QED BY <1>1, <1>2, <1>3, <1>4, <2>1, ThreadMoves
<1>6. loop' \in [Loops -> LoopObjects] /\ LoopInv'
  <2> HIDE DEF q
  <2> QED BY <1>2, <1>3, <1>4, UpdateLoop DEF LifecycleInv
<1>7. EventInv' /\ EventType'
  <2>1. EventInv /\ EventType /\ conn' = conn /\ worker' = worker
    BY DEF LifecycleInv, TypeOK, EventType, AnyEvent, Begin, Quiet, network
  <2>2. CASE l = Acceptor
    BY <2>1, <2>2, SameEvents DEF Begin, EventType
  <2>3. CASE l # Acceptor
    <3>1. events' = Posted(l, Pre(l))
      BY <2>3 DEF Begin
    <3>2. Pre(l) \in EventsOf(l) /\ Pre(l) \notin Clients
      BY <2>3, EventTypes, LifecycleAssumption DEF Pre, Loops
    <3> QED BY <2>1, <3>1, <3>2, PostedEvents
  <2> QED BY <2>2, <2>3
<1>8. TypeOK' /\ PostsAlive'
  BY <1>6, <1>7, QuietTypes DEF LifecycleInv, PostsAlive, Begin, Quiet, network
<1> QED BY <1>5, <1>6, <1>7, <1>8 DEF LifecycleInv

LEMMA RunStep == ASSUME LifecycleInv, NEW l \in Loops, Run(l) PROVE LifecycleInv'
<1> DEFINE r == loop[l]
           q == IF loop[l].owned THEN [loop[l] EXCEPT !.thread = "enter", !.lstat = kRunning]
                ELSE [loop[l] EXCEPT !.thread = "ended"]
<1>1. r \in LoopObjects /\ Coherent(r) /\ r.thread = "run"
  BY LoopFacts DEF LifecycleInv, Run, Step, InCallbacks
<1>2. loop' = [loop EXCEPT ![l] = q]
  BY DEF Run, Step
<1>3. q \in LoopObjects
  BY <1>1, Updates
<1>4. /\ Coherent(q)
      /\ Moves(r, q) /\ q.ready = r.ready
  BY <1>1, <1>3 DEF LoopObjects, Coherent, InLoop, StoppingSelf, Entering, Serving, Moves
<1>5. UnbuiltInv' /\ MainInv' /\ AcceptorInv' /\ StopInv'
  <2> HIDE DEF q
  <2>1. main' = main /\ built' = built /\ pool' = pool /\ listen' = listen
    BY DEF Run, Quiet, program, network
  <2> QED BY <1>1, <1>2, <1>3, <1>4, <2>1, ThreadMoves
<1>6. loop' \in [Loops -> LoopObjects] /\ LoopInv'
  <2> HIDE DEF q
  <2> QED BY <1>2, <1>3, <1>4, UpdateLoop DEF LifecycleInv
<1>7. EventInv' /\ EventType'
  BY SameEvents DEF LifecycleInv, Run, Quiet, network, TypeOK, EventType, AnyEvent
<1>8. TypeOK' /\ PostsAlive'
  BY <1>6, <1>7, QuietTypes DEF LifecycleInv, PostsAlive, Run, Quiet, network
<1> QED BY <1>5, <1>6, <1>7, <1>8 DEF LifecycleInv

LEMMA EnterStep == ASSUME LifecycleInv, NEW l \in Loops, Enter(l) PROVE LifecycleInv'
<1> DEFINE r == loop[l]
           q == IF loop[l].owned THEN [loop[l] EXCEPT !.thread = "entry"]
                ELSE [loop[l] EXCEPT !.thread = "ended", !.lstat = kStopped]
<1>1. r \in LoopObjects /\ Coherent(r) /\ r.thread = "enter"
  BY LoopFacts DEF LifecycleInv, Enter, Step, InCallbacks
<1>2. loop' = [loop EXCEPT ![l] = q]
  BY DEF Enter, Step
<1>3. q \in LoopObjects
  BY <1>1, Updates
<1>4. /\ Coherent(q)
      /\ Moves(r, q) /\ q.ready = r.ready
  BY <1>1, <1>3 DEF LoopObjects, Coherent, InLoop, StoppingSelf, Entering, Serving, Moves
<1>5. UnbuiltInv' /\ MainInv' /\ AcceptorInv' /\ StopInv'
  <2> HIDE DEF q
  <2>1. main' = main /\ built' = built /\ pool' = pool /\ listen' = listen
    BY DEF Enter, Quiet, program, network
  <2> QED BY <1>1, <1>2, <1>3, <1>4, <2>1, ThreadMoves
<1>6. loop' \in [Loops -> LoopObjects] /\ LoopInv'
  <2> HIDE DEF q
  <2> QED BY <1>2, <1>3, <1>4, UpdateLoop DEF LifecycleInv
<1>7. EventInv' /\ EventType'
  BY SameEvents DEF LifecycleInv, Enter, Quiet, network, TypeOK, EventType, AnyEvent
<1>8. TypeOK' /\ PostsAlive'
  BY <1>6, <1>7, QuietTypes DEF LifecycleInv, PostsAlive, Enter, Quiet, network
<1> QED BY <1>5, <1>6, <1>7, <1>8 DEF LifecycleInv

LEMMA SetRunningStep == ASSUME LifecycleInv, NEW l \in Loops, SetRunning(l) PROVE LifecycleInv'
<1> DEFINE r == loop[l]
           q == [loop[l] EXCEPT !.thread = "poll", !.hloop = "RUNNING"]
<1>1. r \in LoopObjects /\ Coherent(r) /\ r.thread = "entry"
  BY LoopFacts DEF LifecycleInv, SetRunning, Step, InCallbacks
<1>2. loop' = [loop EXCEPT ![l] = q]
  BY DEF SetRunning, Step
<1>3. q \in LoopObjects
  BY <1>1, Updates
<1>4. /\ Coherent(q)
      /\ Moves(r, q) /\ q.ready = r.ready
  BY <1>1, <1>3 DEF LoopObjects, Coherent, InLoop, StoppingSelf, Entering, Serving, Moves
<1>5. UnbuiltInv' /\ MainInv' /\ AcceptorInv' /\ StopInv'
  <2> HIDE DEF q
  <2>1. main' = main /\ built' = built /\ pool' = pool /\ listen' = listen
    BY DEF SetRunning, Quiet, program, network
  <2> QED BY <1>1, <1>2, <1>3, <1>4, <2>1, ThreadMoves
<1>6. loop' \in [Loops -> LoopObjects] /\ LoopInv'
  <2> HIDE DEF q
  <2> QED BY <1>2, <1>3, <1>4, UpdateLoop DEF LifecycleInv
<1>7. EventInv' /\ EventType'
  BY SameEvents DEF LifecycleInv, SetRunning, Quiet, network, TypeOK, EventType, AnyEvent
<1>8. TypeOK' /\ PostsAlive'
  BY <1>6, <1>7, QuietTypes DEF LifecycleInv, PostsAlive, SetRunning, Quiet, network
<1> QED BY <1>5, <1>6, <1>7, <1>8 DEF LifecycleInv

LEMMA PollStep == ASSUME LifecycleInv, NEW l \in Loops, Poll(l) PROVE LifecycleInv'
<1> DEFINE r == loop[l]
           q == [loop[l] EXCEPT !.thread = "cbs"]
<1>1. r \in LoopObjects /\ Coherent(r) /\ r.thread = "poll"
  BY LoopFacts DEF LifecycleInv, Poll, Step, InCallbacks
<1>2. loop' = [loop EXCEPT ![l] = q]
  BY DEF Poll, Step
<1>3. q \in LoopObjects
  BY <1>1, Updates
<1>4. /\ Coherent(q)
      /\ Moves(r, q) /\ q.ready = r.ready
  BY <1>1, <1>3 DEF LoopObjects, Coherent, InLoop, StoppingSelf, Entering, Serving, Moves
<1>5. UnbuiltInv' /\ MainInv' /\ AcceptorInv' /\ StopInv'
  <2> HIDE DEF q
  <2>1. main' = main /\ built' = built /\ pool' = pool /\ listen' = listen
    BY DEF Poll, Quiet, program, network
  <2> QED BY <1>1, <1>2, <1>3, <1>4, <2>1, ThreadMoves
<1>6. loop' \in [Loops -> LoopObjects] /\ LoopInv'
  <2> HIDE DEF q
  <2> QED BY <1>2, <1>3, <1>4, UpdateLoop DEF LifecycleInv
<1>7. EventInv' /\ EventType'
  BY SameEvents DEF LifecycleInv, Poll, Quiet, network, TypeOK, EventType, AnyEvent
<1>8. TypeOK' /\ PostsAlive'
  BY <1>6, <1>7, QuietTypes DEF LifecycleInv, PostsAlive, Poll, Quiet, network
<1> QED BY <1>5, <1>6, <1>7, <1>8 DEF LifecycleInv

LEMMA EndIterationStep == ASSUME LifecycleInv, NEW l \in Loops, EndIteration(l) PROVE LifecycleInv'
<1> DEFINE r == loop[l]
           q == [loop[l] EXCEPT !.thread = "poll"]
<1>1. r \in LoopObjects /\ Coherent(r) /\ r.thread = "cbs"
  BY LoopFacts DEF LifecycleInv, EndIteration, Step, InCallbacks
<1>2. loop' = [loop EXCEPT ![l] = q]
  BY DEF EndIteration, Step
<1>3. q \in LoopObjects
  BY <1>1, Updates
<1>4. /\ Coherent(q)
      /\ Moves(r, q) /\ q.ready = r.ready
  BY <1>1, <1>3 DEF LoopObjects, Coherent, InLoop, StoppingSelf, Entering, Serving, Moves
<1>5. UnbuiltInv' /\ MainInv' /\ AcceptorInv' /\ StopInv'
  <2> HIDE DEF q
  <2>1. main' = main /\ built' = built /\ pool' = pool /\ listen' = listen
    BY DEF EndIteration, Quiet, program, network
  <2> QED BY <1>1, <1>2, <1>3, <1>4, <2>1, ThreadMoves
<1>6. loop' \in [Loops -> LoopObjects] /\ LoopInv'
  <2> HIDE DEF q
  <2> QED BY <1>2, <1>3, <1>4, UpdateLoop DEF LifecycleInv
<1>7. EventInv' /\ EventType'
  BY SameEvents DEF LifecycleInv, EndIteration, Quiet, network, TypeOK, EventType, AnyEvent
<1>8. TypeOK' /\ PostsAlive'
  BY <1>6, <1>7, QuietTypes DEF LifecycleInv, PostsAlive, EndIteration, Quiet, network
<1> QED BY <1>5, <1>6, <1>7, <1>8 DEF LifecycleInv


\* A step that leaves the threads where they are, or of which the process dies.
LEMMA LoopFrame ==
    ASSUME LifecycleInv, built,
           loop' = loop, main' \in {main} \cup Died, built' = built, pool' = pool,
           listen' = listen \/ listen' = "accepting"
    PROVE  /\ UnbuiltInv' /\ MainInv' /\ AcceptorInv' /\ StopInv' /\ LoopInv'
           /\ loop' \in [Loops -> LoopObjects]
<1>1. main \notin {"udp", "tcp", "buffer"}
  BY DEF LifecycleInv, UnbuiltInv
<1>2. UnbuiltInv'
  BY <1>1 DEF UnbuiltInv
<1>3. MainInv'
  BY DEF LifecycleInv, MainInv
<1>4. AcceptorInv'
  BY DEF LifecycleInv, AcceptorInv
<1>5. LoopInv' /\ loop' \in [Loops -> LoopObjects]
  BY DEF LifecycleInv, LoopInv, TypeOK
<1>6. StopInv'
  BY DEF LifecycleInv, StopInv
<1> QED BY <1>2, <1>3, <1>4, <1>5, <1>6

\* The process dies.
LEMMA DiesStep ==
    ASSUME LifecycleInv, NEW l \in Loops, loop[l].thread # "none", main' \in Died,
           UNCHANGED <<built, dying, calls, protobuf, loop, events, handling, pool, network>>
    PROVE  LifecycleInv'
<1>1. built
  BY DEF LifecycleInv, UnbuiltInv
<1>2. /\ UnbuiltInv' /\ MainInv' /\ AcceptorInv' /\ StopInv' /\ LoopInv'
      /\ loop' \in [Loops -> LoopObjects]
  BY <1>1, LoopFrame DEF network
<1>3. EventInv' /\ PostsAlive'
  BY SameEvents DEF LifecycleInv, PostsAlive, network
<1>4. TypeOK'
  <2>1. /\ main' \in {"terminated", "null loop", "asserted"}
        /\ built' = built /\ dying' = dying /\ calls' = calls /\ protobuf' = protobuf
        /\ loop' = loop /\ events' = events /\ handling' = handling /\ pool' = pool
        /\ udp' = udp /\ listen' = listen /\ conn' = conn /\ worker' = worker
        /\ pending' = pending
    BY DEF network
  <2>2. TypeOK
    BY DEF LifecycleInv
  <2> HIDE DEF KStatus
  <2> QED BY <2>1, <2>2, ZenonT(90) DEF TypeOK
<1> QED BY <1>2, <1>3, <1>4 DEF LifecycleInv

LEMMA EndStep == ASSUME LifecycleInv, NEW l \in Loops, End(l) PROVE LifecycleInv'
<1> DEFINE Ends ==
              /\ loop[l].lstat = kStopped
              /\ Step(l, "ended", [loop[l] EXCEPT !.thread = "gone", !.tstat = kStopped])
              /\ pool' = IF l \in Workers /\ \A w \in Workers \ {l} : loop[w].thread = "gone"
                         THEN kStopped ELSE pool
              /\ UNCHANGED <<program, events, handling, network>>
<1>a. ASSUME ~Ends PROVE LifecycleInv'
  BY <1>a, DiesStep DEF End
<1>b. SUFFICES ASSUME Ends PROVE LifecycleInv'
  BY <1>a
<1> DEFINE r == loop[l]
           q == [loop[l] EXCEPT !.thread = "gone", !.tstat = kStopped]
<1>1. r \in LoopObjects /\ Coherent(r) /\ r.thread = "ended"
  BY <1>b, LoopFacts DEF LifecycleInv, Step
<1>2. loop' = [loop EXCEPT ![l] = q]
  BY <1>b DEF Step
<1>3. q \in LoopObjects
  BY <1>1, Updates
<1>4. Coherent(q) /\ Moves(r, q) /\ q.ready = r.ready /\ q.thread = "gone"
  BY <1>1, <1>3 DEF LoopObjects, Coherent, InLoop, StoppingSelf, Entering, Serving, Moves
<1> HIDE DEF q
<1>5. loop' \in [Loops -> LoopObjects] /\ LoopInv' /\ loop'[l] = q
      /\ \A k \in Loops \ {l} : loop'[k] = loop[k]
  BY <1>2, <1>3, <1>4, UpdateLoop DEF LifecycleInv
<1>6. pool' = pool \/ (pool' = kStopped /\ \A w \in Workers : loop'[w].thread = "gone")
  <2>1. CASE l \in Workers /\ \A w \in Workers \ {l} : loop[w].thread = "gone"
    <3>1. pool' = kStopped
      BY <1>b, <2>1
    <3>2. \A w \in Workers : loop'[w].thread = "gone"
      BY <2>1, <1>4, <1>5, EventTypes
    <3> QED BY <3>1, <3>2
  <2>2. CASE ~(l \in Workers /\ \A w \in Workers \ {l} : loop[w].thread = "gone")
    BY <1>b, <2>2
  <2> QED BY <2>1, <2>2
<1>7. UnbuiltInv' /\ MainInv' /\ AcceptorInv' /\ StopInv'
  <2>1. main' = main /\ built' = built /\ listen' = listen
    BY <1>b DEF program, network
  <2> QED BY <1>1, <1>2, <1>3, <1>4, <1>6, <2>1, ThreadMoves
<1>8. EventInv' /\ EventType'
  BY <1>b, SameEvents DEF LifecycleInv, network, TypeOK, EventType, AnyEvent
<1>9. TypeOK'
  <2>1. /\ main' = main /\ built' = built /\ dying' = dying /\ calls' = calls
        /\ protobuf' = protobuf /\ handling' = handling
        /\ udp' = udp /\ listen' = listen /\ conn' = conn /\ worker' = worker
        /\ pending' = pending
    BY <1>b DEF program, network
  <2>2. pool' \in KStatus
    BY <1>6 DEF LifecycleInv, TypeOK
  <2> HIDE DEF KStatus
  <2> QED BY <1>5, <1>8, <2>1, <2>2, ZenonT(90) DEF LifecycleInv, TypeOK, EventType, AnyEvent
<1>10. PostsAlive'
  BY <1>b DEF LifecycleInv, PostsAlive, network
<1> QED BY <1>5, <1>7, <1>8, <1>9, <1>10 DEF LifecycleInv

LEMMA LeaveStep == ASSUME LifecycleInv, NEW l \in Loops, Leave(l) PROVE LifecycleInv'
<1> DEFINE r == loop[l]
           q == [loop[l] EXCEPT !.thread = "ended", !.lstat = kStopped]
<1>1. r \in LoopObjects /\ Coherent(r) /\ r.thread = "poll" /\ r.hloop = "STOP"
  BY LoopFacts DEF LifecycleInv, Leave, Step
<1>2. loop' = [loop EXCEPT ![l] = q]
  BY DEF Leave, Step
<1>3. q \in LoopObjects
  BY <1>1, Updates
<1>4. Coherent(q) /\ Moves(r, q) /\ q.ready = r.ready /\ ~Serving(q)
  BY <1>1, <1>3 DEF LoopObjects, Coherent, InLoop, StoppingSelf, Entering, Serving, Moves
<1> HIDE DEF q
<1>5. loop' \in [Loops -> LoopObjects] /\ LoopInv'
  BY <1>2, <1>3, <1>4, UpdateLoop DEF LifecycleInv
<1>6. UnbuiltInv' /\ MainInv' /\ AcceptorInv' /\ StopInv'
  <2>1. main' = main /\ built' = built /\ pool' = pool
    BY DEF Leave, program
  <2>2. listen' = listen \/ l = Acceptor
    BY DEF Leave, AcceptsOn
  <2> QED BY <1>1, <1>2, <1>3, <1>4, <2>1, <2>2, ThreadMoves
<1>7. /\ conn' \in [Clients -> {"none", "backlog", "refused", "posted", "open", "closing",
                               "closed", "leaked", "dangling", "lost"}]
      /\ \A c \in Clients : conn'[c] = "lost" => conn[c] = "lost"
      /\ \A c \in Clients : conn[c] = "posted" /\ worker[c] # l => conn'[c] = "posted"
  BY DEF Leave, Freed, Served, LifecycleInv, TypeOK
<1>8. EventInv' /\ EventType'
  <2>1. EventInv /\ EventType
    BY DEF LifecycleInv, TypeOK, EventType, AnyEvent
  <2>2. events' = [events EXCEPT ![l] = <<>>] /\ worker' = worker
    BY DEF Leave
  <2>3. ASSUME NEW S PROVE <<>> \in Seq(S)
    OBVIOUS
  <2>4. EventType'
    BY <2>1, <2>2, <2>3 DEF EventType
  <2>5. \A k \in Loops : events'[k] \in Seq(EventsOf(k))
    BY <2>1, <2>2, <2>3 DEF EventInv, EventType
  <2>6. ASSUME NEW w \in Workers PROVE WaitsOnce(events[w], w)'
    <3>1. CASE w = l
      <4>1. events'[w] = <<>>
        BY <3>1, <2>1, <2>2, EventTypes DEF EventType
      <4> QED BY <4>1 DEF WaitsOnce
    <3>2. CASE w # l
      <4>1. events'[w] = events[w]
        BY <3>2, <2>1, <2>2, EventTypes DEF EventType
      <4>2. WaitsOnce(events[w], w)
        BY <2>1 DEF EventInv
      <4> QED BY <3>2, <4>1, <4>2, <2>2, <1>7 DEF WaitsOnce
    <3> QED BY <3>1, <3>2
  <2> QED BY <2>4, <2>5, <2>6 DEF EventInv
<1>9. TypeOK'
  <2>1. /\ main' = main /\ built' = built /\ dying' = dying /\ calls' = calls
        /\ protobuf' = protobuf /\ handling' = handling /\ pool' = pool
        /\ worker' = worker /\ pending' = pending
    BY DEF Leave, program
  <2>2. udp' \in {"none", "bound", "reading", "closing", "closed"}
        /\ listen' \in {"none", "listening", "accepting", "closed"}
    BY DEF LifecycleInv, TypeOK, Leave
  <2> HIDE DEF KStatus
  <2> QED BY <1>5, <1>7, <1>8, <2>1, <2>2, ZenonT(90) DEF LifecycleInv, TypeOK, EventType, AnyEvent
<1>10. PostsAlive'
  BY <1>7 DEF LifecycleInv, PostsAlive
<1> QED BY <1>5, <1>6, <1>8, <1>9, <1>10 DEF LifecycleInv


-----------------------------------------------------------------------------
(* The callbacks of an iteration.                                          *)

\* What is left of a queue; the connection at its head was opened.
LEMMA TailWaits ==
    ASSUME NEW q \in Seq(AnyEvent), q # <<>>, NEW w, WaitsOnce(q, w),
           worker' = worker,
           \A c \in Clients \ {Head(q)} : conn'[c] = conn[c]
    PROVE  \A i \in 1 .. Len(Tail(q)) :
               Tail(q)[i] \in Clients =>
                   /\ conn'[Tail(q)[i]] = "posted"
                   /\ worker'[Tail(q)[i]] = w
                   /\ \A j \in 1 .. Len(Tail(q)) : Tail(q)[j] = Tail(q)[i] => j = i
<1> DEFINE t == Tail(q)
<1>1. /\ Len(t) = Len(q) - 1 /\ Len(q) \in Nat
      /\ \A i \in 1 .. Len(t) : t[i] = q[i + 1] /\ i + 1 \in 1 .. Len(q)
      /\ Head(q) = q[1]
  OBVIOUS
<1> HIDE DEF t
<1>2. ASSUME NEW i \in 1 .. Len(t), t[i] \in Clients
      PROVE  /\ conn'[t[i]] = "posted"
             /\ worker'[t[i]] = w
             /\ \A j \in 1 .. Len(t) : t[j] = t[i] => j = i
  <2>1. i + 1 \in 1 .. Len(q) /\ t[i] = q[i + 1]
    BY <1>1, <1>2
  <2>2. /\ conn[t[i]] = "posted" /\ worker[t[i]] = w
        /\ \A j \in 1 .. Len(q) : q[j] = t[i] => j = i + 1
    BY <2>1, <1>2 DEF WaitsOnce
  <2>3. 1 \in 1 .. Len(q) /\ i + 1 # 1
    BY <1>1
  <2>4. Head(q) # t[i]
    BY <2>2, <2>3, <1>1
  <2>5. conn'[t[i]] = "posted"
    BY <2>2, <2>4, <1>2
  <2>6. \A j \in 1 .. Len(t) : t[j] = t[i] => j = i
    BY <2>2, <1>1
  <2> QED BY <2>2, <2>5, <2>6
<1> QED BY <1>2 DEF t

LEMMA TailEvents ==
    ASSUME EventInv, EventType, NEW l \in Loops, events[l] # <<>>,
           events' = [events EXCEPT ![l] = Tail(@)], worker' = worker,
           \/ conn' = conn
           \/ /\ l \in Workers /\ Head(events[l]) \in Clients
              /\ \A c \in Clients \ {Head(events[l])} : conn'[c] = conn[c]
    PROVE  EventInv' /\ EventType'
<1> DEFINE q == events[l]
<1>1. q \in Seq(EventsOf(l)) /\ q \in Seq(AnyEvent) /\ q # <<>>
  BY DEF EventInv, EventType
<1>2. Tail(q) \in Seq(EventsOf(l)) /\ Tail(q) \in Seq(AnyEvent)
  BY <1>1
<1>3. /\ events'[l] = Tail(q)
      /\ \A k \in Loops \ {l} : events'[k] = events[k]
  BY DEF EventType
<1>4. EventType'
  BY <1>2 DEF EventType
<1>5. \A k \in Loops : events'[k] \in Seq(EventsOf(k))
  BY <1>2, <1>3 DEF EventInv
<1> HIDE DEF q
<1>6. ASSUME NEW w \in Workers PROVE WaitsOnce(events[w], w)'
  <2>1. WaitsOnce(events[w], w) /\ w \in Loops
    BY EventTypes DEF EventInv
  <2>2. CASE w = l
    <3>1. WaitsOnce(q, w)
      BY <2>1, <2>2 DEF q
    <3>2. \A c \in Clients \ {Head(q)} : conn'[c] = conn[c]
      BY DEF q
    <3>3. events'[w] = Tail(q)
      BY <2>2, <1>3
    <3>4. \A i \in 1 .. Len(Tail(q)) :
             Tail(q)[i] \in Clients =>
                 /\ conn'[Tail(q)[i]] = "posted"
                 /\ worker'[Tail(q)[i]] = w
                 /\ \A j \in 1 .. Len(Tail(q)) : Tail(q)[j] = Tail(q)[i] => j = i
      BY <3>1, <3>2, <1>1, TailWaits
    <3>5. ASSUME NEW i \in 1 .. Len(events'[w]), events'[w][i] \in Clients
          PROVE  /\ conn'[events'[w][i]] = "posted"
                 /\ worker'[events'[w][i]] = w
                 /\ \A j \in 1 .. Len(events'[w]) : events'[w][j] = events'[w][i] => j = i
      <4>1. i \in 1 .. Len(Tail(q)) /\ events'[w][i] = Tail(q)[i] /\ Tail(q)[i] \in Clients
        BY <3>3, <3>5
      <4>2. /\ conn'[Tail(q)[i]] = "posted"
            /\ worker'[Tail(q)[i]] = w
            /\ \A j \in 1 .. Len(Tail(q)) : Tail(q)[j] = Tail(q)[i] => j = i
        BY <3>4, <4>1
      <4>3. \A j \in 1 .. Len(events'[w]) : j \in 1 .. Len(Tail(q)) /\ events'[w][j] = Tail(q)[j]
        BY <3>3
      <4> QED BY <4>1, <4>2, <4>3
    <3> QED BY <3>5 DEF WaitsOnce
  <2>3. CASE w # l
    <3>1. events'[w] = events[w]
      BY <2>1, <2>3, <1>3
    <3>2. ASSUME Head(q) \in Clients, l \in Workers
          PROVE  worker[Head(q)] = l
      <4>1. Len(q) \in Nat /\ 1 \in 1 .. Len(q) /\ Head(q) = q[1]
        BY <1>1
      <4>2. WaitsOnce(q, l)
        BY <3>2 DEF EventInv, q
      <4> QED BY <4>1, <4>2, <3>2 DEF WaitsOnce
    <3>3. \A c \in Clients : conn[c] = "posted" /\ worker[c] = w => conn'[c] = "posted"
      BY <2>3, <3>2 DEF q
    <3> QED BY <2>1, <3>1, <3>3 DEF WaitsOnce
  <2> QED BY <2>2, <2>3
<1> QED BY <1>4, <1>5, <1>6 DEF EventInv

\* A callback runs in a loop of a complete server.
LEMMA CallbackFacts ==
    ASSUME LifecycleInv, NEW l \in Loops, loop[l].thread = "cbs"
    PROVE  /\ built /\ main \notin {"udp", "tcp", "buffer", "done"}
           /\ loop[l] \in LoopObjects /\ Coherent(loop[l])
<1>1. loop[l] \in LoopObjects /\ Coherent(loop[l])
  BY LoopFacts DEF LifecycleInv
<1>2. built
  BY DEF LifecycleInv, UnbuiltInv
<1> QED BY <1>1, <1>2 DEF LifecycleInv, UnbuiltInv, MainInv

\* The loop of UDP goes through its own stop.
LEMMA UdpQuits ==
    ASSUME LifecycleInv, NEW q \in LoopObjects, Coherent(q), Quits(loop[Udp], q),
           loop' = [loop EXCEPT ![Udp] = q],
           main' = main, built' = built, pool' = pool, listen' = listen
    PROVE  /\ UnbuiltInv' /\ MainInv' /\ AcceptorInv' /\ StopInv' /\ LoopInv'
           /\ loop' \in [Loops -> LoopObjects]
<1>1. /\ loop' \in [Loops -> LoopObjects] /\ LoopInv' /\ loop'[Udp] = q
      /\ \A k \in Loops \ {Udp} : loop'[k] = loop[k]
  BY UpdateLoop, EventTypes DEF LifecycleInv
<1>2. /\ q.thread \notin {"none", "begin", "run", "ended", "gone"}
      /\ loop[Udp].thread \notin {"none", "ended", "gone"}
      /\ q.ready = loop[Udp].ready /\ q.stop = loop[Udp].stop
  BY DEF Quits, StoppingSelf
<1>3. built
  BY <1>2, EventTypes DEF LifecycleInv, UnbuiltInv
<1>4. main \notin {"udp", "tcp", "buffer", "done"}
  BY <1>2, <1>3, EventTypes DEF LifecycleInv, UnbuiltInv, MainInv
<1>5. UnbuiltInv'
  BY <1>3, <1>4 DEF UnbuiltInv
<1>6. ~Entering(q)
  BY <1>2 DEF Entering
<1>7. MainInv'
  BY <1>1, <1>2, <1>4, <1>6, EventTypes DEF LifecycleInv, MainInv
<1>8. AcceptorInv'
  BY <1>1, EventTypes DEF LifecycleInv, AcceptorInv
<1>9. StopInv'
  BY <1>1, <1>2, EventTypes DEF LifecycleInv, StopInv
<1> QED BY <1>1, <1>5, <1>7, <1>8, <1>9

LEMMA RunEventStep == ASSUME LifecycleInv, NEW l \in Loops, RunEvent(l) PROVE LifecycleInv'
<1> DEFINE ev == Head(events[l])
           r == loop[l]
<1>1. /\ r.thread = "cbs" /\ events[l] # <<>>
      /\ events' = [events EXCEPT ![l] = Tail(@)]
      /\ built' = built /\ dying' = dying /\ calls' = calls /\ protobuf' = protobuf
      /\ handling' = handling /\ worker' = worker /\ pending' = pending
  BY DEF RunEvent, InCallbacks
<1>2. /\ built /\ main \notin {"udp", "tcp", "buffer", "done"}
      /\ r \in LoopObjects /\ Coherent(r)
  BY <1>1, CallbackFacts
<1>3. /\ ev \in EventsOf(l)
      /\ EventInv /\ EventType
  <2>1. EventInv /\ EventType
    BY DEF LifecycleInv, TypeOK, EventType, AnyEvent
  <2>2. events[l] \in Seq(EventsOf(l))
    BY <2>1 DEF EventInv
  <2> QED BY <1>1, <2>1, <2>2
<1>4. /\ ev = "startRecv" => l = Udp
      /\ ev = "startAccept" => l = Acceptor
      /\ ev \in {"ready"} \cup Clients => l \in Workers
  BY <1>3, LifecycleAssumption DEF EventsOf, Loops
<1> DEFINE Loops1 == /\ UnbuiltInv' /\ MainInv' /\ AcceptorInv' /\ StopInv' /\ LoopInv'
                     /\ loop' \in [Loops -> LoopObjects]
           Rest == /\ EventInv' /\ EventType' /\ PostsAlive'
                   /\ pool' \in KStatus
                   /\ main' \in {main} \cup Died
                   /\ udp' \in {"none", "bound", "reading", "closing", "closed"}
                   /\ listen' \in {"none", "listening", "accepting", "closed"}
                   /\ conn' \in [Clients -> {"none", "backlog", "refused", "posted", "open", "closing",
                                             "closed", "leaked", "dangling", "lost"}]
<1>5. ASSUME Loops1, Rest PROVE LifecycleInv'
  <2>1. TypeOK'
    <3>1. TypeOK
      BY DEF LifecycleInv
    <3>2. main' \in {main} \cup Died
      BY <1>5
    <3> HIDE DEF KStatus
    <3> QED BY <1>5, <1>1, <3>1, <3>2, ZenonT(90) DEF TypeOK, EventType, AnyEvent
  <2> QED BY <1>5, <2>1 DEF LifecycleInv
<1>6. ASSUME main' \in {main} \cup Died, loop' = loop, pool' = pool, listen' = listen \/ listen' = "accepting"
      PROVE  Loops1
  BY <1>1, <1>2, <1>6, LoopFrame
<1>7. ASSUME conn' = conn
      PROVE  /\ EventInv' /\ EventType' /\ PostsAlive'
             /\ conn' \in [Clients -> {"none", "backlog", "refused", "posted", "open", "closing",
                                       "closed", "leaked", "dangling", "lost"}]
  <2>1. EventInv' /\ EventType'
    BY <1>1, <1>3, <1>7, TailEvents
  <2> QED BY <1>7, <2>1 DEF LifecycleInv, TypeOK, PostsAlive
<1>8. CASE ev \in {"startRecv", "recvAgain"} /\ StartRecv /\ UNCHANGED <<loop, pool, listen, conn>>
  <2>1. Rest
    BY <1>7, <1>8 DEF LifecycleInv, TypeOK, StartRecv
  <2> QED BY <1>8, <2>1, <1>5, <1>6
<1>9. CASE /\ ev = "startRecv" /\ StartRecvFails
           /\ loop' = [loop EXCEPT ![l] = SelfStopped(@)]
           /\ UNCHANGED <<pool, listen, conn>>
  <2> DEFINE q == SelfStopped(r)
  <2>1. q \in LoopObjects /\ Coherent(q) /\ Quits(r, q)
    BY <1>1, <1>2, SelfCoherent, QuitsFacts
  <2>2. l = Udp /\ loop' = [loop EXCEPT ![l] = q]
    BY <1>4, <1>9
  <2>3. main' = main /\ pool' = pool /\ listen' = listen
    BY <1>9 DEF StartRecvFails
  <2> HIDE DEF q
  <2>4. Loops1
    BY <1>1, <2>1, <2>2, <2>3, UdpQuits
  <2>5. Rest
    BY <1>7, <1>9 DEF LifecycleInv, TypeOK, StartRecvFails
  <2> QED BY <2>4, <2>5, <1>5
<1>13. CASE ev = "recvAgain" /\ StartRecvFails /\ UNCHANGED <<loop, pool, listen, conn>>
  <2>1. Rest
    BY <1>7, <1>13 DEF LifecycleInv, TypeOK, StartRecvFails
  <2> QED BY <1>13, <2>1, <1>5, <1>6 DEF StartRecvFails
<1>14. CASE /\ ev = "closeUdp" /\ udp' = (IF udp = "closing" THEN "closed" ELSE udp)
            /\ UNCHANGED <<main, loop, pool, listen, conn>>
  <2>1. Rest
    BY <1>7, <1>14 DEF LifecycleInv, TypeOK
  <2> QED BY <1>14, <2>1, <1>5, <1>6
<1>10. CASE ev = "ready" /\ WorkerReady(l) /\ UNCHANGED <<main, udp, listen, conn>>
  <2> DEFINE q == [r EXCEPT !.ready = TRUE]
  <2>1. /\ l \in Workers /\ loop' = [loop EXCEPT ![l] = q] /\ q \in LoopObjects
        /\ Coherent(q) /\ Moves(r, q) /\ q.ready
    <3>1. l \in Workers /\ loop' = [loop EXCEPT ![l] = q]
      BY <1>4, <1>10 DEF WorkerReady
    <3>2. q \in LoopObjects
      BY <1>2, Updates
    <3> QED BY <1>1, <1>2, <3>1, <3>2 DEF LoopObjects, Coherent, InLoop, StoppingSelf, Entering, Serving, Moves
  <2> HIDE DEF q
  <2>2. /\ loop' \in [Loops -> LoopObjects] /\ LoopInv' /\ loop'[l] = q
        /\ \A k \in Loops \ {l} : loop'[k] = loop[k]
    BY <2>1, UpdateLoop DEF LifecycleInv
  <2>3. pool' = pool \/ (pool' = kRunning /\ \A w \in Workers : loop'[w].ready)
    <3>1. CASE \A x \in Workers \ {l} : loop[x].ready
      <4>1. pool' = kRunning
        BY <1>10, <3>1 DEF WorkerReady
      <4>2. \A w \in Workers : loop'[w].ready
        BY <2>1, <2>2, <3>1, EventTypes
      <4> QED BY <4>1, <4>2
    <3>2. CASE ~ \A x \in Workers \ {l} : loop[x].ready
      BY <1>10, <3>2 DEF WorkerReady
    <3> QED BY <3>1, <3>2
  <2>4. UnbuiltInv' /\ MainInv' /\ AcceptorInv' /\ StopInv'
    <3>1. main' = main /\ listen' = listen /\ built' = built
      BY <1>1, <1>10
    <3> QED BY <2>1, <2>3, <3>1, ThreadMoves
  <2>5. Rest
    BY <1>7, <1>10, <2>3 DEF LifecycleInv, TypeOK
  <2> QED BY <1>5, <2>2, <2>4, <2>5
<1>11. CASE /\ ev = "startAccept" /\ listen' = "accepting"
            /\ UNCHANGED <<main, loop, pool, udp, conn>>
  <2>1. Rest
    BY <1>7, <1>11 DEF LifecycleInv, TypeOK
  <2> QED BY <1>11, <2>1, <1>5, <1>6
<1>12. CASE /\ ev \in Clients /\ conn' = [conn EXCEPT ![ev] = "open"]
            /\ UNCHANGED <<main, loop, pool, udp, listen>>
  <2>1. /\ conn' \in [Clients -> {"none", "backlog", "refused", "posted", "open", "closing",
                                  "closed", "leaked", "dangling", "lost"}]
        /\ \A c \in Clients \ {ev} : conn'[c] = conn[c]
        /\ conn'[ev] = "open"
    BY <1>12 DEF LifecycleInv, TypeOK
  <2>2. PostsAlive'
    BY <2>1, <1>12 DEF LifecycleInv, PostsAlive
  <2>3. EventInv' /\ EventType'
    BY <1>1, <1>3, <1>4, <1>12, <2>1, TailEvents
  <2>4. Rest
    BY <1>12, <2>1, <2>2, <2>3 DEF LifecycleInv, TypeOK
  <2> QED BY <1>12, <2>4, <1>5, <1>6
<1> QED BY <1>8, <1>9, <1>10, <1>11, <1>12, <1>13, <1>14 DEF RunEvent

LEMMA SelfStep ==
    ASSUME LifecycleInv, NEW l \in Loops, SelfMark(l) \/ SelfTell(l) \/ SelfClear(l)
    PROVE  LifecycleInv'
<1> DEFINE r == loop[l]
<1>1. r \in LoopObjects /\ Coherent(r) /\ r.thread \in StoppingSelf
  BY LoopFacts DEF LifecycleInv, SelfMark, SelfTell, SelfClear, Step, StoppingSelf
<1>2. l = Udp
  BY <1>1 DEF LifecycleInv, StopInv, Coherent
<1>3. ASSUME NEW q \in LoopObjects, Coherent(q), Quits(r, q), loop' = [loop EXCEPT ![l] = q],
             main' = main,
             UNCHANGED <<built, dying, calls, protobuf, events, handling, pool, network>>
      PROVE  LifecycleInv'
  <2>1. /\ UnbuiltInv' /\ MainInv' /\ AcceptorInv' /\ StopInv' /\ LoopInv'
        /\ loop' \in [Loops -> LoopObjects]
    BY <1>2, <1>3, UdpQuits DEF network
  <2>2. EventInv' /\ EventType' /\ PostsAlive'
    BY <1>3, SameEvents DEF LifecycleInv, PostsAlive, network, TypeOK, EventType, AnyEvent
  <2>3. TypeOK'
    BY <1>3, <2>1, <2>2, QuietTypes DEF LifecycleInv, Quiet, program
  <2> QED BY <2>1, <2>2, <2>3 DEF LifecycleInv
<1>4. ASSUME SelfMark(l) PROVE LifecycleInv'
  <2> DEFINE q == [r EXCEPT !.thread = "tell", !.lstat = kStopping]
  <2>1. r.thread = "mark" /\ loop' = [loop EXCEPT ![l] = q]
    BY <1>4 DEF SelfMark, Step
  <2>2. q \in LoopObjects /\ Coherent(q) /\ Quits(r, q)
    BY <1>1, <2>1, SelfCoherent, QuitsFacts
  <2> HIDE DEF q
  <2> QED BY <1>3, <1>4, <2>1, <2>2 DEF SelfMark, Quiet, program
<1>5. ASSUME SelfClear(l) PROVE LifecycleInv'
  <2> DEFINE q == [r EXCEPT !.thread = "cbs", !.owned = FALSE]
  <2>1. r.thread = "clear" /\ loop' = [loop EXCEPT ![l] = q]
    BY <1>5 DEF SelfClear, Step
  <2>2. q \in LoopObjects /\ Coherent(q) /\ Quits(r, q)
    BY <1>1, <2>1, SelfCoherent, QuitsFacts
  <2> HIDE DEF q
  <2> QED BY <1>3, <1>5, <2>1, <2>2 DEF SelfClear, Quiet, program
<1>6. ASSUME SelfTell(l) PROVE LifecycleInv'
  <2> DEFINE q == [r EXCEPT !.thread = "clear", !.hloop = "STOP"]
             p == [r EXCEPT !.thread = "clear"]
  <2>1. r.thread = "tell" /\ UNCHANGED <<built, dying, calls, protobuf, events, handling, pool, network>>
    BY <1>6 DEF SelfTell, Step
  <2>2. /\ q \in LoopObjects /\ Coherent(q) /\ Quits(r, q)
        /\ p \in LoopObjects /\ Coherent(p) /\ Quits(r, p)
    BY <1>1, <2>1, SelfCoherent, QuitsFacts
  <2>3. \/ loop' = [loop EXCEPT ![l] = q] /\ main' = main
        \/ loop' = [loop EXCEPT ![l] = p] /\ main' = main
        \/ loop' = loop /\ main' \in Died
    BY <1>6 DEF SelfTell, Step
  <2> HIDE DEF q, p
  <2>4. CASE loop' = loop /\ main' \in Died
    BY <2>1, <2>4, DiesStep
  <2> QED BY <1>3, <2>1, <2>2, <2>3, <2>4
<1> QED BY <1>4, <1>5, <1>6

-----------------------------------------------------------------------------
(* The clients.                                                            *)

ConnStates == {"none", "backlog", "refused", "posted", "open", "closing",
               "closed", "leaked", "dangling", "lost"}

\* A step of a client or a handler leaves the loops alone.
LEMMA ClientStep ==
    ASSUME LifecycleInv,
           UNCHANGED <<program, loop, events, pool, udp, listen, worker>>,
           handling' \in [Loops -> Clients \cup {None, Datagram}],
           pending' \in [Clients -> BOOLEAN],
           conn' \in [Clients -> ConnStates],
           \A c \in Clients : /\ conn[c] = "posted" => conn'[c] = "posted"
                              /\ conn'[c] = "lost" => conn[c] = "lost",
           ~built => \A c \in Clients : conn'[c] \in {"none", "backlog", "refused"}
    PROVE  LifecycleInv'
<1>1. /\ main' = main /\ built' = built /\ dying' = dying /\ calls' = calls
      /\ protobuf' = protobuf /\ loop' = loop /\ events' = events /\ pool' = pool
      /\ udp' = udp /\ listen' = listen /\ worker' = worker
  BY DEF program
<1>2. TypeOK'
  <2>1. TypeOK
    BY DEF LifecycleInv
  <2> HIDE DEF KStatus
  <2> QED BY <1>1, <2>1, ZenonT(240) DEF TypeOK, ConnStates
<1>3. LoopInv' /\ MainInv' /\ AcceptorInv' /\ StopInv'
  <2>1. LoopInv' /\ StopInv'
    BY <1>1 DEF LifecycleInv, LoopInv, StopInv
  <2>2. MainInv'
    BY <1>1 DEF LifecycleInv, MainInv
  <2>3. AcceptorInv'
    BY <1>1 DEF LifecycleInv, AcceptorInv
  <2> QED BY <2>1, <2>2, <2>3
<1>4. UnbuiltInv'
  BY <1>1 DEF LifecycleInv, UnbuiltInv
<1>5. EventInv'
  BY <1>1, SameEvents DEF LifecycleInv
<1>6. PostsAlive'
  BY DEF LifecycleInv, PostsAlive
<1> QED BY <1>2, <1>3, <1>4, <1>5, <1>6 DEF LifecycleInv

LEMMA TrafficTypes ==
    ASSUME LifecycleInv
    PROVE  /\ handling \in [Loops -> Clients \cup {None, Datagram}]
           /\ pending \in [Clients -> BOOLEAN]
           /\ conn \in [Clients -> ConnStates]
           /\ worker \in [Clients -> Workers \cup {None}]
           /\ \A c \in Clients : conn[c] \in {"open", "closing"} => built
<1>1. TypeOK /\ UnbuiltInv
  BY DEF LifecycleInv
<1>2. pending \in [Clients -> BOOLEAN] /\ handling \in [Loops -> Clients \cup {None, Datagram}]
  BY <1>1, Zenon DEF TypeOK
<1> QED BY <1>1, <1>2 DEF TypeOK, UnbuiltInv, ConnStates

LEMMA BeginDatagramStep == ASSUME LifecycleInv, BeginDatagram PROVE LifecycleInv'
<1>1. /\ UNCHANGED <<program, loop, events, pool, network>>
      /\ handling' = [handling EXCEPT ![Udp] = Datagram]
  BY DEF BeginDatagram
<1>2. handling' \in [Loops -> Clients \cup {None, Datagram}]
  BY <1>1, TrafficTypes
<1>3. ~built => \A c \in Clients : conn[c] \in {"none", "backlog", "refused"}
  BY DEF LifecycleInv, UnbuiltInv
<1>4. UNCHANGED <<udp, listen, conn, worker, pending>>
  BY <1>1 DEF network
<1> QED BY <1>1, <1>2, <1>3, <1>4, TrafficTypes, ClientStep

LEMMA EndMessageStep == ASSUME LifecycleInv, NEW l \in Loops, EndMessage(l) PROVE LifecycleInv'
<1>1. /\ handling[l] # None
      /\ handling' = [handling EXCEPT ![l] = None]
      /\ UNCHANGED <<program, loop, events, pool, udp, listen, conn, worker>>
  BY DEF EndMessage
<1>2. handling' \in [Loops -> Clients \cup {None, Datagram}]
  BY <1>1, TrafficTypes
<1>3. pending' \in [Clients -> BOOLEAN]
  <2>1. CASE UNCHANGED pending
    BY <2>1, TrafficTypes, Zenon
  <2>2. CASE handling[l] # Datagram /\ pending' = [pending EXCEPT ![handling[l]] = TRUE]
    <3>1. pending \in [Clients -> BOOLEAN] /\ handling[l] \in Clients
      BY <1>1, <2>2, TrafficTypes, Zenon
    <3> QED BY <2>2, <3>1
  <2> QED BY <2>1, <2>2 DEF EndMessage
<1>4. ~built => \A c \in Clients : conn[c] \in {"none", "backlog", "refused"}
  BY DEF LifecycleInv, UnbuiltInv
<1> QED BY <1>1, <1>2, <1>3, <1>4, TrafficTypes, ClientStep

LEMMA ConnectStep == ASSUME LifecycleInv, NEW c \in Clients, Connect(c) PROVE LifecycleInv'
<1>1. /\ conn[c] = "none" /\ conn' = [conn EXCEPT ![c] = "backlog"]
      /\ UNCHANGED <<program, loop, events, handling, pool, udp, listen, worker, pending>>
  BY DEF Connect
<1>2. /\ conn' \in [Clients -> ConnStates]
      /\ \A d \in Clients : /\ conn[d] = "posted" => conn'[d] = "posted"
                            /\ conn'[d] = "lost" => conn[d] = "lost"
  BY <1>1, TrafficTypes DEF ConnStates
<1>3. ~built => \A d \in Clients : conn'[d] \in {"none", "backlog", "refused"}
  BY <1>1, TrafficTypes DEF LifecycleInv, UnbuiltInv
<1>4. pending' \in [Clients -> BOOLEAN]
  BY <1>1, TrafficTypes, Zenon
<1>5. handling' \in [Loops -> Clients \cup {None, Datagram}]
  BY <1>1, TrafficTypes, Zenon
<1> QED BY <1>1, <1>2, <1>3, <1>4, <1>5, ClientStep

\* A message begins, or a connection moves from open to closing to closed.
LEMMA ActiveStep ==
    ASSUME LifecycleInv, NEW c \in Clients,
           BeginMessage(c) \/ Flush(c) \/ PeerCloses(c) \/ CloseTimeout(c)
    PROVE  LifecycleInv'
<1>1. /\ conn[c] \in {"open", "closing"}
      /\ UNCHANGED <<program, loop, events, pool, udp, listen, worker>>
      /\ conn' \in {conn, [conn EXCEPT ![c] = "closing"], [conn EXCEPT ![c] = "closed"]}
  <2>1. conn = [conn EXCEPT ![c] = conn[c]]
    BY TrafficTypes
  <2> QED BY <2>1 DEF BeginMessage, Flush, PeerCloses, CloseTimeout, Active
<1>2. /\ conn' \in [Clients -> ConnStates]
      /\ \A d \in Clients : /\ conn[d] = "posted" => conn'[d] = "posted"
                            /\ conn'[d] = "lost" => conn[d] = "lost"
  BY <1>1, TrafficTypes DEF ConnStates
<1>3. built
  BY <1>1, TrafficTypes
<1>4. pending' \in [Clients -> BOOLEAN]
  <2>1. pending \in [Clients -> BOOLEAN]
    BY TrafficTypes
  <2>2. pending' = pending \/ pending' = [pending EXCEPT ![c] = FALSE]
    BY DEF BeginMessage, Flush, PeerCloses, CloseTimeout
  <2> QED BY <2>1, <2>2
<1>5. handling' \in [Loops -> Clients \cup {None, Datagram}]
  <2>1. handling \in [Loops -> Clients \cup {None, Datagram}]
    BY TrafficTypes
  <2>2. handling' = handling \/ handling' = [handling EXCEPT ![worker[c]] = c]
    BY DEF BeginMessage, Flush, PeerCloses, CloseTimeout
  <2> QED BY <2>1, <2>2
<1> QED BY <1>1, <1>2, <1>3, <1>4, <1>5, ClientStep

LEMMA AcceptStep == ASSUME LifecycleInv, NEW c \in Clients, Accept(c) PROVE LifecycleInv'
<1>1. PICK w \in Workers :
          /\ worker' = [worker EXCEPT ![c] = w]
          /\ conn' = [conn EXCEPT ![c] = IF loop[w].owned THEN "posted" ELSE "lost"]
          /\ events' = Posted(w, c)
  BY DEF Accept
<1>2. /\ loop[Acceptor].thread = "cbs" /\ conn[c] = "backlog"
      /\ UNCHANGED <<program, loop, handling, pool, udp, listen, pending>>
  BY DEF Accept, InCallbacks
<1>3. loop[w].owned
  BY <1>2 DEF LifecycleInv, AcceptorInv, Serving, InLoop
<1>4. conn' = [conn EXCEPT ![c] = "posted"] /\ events' = [events EXCEPT ![w] = Append(@, c)]
  BY <1>1, <1>3 DEF Posted
<1>5. /\ conn' \in [Clients -> ConnStates] /\ conn'[c] = "posted"
      /\ \A d \in Clients \ {c} : conn'[d] = conn[d]
      /\ worker' \in [Clients -> Workers \cup {None}] /\ worker'[c] = w
      /\ \A d \in Clients \ {c} : worker'[d] = worker[d]
  BY <1>1, <1>4, TrafficTypes DEF ConnStates
<1>6. /\ UnbuiltInv' /\ MainInv' /\ AcceptorInv' /\ StopInv' /\ LoopInv'
      /\ loop' \in [Loops -> LoopObjects]
  <2>1. built /\ loop' = loop /\ main' = main /\ built' = built /\ pool' = pool /\ listen' = listen
    BY <1>2, CallbackFacts, EventTypes DEF program
  <2> QED BY <2>1, LoopFrame
<1>7. EventInv' /\ EventType'
  <2>1. EventInv /\ EventType
    BY DEF LifecycleInv, TypeOK, EventType, AnyEvent
  <2>2. /\ events[w] \in Seq(EventsOf(w)) /\ events[w] \in Seq(AnyEvent)
        /\ c \in EventsOf(w) /\ c \in AnyEvent /\ w \in Loops
    BY <2>1, EventTypes DEF EventInv, EventType, AnyEvent
  <2>3. Append(events[w], c) \in Seq(EventsOf(w)) /\ Append(events[w], c) \in Seq(AnyEvent)
    BY <2>2
  <2>4. EventType'
    BY <1>4, <2>1, <2>3 DEF EventType
  <2>5. \A l \in Loops : events'[l] \in Seq(EventsOf(l))
    BY <1>4, <2>1, <2>3 DEF EventInv, EventType
  <2>6. ASSUME NEW x \in Workers PROVE WaitsOnce(events[x], x)'
    <3> DEFINE q == events[x]
    <3>1. WaitsOnce(q, x) /\ x \in Loops /\ q \in Seq(AnyEvent)
      BY <2>1, EventTypes DEF EventInv, EventType
    <3>2. \A i \in 1 .. Len(q) : q[i] # c
      BY <1>2, <3>1 DEF WaitsOnce
    <3>3. CASE x # w
      <4>1. events'[x] = q
        BY <1>4, <3>1, <3>3, <2>1 DEF EventType
      <4> HIDE DEF q
      <4> QED BY <1>5, <3>1, <3>2, <4>1 DEF WaitsOnce
    <3>4. CASE x = w
      <4>1. events'[x] = Append(q, c)
        BY <1>4, <3>1, <3>4, <2>1 DEF EventType
      <4> HIDE DEF q
      <4>2. /\ Len(q) \in Nat /\ Len(Append(q, c)) = Len(q) + 1
            /\ \A i \in 1 .. Len(q) : Append(q, c)[i] = q[i]
            /\ Append(q, c)[Len(q) + 1] = c
        BY <3>1
      <4>3. ASSUME NEW i \in 1 .. Len(q) + 1, Append(q, c)[i] \in Clients
            PROVE  /\ conn'[Append(q, c)[i]] = "posted"
                   /\ worker'[Append(q, c)[i]] = x
                   /\ \A j \in 1 .. Len(q) + 1 : Append(q, c)[j] = Append(q, c)[i] => j = i
        <5>1. CASE i = Len(q) + 1
          BY <5>1, <1>5, <3>2, <3>4, <4>2
        <5>2. CASE i \in 1 .. Len(q)
          <6>1. Append(q, c)[i] = q[i] /\ q[i] # c /\ q[i] \in Clients
            BY <5>2, <4>2, <4>3, <3>2
          <6>2. /\ conn[q[i]] = "posted" /\ worker[q[i]] = x
                /\ \A j \in 1 .. Len(q) : q[j] = q[i] => j = i
            BY <6>1, <5>2, <3>1 DEF WaitsOnce
          <6> QED BY <6>1, <6>2, <1>5, <4>2
        <5> QED BY <5>1, <5>2, <4>2
      <4>4. Len(events'[x]) = Len(q) + 1
        BY <4>1, <4>2
      <4>5. ASSUME NEW i \in 1 .. Len(events'[x]), events'[x][i] \in Clients
            PROVE  /\ conn'[events'[x][i]] = "posted"
                   /\ worker'[events'[x][i]] = x
                   /\ \A j \in 1 .. Len(events'[x]) : events'[x][j] = events'[x][i] => j = i
        <5>1. i \in 1 .. Len(q) + 1 /\ events'[x][i] = Append(q, c)[i] /\ Append(q, c)[i] \in Clients
          BY <4>1, <4>4, <4>5
        <5>2. /\ conn'[Append(q, c)[i]] = "posted"
              /\ worker'[Append(q, c)[i]] = x
              /\ \A j \in 1 .. Len(q) + 1 : Append(q, c)[j] = Append(q, c)[i] => j = i
          BY <4>3, <5>1
        <5>3. \A j \in 1 .. Len(events'[x]) : j \in 1 .. Len(q) + 1 /\ events'[x][j] = Append(q, c)[j]
          BY <4>1, <4>4
        <5> QED BY <5>1, <5>2, <5>3
      <4> QED BY <4>5 DEF WaitsOnce
    <3> QED BY <3>3, <3>4
  <2> QED BY <2>4, <2>5, <2>6 DEF EventInv
<1>8. TypeOK'
  <2>1. TypeOK
    BY DEF LifecycleInv
  <2>2. /\ main' = main /\ built' = built /\ dying' = dying /\ calls' = calls
        /\ protobuf' = protobuf /\ handling' = handling /\ pool' = pool
        /\ udp' = udp /\ listen' = listen /\ pending' = pending
    BY <1>2 DEF program
  <2> HIDE DEF KStatus
  <2> QED BY <1>5, <1>6, <1>7, <2>1, <2>2, ZenonT(90) DEF TypeOK, EventType, AnyEvent, ConnStates
<1>9. PostsAlive'
  <2>1. \A d \in Clients : conn'[d] # "lost"
    BY <1>5 DEF LifecycleInv, PostsAlive
  <2> QED BY <2>1 DEF PostsAlive
<1> QED BY <1>6, <1>7, <1>8, <1>9 DEF LifecycleInv

-----------------------------------------------------------------------------
(* The main thread once the server is built.                               *)

MainAt == {"udp", "tcp", "buffer", "start udp", "wait udp", "start pool",
           "wait pool", "start acceptor", "wait acceptor", "up", "stop udp",
           "halt udp", "join udp", "halt acceptor", "join acceptor",
           "halt pool", "join pool", "stopped", "done"} \cup Died

LEMMA MainTypes ==
    ASSUME LifecycleInv, main' \in MainAt,
           built' = built, dying' \in BOOLEAN, protobuf' \in BOOLEAN, calls' \in 0 .. MaxCalls,
           loop' \in [Loops -> LoopObjects], EventType', pool' \in KStatus,
           UNCHANGED <<handling, network>>
    PROVE  TypeOK' /\ PostsAlive'
<1>1. TypeOK /\ PostsAlive
  BY DEF LifecycleInv
<1>2. /\ handling' = handling /\ udp' = udp /\ listen' = listen /\ conn' = conn
      /\ worker' = worker /\ pending' = pending
  BY DEF network
<1>3. TypeOK'
  <2> HIDE DEF KStatus
  <2> QED BY <1>1, <1>2, ZenonT(90) DEF TypeOK, MainAt, EventType, AnyEvent
<1> QED BY <1>1, <1>2, <1>3 DEF PostsAlive

\* A statement that moves the main thread only.
LEMMA MainMoves ==
    ASSUME LifecycleInv, main' \in MainAt,
           built' = built, dying' \in BOOLEAN, protobuf' \in BOOLEAN, calls' \in 0 .. MaxCalls,
           UNCHANGED <<loop, events, pool, handling, network>>
    PROVE  /\ TypeOK' /\ PostsAlive' /\ LoopInv' /\ EventInv'
           /\ main' \in Died /\ built => LifecycleInv'
<1>1. /\ loop \in [Loops -> LoopObjects] /\ EventType /\ pool \in KStatus
      /\ LoopInv /\ EventInv
  BY DEF LifecycleInv, TypeOK, EventType, AnyEvent
<1>2. TypeOK' /\ PostsAlive'
  <2>1. loop' \in [Loops -> LoopObjects] /\ EventType' /\ pool' \in KStatus
    BY <1>1 DEF EventType
  <2> QED BY <2>1, MainTypes
<1>3. LoopInv' /\ EventInv'
  BY <1>1, SameEvents DEF LoopInv, network
<1>4. ASSUME main' \in Died, built PROVE UnbuiltInv' /\ MainInv' /\ AcceptorInv' /\ StopInv'
  <2>1. UnbuiltInv'
    BY <1>4 DEF UnbuiltInv
  <2>2. MainInv'
    BY <1>4 DEF LifecycleInv, MainInv
  <2>3. AcceptorInv'
    BY <1>4 DEF LifecycleInv, AcceptorInv, network
  <2>4. StopInv'
    BY <1>4 DEF LifecycleInv, StopInv
  <2> QED BY <2>1, <2>2, <2>3, <2>4
<1> QED BY <1>2, <1>3, <1>4 DEF LifecycleInv

LEMMA ProgramTypes ==
    ASSUME LifecycleInv
    PROVE  /\ main \in MainAt /\ dying \in BOOLEAN /\ protobuf \in BOOLEAN /\ calls \in 0 .. MaxCalls
           /\ loop \in [Loops -> LoopObjects] /\ EventType /\ EventInv /\ pool \in KStatus
<1>1. TypeOK /\ EventInv
  BY DEF LifecycleInv
<1>2. dying \in BOOLEAN /\ protobuf \in BOOLEAN
  BY <1>1, Zenon DEF TypeOK
<1> QED BY <1>1, <1>2 DEF TypeOK, MainAt, EventType, AnyEvent

LEMMA WaitUdpStep ==
    ASSUME LifecycleInv, WaitLoop(Udp, "wait udp", "start pool") PROVE LifecycleInv'
<1>1. /\ main = "wait udp" /\ main' = "start pool" /\ loop[Udp].lstat >= kRunning
      /\ UNCHANGED <<dying, calls, protobuf, built, loop, events, handling, pool, network>>
  BY DEF WaitLoop, At
<1>2. TypeOK' /\ PostsAlive' /\ LoopInv' /\ EventInv'
  BY <1>1, ProgramTypes, MainMoves DEF MainAt
<1>3. ~Entering(loop[Udp])
  <2>1. loop[Udp] \in LoopObjects /\ Coherent(loop[Udp])
    BY LoopFacts, EventTypes DEF LifecycleInv
  <2>2. loop[Udp].lstat >= kRunning
    BY <1>1
  <2>a. loop[Udp].lstat \in KStatus
    BY <2>1 DEF LoopObjects
  <2>3. loop[Udp].lstat # kInitialized
    <3> HIDE DEF KStatus, kRunning, kInitialized
    <3> QED BY <2>2, <2>a, RunningStatus, Zenon
  <2> QED BY <2>1, <2>3, CoherentFacts
<1>4. UnbuiltInv'
  BY <1>1 DEF LifecycleInv, UnbuiltInv
<1>5. MainInv'
  BY <1>1, <1>3 DEF LifecycleInv, MainInv
<1>6. AcceptorInv'
  BY <1>1 DEF LifecycleInv, AcceptorInv, network
<1>s. StopInv'
  BY <1>1, ElsewhereFacts DEF LifecycleInv, StopInv
<1> QED BY <1>2, <1>4, <1>5, <1>6, <1>s DEF LifecycleInv

LEMMA WaitAcceptorStep ==
    ASSUME LifecycleInv, WaitLoop(Acceptor, "wait acceptor", "up") PROVE LifecycleInv'
<1>1. /\ main = "wait acceptor" /\ main' = "up" /\ loop[Acceptor].lstat >= kRunning
      /\ UNCHANGED <<dying, calls, protobuf, built, loop, events, handling, pool, network>>
  BY DEF WaitLoop, At
<1>2. TypeOK' /\ PostsAlive' /\ LoopInv' /\ EventInv'
  BY <1>1, ProgramTypes, MainMoves DEF MainAt
<1>3. ~Entering(loop[Acceptor])
  <2>1. loop[Acceptor] \in LoopObjects /\ Coherent(loop[Acceptor])
    BY LoopFacts, EventTypes DEF LifecycleInv
  <2>2. loop[Acceptor].lstat >= kRunning
    BY <1>1
  <2>a. loop[Acceptor].lstat \in KStatus
    BY <2>1 DEF LoopObjects
  <2>3. loop[Acceptor].lstat # kInitialized
    <3> HIDE DEF KStatus, kRunning, kInitialized
    <3> QED BY <2>2, <2>a, RunningStatus, Zenon
  <2> QED BY <2>1, <2>3, CoherentFacts
<1>4. UnbuiltInv'
  BY <1>1 DEF LifecycleInv, UnbuiltInv
<1>5. MainInv'
  BY <1>1, <1>3 DEF LifecycleInv, MainInv
<1>6. AcceptorInv'
  BY <1>1 DEF LifecycleInv, AcceptorInv, UnbuiltInv, network
<1>s. StopInv'
  BY <1>1, ElsewhereFacts DEF LifecycleInv, StopInv
<1> QED BY <1>2, <1>4, <1>5, <1>6, <1>s DEF LifecycleInv

\* A pool that runs, stops or has stopped: no worker is on its way in.
LEMMA PoolEntered ==
    ASSUME LifecycleInv, pool >= kRunning
    PROVE  \A w \in Workers : ~Entering(loop[w])
<1>1. \A w \in Workers : loop[w].thread \in {"poll", "cbs", "ended", "gone"} \cup StoppingSelf
  <2>1. CASE pool \in {kRunning, kStopping}
    BY <2>1, LoopFacts, CoherentFacts, EventTypes DEF LifecycleInv, MainInv
  <2>2. CASE pool = kStopped
    BY <2>2 DEF LifecycleInv, MainInv
  <2> QED BY <2>1, <2>2, ProgramTypes
<1> QED BY <1>1 DEF Entering, StoppingSelf

LEMMA WaitPoolStep == ASSUME LifecycleInv, WaitPool PROVE LifecycleInv'
<1>1. /\ main = "wait pool" /\ main' = "start acceptor" /\ pool >= kRunning
      /\ UNCHANGED <<dying, calls, protobuf, built, loop, events, handling, pool, network>>
  BY DEF WaitPool, At
<1>2. TypeOK' /\ PostsAlive' /\ LoopInv' /\ EventInv'
  BY <1>1, ProgramTypes, MainMoves DEF MainAt
<1>3. \A w \in Workers : ~Entering(loop[w])
  BY <1>1, PoolEntered
<1>4. UnbuiltInv'
  BY <1>1 DEF LifecycleInv, UnbuiltInv
<1>5. MainInv'
  <2>a. pool >= kRunning /\ pool \in KStatus
    BY <1>1, ProgramTypes
  <2>1. pool # kStarting
    BY <2>a
  <2>2. MainInv
    BY DEF LifecycleInv
  <2> QED BY <1>1, <1>3, <2>1, <2>2 DEF MainInv
<1>6. AcceptorInv'
  BY <1>1 DEF LifecycleInv, AcceptorInv, network
<1>s. StopInv'
  BY <1>1, ElsewhereFacts DEF LifecycleInv, StopInv
<1> QED BY <1>2, <1>4, <1>5, <1>6, <1>s DEF LifecycleInv

LEMMA CallStep == ASSUME LifecycleInv, Call PROVE LifecycleInv'
<1>1. /\ main = "up" /\ main' \in {"start udp", "stop udp"} /\ (main' = "start udp" => built)
      /\ UNCHANGED <<built, loop, events, handling, pool, network>>
  BY DEF Call, CallStart, CallStop, Destroy
<1>2. dying' \in BOOLEAN /\ protobuf' \in BOOLEAN
  BY ProgramTypes, Zenon DEF Call, CallStart, CallStop, Destroy
<1>3. calls' \in 0 .. MaxCalls
  <2>1. \/ calls' = calls
        \/ calls < MaxCalls /\ calls' = calls + 1
    BY DEF Call, CallStart, CallStop, Destroy
  <2> QED BY <2>1, ProgramTypes, LifecycleAssumption
<1>4. TypeOK' /\ PostsAlive' /\ LoopInv' /\ EventInv'
  BY <1>1, <1>2, <1>3, MainMoves DEF MainAt
<1>5. UnbuiltInv'
  BY <1>1 DEF LifecycleInv, UnbuiltInv, network
<1>6. MainInv'
  BY <1>1 DEF LifecycleInv, MainInv
<1>7. AcceptorInv'
  BY <1>1 DEF LifecycleInv, AcceptorInv, network
<1>s. StopInv'
  BY <1>1, ElsewhereFacts DEF LifecycleInv, StopInv
<1> QED BY <1>4, <1>5, <1>6, <1>7, <1>s DEF LifecycleInv

\* A thread is started: its object is spawned, or std::terminate.
StartOutcome(l, from, to) ==
    /\ main = from /\ main' \in {to, "terminated"} /\ UNCHANGED <<dying, calls, protobuf>>
    /\ \/ loop' = loop /\ (loop[l].thread # "none" \/ main' = "terminated")
       \/ /\ loop' \in [Loops -> LoopObjects] /\ LoopInv'
          /\ \A k \in Loops \ {l} : loop'[k] = loop[k]
          /\ main' = to
          /\ loop'[l].thread = "begin" /\ loop'[l].tstat = kStarting
          /\ loop'[l].owned = loop[l].owned /\ loop'[l].ready = FALSE
          /\ loop'[l].stop = "no" /\ loop'[l].quit = loop[l].quit
          /\ loop[l].owned => loop[l].thread = "none"

LEMMA StartThreadFacts ==
    ASSUME LifecycleInv, NEW l \in Loops, NEW from, NEW to, StartThread(l, from, to), ~loop[l].ready,
           loop[l].stop = "no"
    PROVE  StartOutcome(l, from, to)
<1>1. CASE ~Startable(loop[l].tstat)
  <2>1. loop[l] \in LoopObjects /\ Coherent(loop[l])
    BY LoopFacts DEF LifecycleInv
  <2>2. loop[l].thread # "none"
    BY <1>1, <2>1, CoherentFacts DEF Startable
  <2> QED BY <1>1, <2>2 DEF StartThread, At, StartOutcome
<1>2. CASE Startable(loop[l].tstat) /\ loop[l].joinable
  BY <1>2 DEF StartThread, At, StartOutcome
<1>3. CASE Startable(loop[l].tstat) /\ ~loop[l].joinable
  <2> DEFINE r == loop[l]
             q == Spawned(r)
  <2>1. r \in LoopObjects /\ Coherent(r)
    BY LoopFacts DEF LifecycleInv
  <2>2. r.thread \in {"none", "gone"}
    BY <1>3, <2>1, CoherentFacts
  <2>3. /\ q \in LoopObjects /\ Coherent(q) /\ q.thread = "begin" /\ q.tstat = kStarting
        /\ q.owned = r.owned /\ q.ready = FALSE /\ q.stop = "no" /\ q.quit = r.quit
        /\ r.owned => r.thread = "none"
    BY <2>1, <2>2, SpawnedCoherent, CoherentFacts
  <2>4. At(from, to) /\ loop' = [loop EXCEPT ![l] = q]
    BY <1>3 DEF StartThread
  <2> HIDE DEF q
  <2>5. loop' \in [Loops -> LoopObjects] /\ LoopInv' /\ loop'[l] = q
        /\ \A k \in Loops \ {l} : loop'[k] = loop[k]
    BY <2>3, <2>4, UpdateLoop DEF LifecycleInv
  <2> QED BY <2>3, <2>4, <2>5 DEF At, StartOutcome
<1> QED BY <1>1, <1>2, <1>3

\* A statement that may post an event, or change one of the loops.
LEMMA MainPosts ==
    ASSUME LifecycleInv, main' \in MainAt, UNCHANGED <<dying, calls, protobuf, built>>,
           loop' \in [Loops -> LoopObjects], pool' \in KStatus, UNCHANGED <<handling, network>>,
           \/ events' = events
           \/ \E l \in Loops : \E ev \in EventsOf(l) : ev \notin Clients /\ events' = Posted(l, ev)
    PROVE  TypeOK' /\ PostsAlive' /\ EventInv'
<1>1. EventInv /\ EventType /\ conn' = conn /\ worker' = worker
  BY ProgramTypes DEF network
<1>2. EventInv' /\ EventType'
  <2>1. CASE events' = events
    BY <1>1, <2>1, SameEvents DEF EventType
  <2>2. CASE \E l \in Loops : \E ev \in EventsOf(l) : ev \notin Clients /\ events' = Posted(l, ev)
    BY <1>1, <2>2, PostedEvents
  <2> QED BY <2>1, <2>2
<1>3. dying' \in BOOLEAN /\ protobuf' \in BOOLEAN /\ calls' \in 0 .. MaxCalls
  <2>1. dying' = dying /\ protobuf' = protobuf /\ calls' = calls
    OBVIOUS
  <2> QED BY <2>1, ProgramTypes, Zenon
<1> QED BY <1>2, <1>3, MainTypes

LEMMA StartUdpStep == ASSUME LifecycleInv, StartUdp PROVE LifecycleInv'
<1>1. /\ UNCHANGED <<built, handling, pool, network>>
      /\ ~loop[Udp].ready /\ Udp \in Loops /\ \A l \in Loops : loop[l].stop = "no"
  BY EventTypes, ElsewhereFacts DEF StartUdp, StartThread, At, LifecycleInv, MainInv
<1>2. \/ events' = Posted(Udp, "recvAgain") /\ loop' = loop /\ At("start udp", "wait udp")
      \/ events' = events /\ StartThread(Udp, "start udp", "wait udp")
  BY DEF StartUdp
<1>3. /\ main = "start udp" /\ main' \in {"wait udp"} \cup Died /\ UNCHANGED <<dying, calls, protobuf>>
      /\ \/ loop' = loop
         \/ /\ loop' \in [Loops -> LoopObjects] /\ LoopInv'
            /\ \A k \in Loops \ {Udp} : loop'[k] = loop[k]
            /\ main' = "wait udp"
            /\ loop'[Udp].ready = FALSE /\ loop'[Udp].stop = "no"
  <2>1. CASE StartThread(Udp, "start udp", "wait udp")
    <3>1. StartOutcome(Udp, "start udp", "wait udp")
      BY <1>1, <2>1, StartThreadFacts
    <3> QED BY <3>1 DEF StartOutcome
  <2>2. CASE loop' = loop /\ At("start udp", "wait udp")
    BY <2>2 DEF At
  <2> QED BY <1>2, <2>1, <2>2
<1>4. loop' \in [Loops -> LoopObjects] /\ LoopInv'
  BY <1>3 DEF LifecycleInv, TypeOK, LoopInv
<1>5. TypeOK' /\ PostsAlive' /\ EventInv'
  <2>1. main' \in MainAt /\ pool' \in KStatus
    BY <1>1, <1>3, ProgramTypes DEF MainAt
  <2>2. \/ events' = events
        \/ \E l \in Loops : \E ev \in EventsOf(l) : ev \notin Clients /\ events' = Posted(l, ev)
    BY <1>1, <1>2, EventTypes, LifecycleAssumption
  <2> QED BY <1>1, <1>3, <1>4, <2>1, <2>2, MainPosts
<1>6. built
  BY <1>3 DEF LifecycleInv, UnbuiltInv
<1>7. UnbuiltInv'
  BY <1>1, <1>3, <1>6 DEF UnbuiltInv
<1>8. \A k \in Loops \ {Udp} : loop'[k] = loop[k]
  BY <1>3
<1>9. MainInv'
  <2>1. MainInv
    BY DEF LifecycleInv
  <2>2. \A w \in Workers \cup {Acceptor} : loop'[w] = loop[w] /\ ~Entering(loop[w])
    BY <1>3, <1>8, <2>1, EventTypes DEF MainInv
  <2>3. pool' = pool /\ ~loop'[Udp].ready
    BY <1>1, <1>3
  <2>4. Entering(loop'[Udp]) => main' \in {"wait udp"} \cup Died
    BY <1>3
  <2>5. main' # "done"
    BY <1>3
  <2>6. pool # kStarting
    BY <1>3, <2>1 DEF MainInv
  <2> QED BY <2>1, <2>2, <2>3, <2>4, <2>5, <2>6 DEF MainInv
<1>10. AcceptorInv'
  <2>1. \A w \in Workers \cup {Acceptor} : loop'[w] = loop[w]
    BY <1>8, EventTypes
  <2> QED BY <1>1, <1>3, <2>1 DEF LifecycleInv, AcceptorInv, network
<1>11. StopInv'
  <2>1. StopInv
    BY DEF LifecycleInv
  <2>2. CASE loop' = loop
    BY <1>1, <2>1, <2>2 DEF StopInv
  <2>3. CASE loop' # loop
    BY <1>1, <1>3, <2>1, <2>3, EventTypes DEF StopInv
  <2> QED BY <2>2, <2>3
<1> QED BY <1>4, <1>5, <1>7, <1>9, <1>10, <1>11 DEF LifecycleInv

LEMMA StartAcceptorStep == ASSUME LifecycleInv, StartAcceptor PROVE LifecycleInv'
<1>1. /\ UNCHANGED <<built, handling, pool, network>>
      /\ ~loop[Acceptor].ready /\ Acceptor \in Loops /\ \A l \in Loops : loop[l].stop = "no"
      /\ events' = Posted(Acceptor, "startAccept")
  BY EventTypes, ElsewhereFacts DEF StartAcceptor, StartThread, At, LifecycleInv, MainInv
<1>2. StartThread(Acceptor, "start acceptor", "wait acceptor")
  BY DEF StartAcceptor
<1>3. /\ main = "start acceptor" /\ main' \in {"wait acceptor"} \cup Died /\ UNCHANGED <<dying, calls, protobuf>>
      /\ \/ loop' = loop /\ (loop[Acceptor].thread # "none" \/ main' = "terminated")
         \/ /\ loop' \in [Loops -> LoopObjects] /\ LoopInv'
            /\ \A k \in Loops \ {Acceptor} : loop'[k] = loop[k]
            /\ main' = "wait acceptor"
            /\ loop'[Acceptor].ready = FALSE
            /\ loop'[Acceptor].thread = "begin" /\ loop'[Acceptor].tstat = kStarting
            /\ loop'[Acceptor].owned => loop[Acceptor].owned /\ loop[Acceptor].thread = "none"
            /\ loop'[Acceptor].stop = "no" /\ loop'[Acceptor].quit = loop[Acceptor].quit
  <2>1. StartOutcome(Acceptor, "start acceptor", "wait acceptor")
    BY <1>1, <1>2, StartThreadFacts
  <2> QED BY <2>1 DEF StartOutcome
<1>4. loop' \in [Loops -> LoopObjects] /\ LoopInv'
  BY <1>3 DEF LifecycleInv, TypeOK, LoopInv
<1>5. TypeOK' /\ PostsAlive' /\ EventInv'
  <2>1. main' \in MainAt /\ pool' \in KStatus
    BY <1>1, <1>3, ProgramTypes DEF MainAt
  <2>2. \E l \in Loops : \E ev \in EventsOf(l) : ev \notin Clients /\ events' = Posted(l, ev)
    BY <1>1, EventTypes, LifecycleAssumption
  <2> QED BY <1>1, <1>3, <1>4, <2>1, <2>2, MainPosts
<1>6. built
  BY <1>3 DEF LifecycleInv, UnbuiltInv
<1>7. UnbuiltInv'
  BY <1>1, <1>3, <1>6 DEF UnbuiltInv
<1>8. \A k \in Loops \ {Acceptor} : loop'[k] = loop[k]
  BY <1>3
<1>9. MainInv'
  <2>1. MainInv
    BY DEF LifecycleInv
  <2>2. \A w \in Workers \cup {Udp} : loop'[w] = loop[w] /\ ~Entering(loop[w])
    BY <1>3, <1>8, <2>1, EventTypes DEF MainInv
  <2>3. pool' = pool /\ ~loop'[Acceptor].ready
    BY <1>1, <1>3
  <2>4. Entering(loop'[Acceptor]) => main' \in {"wait acceptor"} \cup Died
    BY <1>3
  <2>5. main' # "done"
    BY <1>3
  <2>6. pool # kStarting
    BY <1>3, <2>1 DEF MainInv
  <2> QED BY <2>1, <2>2, <2>3, <2>4, <2>5, <2>6 DEF MainInv
<1>10. AcceptorInv'
  <2>1. \A w \in Workers : loop'[w] = loop[w]
    BY <1>8, EventTypes
  <2>2. AcceptorInv /\ listen' = listen
    BY <1>1 DEF LifecycleInv, network
  <2>3. CASE loop' = loop /\ (loop[Acceptor].thread # "none" \/ main' = "terminated")
    BY <1>1, <1>3, <2>2, <2>3 DEF AcceptorInv
  <2>4. CASE /\ main' = "wait acceptor"
             /\ loop'[Acceptor].thread = "begin" /\ loop'[Acceptor].tstat = kStarting
             /\ loop'[Acceptor].owned => loop[Acceptor].owned /\ loop[Acceptor].thread = "none"
    <3>1. built' = built
      BY <1>1
    <3>2. loop'[Acceptor].owned =>
             /\ \A w \in Workers : loop[w].owned
             /\ built => listen \in {"listening", "accepting"}
      BY <2>1, <2>2, <2>4 DEF AcceptorInv, Serving
    <3>3. loop'[Acceptor].owned =>
             /\ \A w \in Workers : loop'[w].owned
             /\ built' => listen' \in {"listening", "accepting"}
      BY <3>1, <3>2, <2>1, <2>2
    <3>4. loop'[Acceptor].thread \notin InLoop
      BY <2>4 DEF InLoop, StoppingSelf
    <3>5. loop'[Acceptor].tstat # kStopping
      <4>1. kStarting # kStopping
        BY StatusDistinct
      <4> HIDE DEF kStarting, kStopping
      <4> QED BY <2>4, <4>1, Zenon
    <3> QED BY <3>3, <3>4, <3>5, <2>4 DEF AcceptorInv, Serving
  <2> QED BY <1>3, <2>3, <2>4
<1>11. StopInv'
  <2>1. StopInv
    BY DEF LifecycleInv
  <2>2. CASE loop' = loop
    BY <1>1, <2>1, <2>2 DEF StopInv
  <2>3. CASE loop' # loop
    BY <1>1, <1>3, <2>1, <2>3, EventTypes DEF StopInv
  <2> QED BY <2>2, <2>3
<1> QED BY <1>4, <1>5, <1>7, <1>9, <1>10, <1>11 DEF LifecycleInv

LEMMA StartPoolStep == ASSUME LifecycleInv, StartPool PROVE LifecycleInv'
<1>1. /\ main = "start pool" /\ main' = "wait pool" /\ UNCHANGED <<dying, calls, protobuf>>
      /\ UNCHANGED <<built, handling, network>>
  BY DEF StartPool, At
<1>2. built
  BY <1>1 DEF LifecycleInv, UnbuiltInv
<1>3. UnbuiltInv'
  BY <1>1, <1>2 DEF UnbuiltInv
<1>4. /\ MainInv /\ AcceptorInv /\ listen' = listen
      /\ ~Entering(loop[Udp]) /\ ~Entering(loop[Acceptor]) /\ \A w \in Workers : ~Entering(loop[w])
  BY <1>1 DEF LifecycleInv, MainInv, network
<1>a. StopInv /\ \A l \in Loops : loop[l].stop = "no"
  BY <1>1, ElsewhereFacts DEF LifecycleInv
<1>5. CASE ~Startable(pool)
  <2>1. UNCHANGED <<pool, loop, events>>
    BY <1>5 DEF StartPool
  <2>2. TypeOK' /\ PostsAlive' /\ LoopInv' /\ EventInv'
    BY <1>1, <2>1, ProgramTypes, MainMoves DEF MainAt
  <2>3. MainInv'
    BY <1>1, <1>4, <2>1 DEF MainInv
  <2>4. AcceptorInv'
    BY <1>1, <1>4, <2>1 DEF AcceptorInv
  <2>5. StopInv'
    BY <1>a, <2>1 DEF StopInv
  <2> QED BY <1>3, <2>2, <2>3, <2>4, <2>5 DEF LifecycleInv
<1>6. CASE Startable(pool)
  <2> DEFINE q == Spawned(NewLoop)
  <2>1. /\ pool' = kStarting
        /\ loop' = [l \in Loops |-> IF l \in Workers THEN q ELSE loop[l]]
        /\ events' = [l \in Loops |-> IF l \in Workers THEN <<>> ELSE events[l]]
    BY <1>6 DEF StartPool
  <2>2. q \in LoopObjects /\ Coherent(q) /\ q.owned /\ q.ready = FALSE /\ q.thread = "begin"
        /\ q.stop = "no" /\ ~q.quit
    BY NewLoopCoherent
  <2> HIDE DEF q
  <2>3. /\ loop' \in [Loops -> LoopObjects] /\ LoopInv'
        /\ \A w \in Workers : loop'[w] = q
        /\ loop'[Udp] = loop[Udp] /\ loop'[Acceptor] = loop[Acceptor]
    BY <2>1, <2>2, ProgramTypes, LoopFacts, EventTypes DEF LifecycleInv, LoopInv
  <2>4. EventInv' /\ EventType'
    <3>1. EventInv /\ EventType
      BY ProgramTypes
    <3>2. ASSUME NEW S PROVE <<>> \in Seq(S)
      OBVIOUS
    <3>3. EventType'
      BY <2>1, <3>1, <3>2 DEF EventType
    <3>4. \A l \in Loops : events'[l] \in Seq(EventsOf(l))
      BY <2>1, <3>1, <3>2 DEF EventInv
    <3>5. ASSUME NEW w \in Workers PROVE WaitsOnce(events[w], w)'
      <4>1. events'[w] = <<>>
        BY <2>1, EventTypes
      <4> QED BY <4>1 DEF WaitsOnce
    <3> QED BY <3>3, <3>4, <3>5 DEF EventInv
  <2>5. TypeOK' /\ PostsAlive'
    <3>1. pool' \in KStatus
      BY <2>1
    <3>2. main' \in MainAt /\ dying' \in BOOLEAN /\ protobuf' \in BOOLEAN /\ calls' \in 0 .. MaxCalls
      <4>1. main' = "wait pool" /\ dying' = dying /\ protobuf' = protobuf /\ calls' = calls
        BY <1>1
      <4> QED BY <4>1, ProgramTypes, Zenon DEF MainAt
    <3> QED BY <1>1, <2>3, <2>4, <3>1, <3>2, MainTypes
  <2>6. MainInv'
    <3>1. /\ ~Entering(loop'[Udp]) /\ ~Entering(loop'[Acceptor])
          /\ ~loop'[Udp].ready /\ ~loop'[Acceptor].ready
      BY <1>4, <2>3 DEF MainInv
    <3>2. pool' = kStarting /\ main' = "wait pool"
      BY <1>1, <2>1
    <3>3. pool' \notin {kStarted, kRunning, kStopping} /\ pool' # kStopped
      <4>1. kStarting \notin {kStarted, kRunning, kStopping} /\ kStarting # kStopped
        BY StatusDistinct
      <4> HIDE DEF kStarting, kStarted, kRunning, kStopping, kStopped
      <4> QED BY <3>2, <4>1
    <3> HIDE DEF kStarting, kStarted, kRunning, kStopping, kStopped
    <3> QED BY <3>1, <3>2, <3>3 DEF MainInv
  <2>7. AcceptorInv'
    <3>1. \A w \in Workers : loop'[w].owned
      BY <2>2, <2>3
    <3> QED BY <1>1, <1>4, <2>3, <3>1 DEF AcceptorInv
  <2>8. StopInv'
    <3>1. \A l \in Loops : loop'[l] = q \/ loop'[l] = loop[l]
      BY <2>1
    <3> QED BY <3>1, <1>a, <2>2 DEF StopInv
  <2> QED BY <1>3, <2>3, <2>4, <2>5, <2>6, <2>7, <2>8 DEF LifecycleInv
<1> QED BY <1>5, <1>6

LEMMA CloseUdpStep == ASSUME LifecycleInv, CloseUdp PROVE LifecycleInv'
<1>1. /\ main = "stop udp" /\ main' = "halt udp"
      /\ dying' = dying /\ calls' = calls /\ protobuf' = protobuf
      /\ built' = built /\ loop' = loop /\ handling' = handling /\ pool' = pool /\ listen' = listen
      /\ conn' = conn /\ worker' = worker /\ pending' = pending
      /\ udp' \in {udp, "closing"}
      /\ events' = events \/ events' = Posted(Udp, "closeUdp")
  BY DEF CloseUdp, At
<1>2. EventInv' /\ EventType'
  <2>1. "closeUdp" \in EventsOf(Udp) /\ "closeUdp" \notin Clients /\ Udp \in Loops
    BY EventTypes, LifecycleAssumption
  <2>2. CASE events' = events
    BY <1>1, <2>2, SameEvents, ProgramTypes DEF EventType
  <2>3. CASE events' = Posted(Udp, "closeUdp")
    BY <1>1, <2>1, <2>3, PostedEvents, ProgramTypes
  <2> QED BY <1>1, <2>2, <2>3
<1>3. TypeOK'
  <2>1. TypeOK
    BY DEF LifecycleInv
  <2>2. udp' \in {"none", "bound", "reading", "closing", "closed"} /\ main' = "halt udp"
    BY <1>1, <2>1 DEF TypeOK
  <2> HIDE DEF KStatus
  <2> QED BY <1>1, <1>2, <2>1, <2>2, ZenonT(90) DEF TypeOK, EventType, AnyEvent
<1>4. LoopInv' /\ PostsAlive'
  BY <1>1 DEF LifecycleInv, LoopInv, PostsAlive
<1>5. UnbuiltInv'
  BY <1>1 DEF LifecycleInv, UnbuiltInv
<1>6. MainInv' /\ AcceptorInv'
  BY <1>1 DEF LifecycleInv, MainInv, AcceptorInv
<1>s. StopInv'
  BY <1>1, ElsewhereFacts DEF LifecycleInv, StopInv
<1> QED BY <1>2, <1>3, <1>4, <1>5, <1>6, <1>s DEF LifecycleInv

-----------------------------------------------------------------------------
(* The main thread stops and joins the loops.                              *)

Halting == {"halt udp", "join udp", "halt acceptor", "join acceptor", "halt pool", "join pool"}

\* What main leaves of a loop on the way.
Kept(r, q) ==
    /\ q.thread = r.thread /\ q.ready = r.ready /\ q.quit = r.quit
    /\ q.owned => r.owned

\* Nothing enters a loop, and the members of the server are all there.
LEMMA HaltingFacts ==
    ASSUME LifecycleInv, main \in Halting
    PROVE  /\ \A l \in Loops : ~Entering(loop[l])
           /\ pool # kStarting
           /\ main \in {"join udp", "join acceptor", "join pool"} => built
           /\ \A l \in Loops : loop[l].stop # "no" => main = JoinOf(l)
           /\ loop[Acceptor].thread = "none" => ~built
           /\ main # "join acceptor" /\ loop[Acceptor].tstat = kStopping => loop[Acceptor].thread = "gone"
           /\ \A l \in Loops : loop[l].thread # "none" => built
<1>1. MainInv /\ UnbuiltInv /\ StopInv /\ AcceptorInv
  BY DEF LifecycleInv
<1>2. \A l \in Loops : ~Entering(loop[l])
  BY <1>1, EventTypes DEF MainInv, Halting, Loops
<1>3. pool # kStarting
  BY <1>1 DEF MainInv, Halting
<1>4. \A l \in Loops : loop[l].stop # "no" => main = JoinOf(l)
  BY <1>1 DEF StopInv, Halting
<1> QED BY <1>1, <1>2, <1>3, <1>4 DEF UnbuiltInv, AcceptorInv, Halting

\* The acceptor that serves keeps its workers and its socket.
LEMMA ServesOn ==
    ASSUME AcceptorInv, built' = built, listen' = listen,
           Serving(loop'[Acceptor]) => Serving(loop[Acceptor]),
           Serving(loop[Acceptor]) => \A w \in Workers : loop'[w].owned = loop[w].owned
    PROVE  Serving(loop'[Acceptor]) =>
               /\ \A w \in Workers : loop'[w].owned
               /\ built' => listen' \in {"listening", "accepting"}
<1>1. Serving(loop[Acceptor]) =>
         /\ \A w \in Workers : loop[w].owned
         /\ built => listen \in {"listening", "accepting"}
  BY DEF AcceptorInv
<1> QED BY <1>1

\* A statement on the way: no thread moves, and the pool may be told to stop.
LEMMA HaltMoves ==
    ASSUME LifecycleInv, main \in Halting, main' \in Halting \cup {"stopped"},
           main' \in {"join udp", "join acceptor", "join pool"} => built,
           UNCHANGED <<dying, calls, protobuf, built, events, handling, network>>,
           pool' = pool \/ (pool' = kStopping /\ pool \in {kStarted, kRunning}),
           loop' \in [Loops -> LoopObjects],
           \A l \in Loops : Coherent(loop'[l]) /\ Kept(loop[l], loop'[l]),
           \A l \in Loops : loop'[l].stop # "no" => main' = JoinOf(l),
           loop'[Acceptor].tstat = kStopping =>
               loop[Acceptor].thread = "gone" \/ main' = "join acceptor",
           main' \in {"halt pool", "join pool"} => loop[Acceptor].thread \in {"none", "gone"},
           Serving(loop[Acceptor]) => \A w \in Workers : loop'[w].owned = loop[w].owned
    PROVE  LifecycleInv'
<1> USE DEF Kept
<1>1. /\ UnbuiltInv /\ MainInv /\ AcceptorInv /\ StopInv
      /\ Udp \in Loops /\ Acceptor \in Loops /\ Workers \subseteq Loops
  BY EventTypes DEF LifecycleInv
<1>2. LoopInv'
  BY DEF LoopInv
<1>3. TypeOK' /\ PostsAlive' /\ EventInv'
  <2>1. main' \in MainAt /\ pool' \in KStatus
    BY ProgramTypes DEF MainAt, Halting
  <2> QED BY <2>1, MainPosts
<1>4. UnbuiltInv'
  <2>1. \A l \in Loops : loop'[l].thread = loop[l].thread
    OBVIOUS
  <2>2. udp' = udp /\ listen' = listen /\ conn' = conn /\ built' = built
    BY DEF network
  <2>3. ~built => pool' = pool
    <3>1. ~built => pool = kInitialized
      BY <1>1 DEF UnbuiltInv
    <3>2. kInitialized \notin {kStarted, kRunning}
      BY StatusDistinct
    <3> HIDE DEF kInitialized, kStarted, kRunning
    <3> QED BY <3>1, <3>2
  <2>4. ~built => main' \in {"halt udp", "halt acceptor", "halt pool", "stopped"}
    BY DEF Halting
  <2>5. main' \notin {"udp", "tcp", "buffer"}
    BY DEF Halting
  <2>6. CASE built
    BY <2>2, <2>5, <2>6 DEF UnbuiltInv
  <2>7. CASE ~built
    <3>1. /\ \A l \in Loops : loop[l].thread = "none"
          /\ pool = kInitialized /\ udp # "reading" /\ listen # "accepting"
          /\ \A c \in Clients : conn[c] \in {"none", "backlog", "refused"}
      BY <1>1, <2>7 DEF UnbuiltInv
    <3>2. main' \in {"halt udp", "halt acceptor", "halt pool", "stopped"} /\ pool' = pool
      BY <2>3, <2>4, <2>7
    <3> HIDE DEF Kept, kInitialized
    <3> QED BY <2>1, <2>2, <2>5, <2>7, <3>1, <3>2 DEF UnbuiltInv
  <2> QED BY <2>6, <2>7
<1>5. MainInv'
  <2>1. \A l \in Loops : ~Entering(loop'[l])
    BY HaltingFacts DEF Entering
  <2>2. pool' # kStarting
    <3>1. pool # kStarting
      BY HaltingFacts
    <3>2. kStarting # kStopping
      BY StatusDistinct
    <3> HIDE DEF kStarting, kStarted, kRunning, kStopping
    <3> QED BY <3>1, <3>2
  <2>3. pool' \in {kStarted, kRunning, kStopping} => \A w \in Workers : loop'[w].ready
    BY <1>1 DEF MainInv
  <2>4. pool' = kStopped => \A w \in Workers : loop'[w].thread = "gone"
    <3>1. pool = kStopped => \A w \in Workers : loop[w].thread = "gone"
      BY <1>1 DEF MainInv
    <3>2. kStopped # kStopping
      BY StatusDistinct
    <3>3. pool' = kStopped => pool = kStopped
      <4> HIDE DEF kStarted, kRunning, kStopping, kStopped
      <4> QED BY <3>2
    <3>4. \A w \in Workers : loop'[w].thread = loop[w].thread
      BY <1>1
    <3> QED BY <3>1, <3>3, <3>4
  <2>5. ~loop'[Udp].ready /\ ~loop'[Acceptor].ready
    BY <1>1 DEF MainInv
  <2>6. main' # "done"
    BY DEF Halting
  <2> HIDE DEF Kept
  <2> QED BY <1>1, <2>1, <2>2, <2>3, <2>4, <2>5, <2>6 DEF MainInv
<1>6. AcceptorInv'
  <2>1. loop'[Acceptor].thread = loop[Acceptor].thread
    BY <1>1
  <2>2. loop'[Acceptor].thread = "none" => ~built'
    BY <2>1, HaltingFacts
  <2>3. Serving(loop'[Acceptor]) => Serving(loop[Acceptor])
    BY <1>1 DEF Serving
  <2>4. listen' = listen /\ built' = built
    BY DEF network
  <2>5. Serving(loop'[Acceptor]) =>
          /\ \A w \in Workers : loop'[w].owned
          /\ built' => listen' \in {"listening", "accepting"}
    BY <1>1, <2>3, <2>4, ServesOn
  <2> QED BY <2>1, <2>2, <2>5 DEF AcceptorInv
<1>7. StopInv'
  BY <1>1 DEF StopInv
<1> QED BY <1>2, <1>3, <1>4, <1>5, <1>6, <1>7 DEF LifecycleInv

\* One of the loops is touched.
LEMMA HaltsOne ==
    ASSUME LifecycleInv, main \in Halting, main' \in Halting \cup {"stopped"},
           main' \in {"join udp", "join acceptor", "join pool"} => built,
           UNCHANGED <<dying, calls, protobuf, built, events, handling, pool, network>>,
           NEW l \in Loops, NEW q \in LoopObjects, Coherent(q), Kept(loop[l], q),
           loop' = [loop EXCEPT ![l] = q],
           q.stop # "no" => main' = JoinOf(l),
           main' = main \/ \A k \in Loops \ {l} : loop[k].stop = "no",
           q.tstat \in {loop[l].tstat, kStopping},
           l = Acceptor => main' = "join acceptor" \/ q.tstat # kStopping \/ q.thread = "gone",
           main # "join acceptor" \/ main' = "join acceptor" \/ loop[Acceptor].thread = "gone",
           main' \in {"halt pool", "join pool"} => loop[Acceptor].thread \in {"none", "gone"},
           l \in Workers => main = "join pool"
    PROVE  LifecycleInv'
<1>1. /\ loop' \in [Loops -> LoopObjects] /\ LoopInv' /\ loop'[l] = q
      /\ \A k \in Loops \ {l} : loop'[k] = loop[k]
      /\ Udp \in Loops /\ Acceptor \in Loops /\ Workers \subseteq Loops
      /\ Acceptor \notin Workers
  BY UpdateLoop, EventTypes DEF LifecycleInv
<1>2. \A k \in Loops : Coherent(loop'[k]) /\ Kept(loop[k], loop'[k])
  <2>1. \A k \in Loops : Coherent(loop'[k])
    BY <1>1 DEF LoopInv
  <2> QED BY <2>1, <1>1 DEF Kept
<1>3. \A k \in Loops : loop'[k].stop # "no" => main' = JoinOf(k)
  BY <1>1, HaltingFacts
<1>4. loop'[Acceptor].tstat = kStopping => loop[Acceptor].thread = "gone" \/ main' = "join acceptor"
  <2>1. CASE l = Acceptor
    BY <1>1, <2>1 DEF Kept
  <2>2. CASE l # Acceptor
    BY <1>1, <2>2, HaltingFacts
  <2> QED BY <2>1, <2>2
<1>5. Serving(loop[Acceptor]) => \A w \in Workers : loop'[w].owned = loop[w].owned
  <2>1. CASE l \in Workers
    <3>1. loop[Acceptor].thread \in {"none", "gone"}
      BY <2>1 DEF LifecycleInv, AcceptorInv
    <3>2. built
      BY <2>1, HaltingFacts
    <3>3. loop[Acceptor].thread = "gone"
      BY <3>1, <3>2, HaltingFacts
    <3> QED BY <3>3 DEF Serving, InLoop, StoppingSelf
  <2>2. CASE l \notin Workers
    BY <1>1, <2>2
  <2> QED BY <2>1, <2>2
<1> QED BY <1>1, <1>2, <1>3, <1>4, <1>5, HaltMoves

\* A thread that is to be stopped.
LEMMA ToStopCoherent ==
    ASSUME NEW r \in LoopObjects, Coherent(r), Stoppable(r.tstat), r.stop = "no"
    PROVE  /\ [r EXCEPT !.stop = "set"] \in LoopObjects
           /\ Coherent([r EXCEPT !.stop = "set"])
           /\ Kept(r, [r EXCEPT !.stop = "set"])
           /\ [r EXCEPT !.stop = "set"].tstat = r.tstat
           /\ r.thread # "none"
           /\ r.tstat # kStopping
<1>1. [r EXCEPT !.stop = "set"] \in LoopObjects
  BY Updates
<1>2. r.thread # "none"
  BY CoherentFacts
<1>3. r.tstat # kStopping
  BY DEF Stoppable
<1> QED BY <1>1, <1>2, <1>3 DEF Coherent, Kept, LoopObjects, InLoop, StoppingSelf

\* A thread that was joined, or of which there is nothing to join.
LEMMA JoinedCoherent ==
    ASSUME NEW r \in LoopObjects, Coherent(r), r.joinable => r.thread = "gone"
    PROVE  /\ r.thread \in {"none", "gone"}
           /\ [r EXCEPT !.joinable = FALSE] \in LoopObjects
           /\ Coherent([r EXCEPT !.joinable = FALSE])
           /\ Kept(r, [r EXCEPT !.joinable = FALSE])
           /\ [r EXCEPT !.joinable = FALSE].tstat = r.tstat
           /\ [r EXCEPT !.joinable = FALSE].stop = r.stop
           /\ [r EXCEPT !.joinable = FALSE].owned = r.owned
<1>1. r.thread \in {"none", "gone"}
  BY CoherentFacts
<1>2. [r EXCEPT !.joinable = FALSE] \in LoopObjects
  BY Updates
<1> QED BY <1>1, <1>2 DEF Coherent, Kept, LoopObjects, InLoop, StoppingSelf

\* Main moves on to the next loop.
LEMMA PassesBy ==
    ASSUME LifecycleInv, main \in {"halt udp", "halt acceptor", "halt pool"},
           main' \in Halting \cup {"stopped"},
           main' \notin {"join udp", "join acceptor", "join pool"},
           UNCHANGED <<dying, calls, protobuf, built, loop, events, handling, pool, network>>,
           main' = "halt pool" => loop[Acceptor].thread \in {"none", "gone"}
    PROVE  LifecycleInv'
<1>1. main \in Halting
  BY DEF Halting
<1>2. \A l \in Loops : loop[l].stop = "no"
  BY ElsewhereFacts DEF LifecycleInv
<1>3. loop' \in [Loops -> LoopObjects] /\ \A l \in Loops : Coherent(loop'[l]) /\ Kept(loop[l], loop'[l])
  BY LoopFacts, ProgramTypes DEF LifecycleInv, Kept
<1>4. loop' = loop /\ pool' = pool
  OBVIOUS
<1>5. loop[Acceptor].tstat = kStopping => loop[Acceptor].thread = "gone"
  BY <1>1, HaltingFacts
<1> QED BY <1>1, <1>2, <1>3, <1>4, <1>5, HaltMoves

LEMMA HaltUdpStep ==
    ASSUME LifecycleInv, Halt(Udp, "halt udp", "join udp", "halt acceptor") PROVE LifecycleInv'
<1>1. /\ Udp \in Loops /\ main = "halt udp" /\ UNCHANGED <<built, events, handling, pool, network>>
      /\ UNCHANGED <<dying, calls, protobuf>>
  BY EventTypes DEF Halt, At
<1>2. CASE ~Stoppable(loop[Udp].tstat)
  BY <1>1, <1>2, PassesBy DEF Halt, At, Halting
<1>3. CASE Stoppable(loop[Udp].tstat)
  <2> DEFINE q == [loop[Udp] EXCEPT !.stop = "set"]
  <2>1. main' = "join udp" /\ loop' = [loop EXCEPT ![Udp] = q]
    BY <1>3 DEF Halt, At
  <2>2. \A l \in Loops : loop[l].stop = "no"
    BY <1>1, ElsewhereFacts DEF LifecycleInv
  <2>3. /\ q \in LoopObjects /\ Coherent(q) /\ Kept(loop[Udp], q)
        /\ q.tstat = loop[Udp].tstat /\ loop[Udp].thread # "none"
    BY <1>1, <1>3, <2>2, LoopFacts, ToStopCoherent DEF LifecycleInv
  <2> HIDE DEF q
  <2>4. main \in Halting /\ main' \in Halting /\ built
    BY <1>1, <2>1, <2>3, HaltingFacts DEF Halting
  <2>5. Udp # Acceptor /\ Udp \notin Workers /\ JoinOf(Udp) = "join udp"
    BY EventTypes DEF JoinOf
  <2> QED BY <1>1, <2>1, <2>2, <2>3, <2>4, <2>5, HaltsOne
<1> QED BY <1>2, <1>3

LEMMA HaltAcceptorStep ==
    ASSUME LifecycleInv, Halt(Acceptor, "halt acceptor", "join acceptor", "halt pool") PROVE LifecycleInv'
<1>1. /\ Acceptor \in Loops /\ main = "halt acceptor"
      /\ UNCHANGED <<built, events, handling, pool, network>>
      /\ UNCHANGED <<dying, calls, protobuf>>
  BY EventTypes DEF Halt, At
<1>a. main \in Halting /\ loop[Acceptor] \in LoopObjects /\ Coherent(loop[Acceptor])
  BY <1>1, LoopFacts DEF LifecycleInv, Halting
<1>2. CASE ~Stoppable(loop[Acceptor].tstat)
  <2>1. loop[Acceptor].thread \in {"none", "gone"}
    BY <1>1, <1>2, <1>a, CoherentFacts, HaltingFacts
  <2> QED BY <1>1, <1>2, <2>1, PassesBy DEF Halt, At, Halting
<1>3. CASE Stoppable(loop[Acceptor].tstat)
  <2> DEFINE q == [loop[Acceptor] EXCEPT !.stop = "set"]
  <2>1. main' = "join acceptor" /\ loop' = [loop EXCEPT ![Acceptor] = q]
    BY <1>3 DEF Halt, At
  <2>2. \A l \in Loops : loop[l].stop = "no"
    BY <1>1, ElsewhereFacts DEF LifecycleInv
  <2>3. /\ q \in LoopObjects /\ Coherent(q) /\ Kept(loop[Acceptor], q)
        /\ q.tstat = loop[Acceptor].tstat /\ loop[Acceptor].thread # "none"
    BY <1>a, <1>1, <1>3, <2>2, ToStopCoherent
  <2> HIDE DEF q
  <2>4. main \in Halting /\ main' \in Halting /\ built
    BY <1>1, <2>1, <2>3, HaltingFacts DEF Halting
  <2>5. Acceptor \notin Workers /\ JoinOf(Acceptor) = "join acceptor"
    BY EventTypes DEF JoinOf
  <2> QED BY <1>1, <2>1, <2>2, <2>3, <2>4, <2>5, HaltsOne
<1> QED BY <1>2, <1>3

LEMMA JoinUdpStep ==
    ASSUME LifecycleInv, Join(Udp, "join udp", "halt acceptor") PROVE LifecycleInv'
<1> DEFINE q == [loop[Udp] EXCEPT !.joinable = FALSE]
<1>1. /\ Udp \in Loops /\ main = "join udp" /\ main' = "halt acceptor"
      /\ UNCHANGED <<dying, calls, protobuf, built, events, handling, pool, network>>
      /\ loop' = [loop EXCEPT ![Udp] = q]
      /\ loop[Udp].stop = "no" /\ (loop[Udp].joinable => loop[Udp].thread = "gone")
  BY EventTypes DEF Join, At
<1>2. /\ q \in LoopObjects /\ Coherent(q) /\ Kept(loop[Udp], q)
      /\ q.tstat = loop[Udp].tstat /\ q.stop = "no"
  BY <1>1, LoopFacts, JoinedCoherent DEF LifecycleInv
<1> HIDE DEF q
<1>3. main \in Halting /\ main' \in Halting
  BY <1>1 DEF Halting
<1>4. Udp # Acceptor /\ Udp \notin Workers
  BY EventTypes
<1>5. \A k \in Loops \ {Udp} : loop[k].stop = "no"
  <2>1. ASSUME NEW k \in Loops \ {Udp} PROVE JoinOf(k) # "join udp"
    BY DEF JoinOf
  <2> QED BY <1>1, <1>3, <2>1, HaltingFacts
<1> QED BY <1>1, <1>2, <1>3, <1>4, <1>5, HaltsOne

LEMMA JoinAcceptorStep ==
    ASSUME LifecycleInv, Join(Acceptor, "join acceptor", "halt pool") PROVE LifecycleInv'
<1> DEFINE q == [loop[Acceptor] EXCEPT !.joinable = FALSE]
<1>1. /\ Acceptor \in Loops /\ main = "join acceptor" /\ main' = "halt pool"
      /\ UNCHANGED <<dying, calls, protobuf, built, events, handling, pool, network>>
      /\ loop' = [loop EXCEPT ![Acceptor] = q]
      /\ loop[Acceptor].stop = "no" /\ (loop[Acceptor].joinable => loop[Acceptor].thread = "gone")
  BY EventTypes DEF Join, At
<1>2. /\ q \in LoopObjects /\ Coherent(q) /\ Kept(loop[Acceptor], q)
      /\ q.tstat = loop[Acceptor].tstat /\ q.stop = "no" /\ loop[Acceptor].thread \in {"none", "gone"}
  BY <1>1, LoopFacts, JoinedCoherent DEF LifecycleInv
<1> HIDE DEF q
<1>3. main \in Halting /\ main' \in Halting
  BY <1>1 DEF Halting
<1>4. Acceptor \notin Workers
  BY EventTypes
<1>5. \A k \in Loops \ {Acceptor} : loop[k].stop = "no"
  <2>1. ASSUME NEW k \in Loops \ {Acceptor} PROVE JoinOf(k) # "join acceptor"
    BY DEF JoinOf
  <2> QED BY <1>1, <1>3, <2>1, HaltingFacts
<1>6. loop[Acceptor].thread = "gone" /\ q.thread = "gone"
  BY <1>1, <1>2, <1>3, HaltingFacts DEF Kept
<1> QED BY <1>1, <1>2, <1>3, <1>4, <1>5, <1>6, HaltsOne

LEMMA HaltPoolStep == ASSUME LifecycleInv, HaltPool PROVE LifecycleInv'
<1>1. /\ main = "halt pool" /\ UNCHANGED <<dying, calls, protobuf, built, events, handling, network>>
      /\ main \in Halting
  BY DEF HaltPool, At, Halting
<1>2. CASE ~Stoppable(pool)
  BY <1>1, <1>2, PassesBy DEF HaltPool, At
<1>3. CASE Stoppable(pool)
  <2>1. /\ main' = "join pool" /\ pool' = kStopping
        /\ loop' = [l \in Loops |-> IF l \in Workers /\ Stoppable(loop[l].tstat)
                                   THEN [loop[l] EXCEPT !.stop = "set"] ELSE loop[l]]
    BY <1>1, <1>3 DEF HaltPool, At
  <2>2. pool \in {kStarted, kRunning}
    <3>1. pool \in KStatus /\ pool # kStarting
      BY <1>1, HaltingFacts, ProgramTypes
    <3>2. \A p \in KStatus : Stoppable(p) => p \in {kStarting, kStarted, kRunning}
      BY DEF Stoppable
    <3> HIDE DEF KStatus, kStarting, kStarted, kRunning
    <3> QED BY <1>3, <3>1, <3>2
  <2>3. \A l \in Loops : loop[l].stop = "no"
    BY <1>1, ElsewhereFacts DEF LifecycleInv
  <2>4. ASSUME NEW l \in Loops
        PROVE  /\ loop'[l] \in LoopObjects /\ Coherent(loop'[l]) /\ Kept(loop[l], loop'[l])
               /\ l \notin Workers => loop'[l] = loop[l]
               /\ loop'[l].stop # "no" => JoinOf(l) = "join pool"
               /\ loop'[l].owned = loop[l].owned
    <3>1. loop[l] \in LoopObjects /\ Coherent(loop[l]) /\ loop[l].stop = "no"
      BY <2>3, LoopFacts DEF LifecycleInv
    <3>2. CASE l \in Workers /\ Stoppable(loop[l].tstat)
      <4> DEFINE q == [loop[l] EXCEPT !.stop = "set"]
      <4>1. loop'[l] = q
        BY <2>1, <3>2
      <4>2. q \in LoopObjects /\ Coherent(q) /\ Kept(loop[l], q)
        BY <3>1, <3>2, ToStopCoherent
      <4>3. q.owned = loop[l].owned
        BY <3>1 DEF LoopObjects
      <4>4. JoinOf(l) = "join pool"
        BY <3>2, EventTypes DEF JoinOf
      <4> HIDE DEF q
      <4> QED BY <3>2, <4>1, <4>2, <4>3, <4>4
    <3>3. CASE ~(l \in Workers /\ Stoppable(loop[l].tstat))
      <4>1. loop'[l] = loop[l]
        BY <2>1, <3>3
      <4> QED BY <3>1, <4>1 DEF Kept
    <3> QED BY <3>2, <3>3
  <2>5. loop' \in [Loops -> LoopObjects]
    <3>1. loop' = [l \in Loops |-> loop'[l]]
      BY <2>1
    <3> QED BY <2>4, <3>1
  <2>6. /\ loop'[Acceptor] = loop[Acceptor] /\ Workers \subseteq Loops
        /\ loop[Acceptor].tstat = kStopping => loop[Acceptor].thread = "gone"
        /\ loop[Acceptor].thread \in {"none", "gone"}
    BY <1>1, <2>4, EventTypes, HaltingFacts DEF LifecycleInv, AcceptorInv
  <2>7. built
    <3>1. ~built => pool = kInitialized
      BY DEF LifecycleInv, UnbuiltInv
    <3>2. kInitialized \notin {kStarted, kRunning}
      BY StatusDistinct
    <3> HIDE DEF kInitialized, kStarted, kRunning
    <3> QED BY <2>2, <3>1, <3>2
  <2>8. main' \in Halting
    BY <2>1 DEF Halting
  <2> QED BY <1>1, <2>1, <2>2, <2>4, <2>5, <2>6, <2>7, <2>8, HaltMoves
<1> QED BY <1>2, <1>3

LEMMA JoinPoolStep == ASSUME LifecycleInv, JoinPool PROVE LifecycleInv'
<1>1. /\ main = "join pool" /\ main' = "stopped" /\ main \in Halting
      /\ UNCHANGED <<dying, calls, protobuf, built, events, handling, pool, network>>
      /\ \A w \in Workers : loop[w].stop = "no"
      /\ \A w \in Workers : loop[w].joinable => loop[w].thread = "gone"
      /\ loop' = [l \in Loops |-> IF l \in Workers THEN [loop[l] EXCEPT !.joinable = FALSE] ELSE loop[l]]
  BY DEF JoinPool, At, Halting
<1>2. \A l \in Loops : loop[l].stop = "no"
  <2>1. ASSUME NEW l \in Loops \ Workers PROVE JoinOf(l) # "join pool"
    BY DEF JoinOf, Loops
  <2> QED BY <1>1, <2>1, HaltingFacts
<1>3. ASSUME NEW l \in Loops
      PROVE  /\ loop'[l] \in LoopObjects /\ Coherent(loop'[l]) /\ Kept(loop[l], loop'[l])
             /\ l \notin Workers => loop'[l] = loop[l]
             /\ loop'[l].stop = "no"
             /\ loop'[l].owned = loop[l].owned
  <2>1. loop[l] \in LoopObjects /\ Coherent(loop[l]) /\ loop[l].stop = "no"
    BY <1>2, LoopFacts DEF LifecycleInv
  <2>2. CASE l \in Workers
    <3> DEFINE q == [loop[l] EXCEPT !.joinable = FALSE]
    <3>1. loop'[l] = q
      BY <1>1, <2>2
    <3>2. q \in LoopObjects /\ Coherent(q) /\ Kept(loop[l], q) /\ q.stop = "no" /\ q.owned = loop[l].owned
      BY <1>1, <2>1, <2>2, JoinedCoherent
    <3> HIDE DEF q
    <3> QED BY <2>2, <3>1, <3>2
  <2>3. CASE l \notin Workers
    <3>1. loop'[l] = loop[l]
      BY <1>1, <2>3
    <3> QED BY <2>1, <3>1 DEF Kept
  <2> QED BY <2>2, <2>3
<1>4. loop' \in [Loops -> LoopObjects]
  <2>1. loop' = [l \in Loops |-> loop'[l]]
    BY <1>1
  <2> QED BY <1>3, <2>1
<1>5. /\ loop'[Acceptor] = loop[Acceptor] /\ Workers \subseteq Loops
      /\ loop[Acceptor].tstat = kStopping => loop[Acceptor].thread = "gone"
  BY <1>1, <1>3, EventTypes, HaltingFacts
<1>6. pool' = pool
  BY <1>1
<1> QED BY <1>1, <1>3, <1>4, <1>5, <1>6, HaltMoves

\* A statement of EventLoopThread::stop or EventLoop::stop.
LEMMA StopLoopStep ==
    ASSUME LifecycleInv, Alive, NEW l \in Loops, StopLoop(l)
    PROVE  LifecycleInv'
<1> DEFINE r == loop[l]
<1>1. /\ r.stop # "no"
      /\ UNCHANGED <<built, dying, calls, protobuf, events, handling, pool, network>>
  BY DEF StopLoop, StopSet, StopMark, StopTell, StopClear, StopAt
<1>2. main = JoinOf(l) /\ main \in {"join udp", "join acceptor", "join pool"} /\ main \in Halting
  BY <1>1 DEF LifecycleInv, StopInv, Alive, JoinOf, Halting
<1>3. /\ r \in LoopObjects /\ Coherent(r) /\ ~Entering(r) /\ built
  BY <1>2, LoopFacts, HaltingFacts DEF LifecycleInv
<1>4. /\ main = "join pool" => loop[Acceptor].thread = "gone"
      /\ main = "join acceptor" \/ main # "join acceptor"
      /\ l = Acceptor => main = "join acceptor"
      /\ l \in Workers => main = "join pool"
      /\ Acceptor \notin Workers /\ Acceptor # Udp
  <2>1. main = "join pool" => loop[Acceptor].thread \in {"none", "gone"}
    BY DEF LifecycleInv, AcceptorInv
  <2>2. loop[Acceptor].thread # "none"
    BY <1>2, <1>3, HaltingFacts
  <2> QED BY <1>2, <2>1, <2>2, EventTypes DEF JoinOf
<1>5. ASSUME NEW q \in LoopObjects, Coherent(q), Stops(r, q), loop' = [loop EXCEPT ![l] = q],
             main' = main
      PROVE  LifecycleInv'
  <2>1. Kept(r, q) /\ q.tstat \in {r.tstat, kStopping}
    BY <1>5 DEF Stops, Kept
  <2>2. main' \in Halting
    BY <1>2, <1>5
  <2>3. main' = main
    BY <1>5
  <2>4. /\ l = Acceptor => main' = "join acceptor"
        /\ main # "join acceptor" \/ main' = "join acceptor"
        /\ main' \in {"halt pool", "join pool"} => loop[Acceptor].thread \in {"none", "gone"}
    BY <1>2, <1>4, <2>3
  <2> QED BY <1>1, <1>2, <1>3, <1>4, <1>5, <2>1, <2>2, <2>3, <2>4, HaltsOne
<1>6. ASSUME StopSet(l) PROVE LifecycleInv'
  <2>1. r.stop = "set" /\ loop' = [loop EXCEPT ![l] = ThreadStopped(r)] /\ main' = main
    BY <1>6 DEF StopSet, StopAt
  <2>2. ThreadStopped(r) \in LoopObjects /\ Coherent(ThreadStopped(r)) /\ Stops(r, ThreadStopped(r))
    BY <1>3, <2>1, SetCoherent, StopsFacts
  <2> QED BY <2>1, <2>2, <1>5
<1>7. ASSUME StopMark(l) PROVE LifecycleInv'
  <2> DEFINE q == [r EXCEPT !.lstat = kStopping, !.stop = "tell"]
  <2>1. r.stop = "mark" /\ loop' = [loop EXCEPT ![l] = q] /\ main' = main
    <3>1. r.stop = "mark" /\ main' = main
      BY <1>7 DEF StopMark, StopAt
    <3>2. loop' = [loop EXCEPT ![l].lstat = kStopping, ![l].stop = "tell"]
      BY <1>7 DEF StopMark
    <3>3. loop \in [Loops -> LoopObjects]
      BY ProgramTypes
    <3>4. loop' = [loop EXCEPT ![l] = q]
      BY <3>2, <3>3 DEF LoopObjects
    <3> QED BY <3>1, <3>4
  <2>2. q \in LoopObjects /\ Coherent(q) /\ Stops(r, q)
    BY <1>3, <2>1, MarkCoherent, StopsFacts
  <2> HIDE DEF q
  <2> QED BY <2>1, <2>2, <1>5
<1>8. ASSUME StopTell(l) PROVE LifecycleInv'
  <2> DEFINE q == [r EXCEPT !.hloop = "STOP", !.stop = "clear"]
             p == [r EXCEPT !.stop = "clear"]
  <2>1. r.stop = "tell"
    BY <1>8 DEF StopTell, StopAt
  <2>2. \/ r.owned /\ loop' = [loop EXCEPT ![l] = q] /\ main' = main
        \/ ~r.owned /\ loop' = [loop EXCEPT ![l] = p] /\ main' = main
        \/ main' = "null loop" /\ loop' = loop
    <3>1. loop \in [Loops -> LoopObjects]
      BY ProgramTypes
    <3>2. [loop EXCEPT ![l].hloop = "STOP", ![l].stop = "clear"] = [loop EXCEPT ![l] = q]
      BY <3>1 DEF LoopObjects
    <3>3. [loop EXCEPT ![l].stop = "clear"] = [loop EXCEPT ![l] = p]
      BY <3>1 DEF LoopObjects
    <3> HIDE DEF p, q
    <3> QED BY <1>8, <3>2, <3>3 DEF StopTell
  <2>3. /\ r.owned => q \in LoopObjects /\ Coherent(q)
        /\ ~r.owned => p \in LoopObjects /\ Coherent(p)
        /\ Stops(r, p) /\ Stops(r, q)
    BY <1>3, <2>1, TellCoherent, StopsFacts
  <2> HIDE DEF p, q
  <2>4. CASE main' = "null loop" /\ loop' = loop
    <3>1. r.thread # "none"
      BY <1>3, <2>1, CoherentFacts
    <3> QED BY <1>1, <2>4, <3>1, DiesStep
  <2> QED BY <2>2, <2>3, <2>4, <1>5
<1>9. ASSUME StopClear(l) PROVE LifecycleInv'
  <2> DEFINE q == [r EXCEPT !.owned = FALSE, !.stop = "no"]
  <2>1. r.stop = "clear" /\ loop' = [loop EXCEPT ![l] = q] /\ main' = main
    <3>1. r.stop = "clear" /\ main' = main
      BY <1>9 DEF StopClear, StopAt
    <3>2. loop' = [loop EXCEPT ![l].owned = FALSE, ![l].stop = "no"]
      BY <1>9 DEF StopClear
    <3>3. loop \in [Loops -> LoopObjects]
      BY ProgramTypes
    <3>4. loop' = [loop EXCEPT ![l] = q]
      BY <3>2, <3>3 DEF LoopObjects
    <3> QED BY <3>1, <3>4
  <2>2. q \in LoopObjects /\ Coherent(q) /\ Stops(r, q)
    BY <1>3, <2>1, ClearCoherent, StopsFacts
  <2> HIDE DEF q
  <2> QED BY <2>1, <2>2, <1>5
<1> QED BY <1>6, <1>7, <1>8, <1>9 DEF StopLoop

LEMMA StoppedStep == ASSUME LifecycleInv, Stopped PROVE LifecycleInv'
<1>1. /\ main = "stopped" /\ main' = IF dying THEN "done" ELSE "up"
      /\ dying' = dying /\ calls' = calls /\ protobuf' = protobuf
      /\ built' = built /\ loop' = loop /\ events' = events /\ handling' = handling
      /\ pool' = pool /\ worker' = worker /\ pending' = pending
      /\ dying => \A l \in Loops : loop[l].joinable => loop[l].thread = "gone"
      /\ ~dying => listen' = listen
  BY DEF Stopped, At
<1>2. /\ udp' \in {"none", "bound", "reading", "closing", "closed"}
      /\ listen' \in {"none", "listening", "accepting", "closed"}
      /\ conn' \in [Clients -> ConnStates]
      /\ \A c \in Clients : /\ conn[c] = "posted" => conn'[c] = "posted"
                            /\ conn'[c] = "lost" => conn[c] = "lost"
                            /\ conn'[c] \in {conn[c], "refused"}
      /\ udp' = "reading" => udp = "reading"
      /\ listen' = "accepting" => listen = "accepting"
  BY TrafficTypes DEF LifecycleInv, TypeOK, Stopped, ConnStates
<1>3. TypeOK'
  <2>1. TypeOK
    BY DEF LifecycleInv
  <2>2. main' \in MainAt
    BY <1>1 DEF MainAt
  <2> HIDE DEF KStatus
  <2> QED BY <1>1, <1>2, <2>1, <2>2, ZenonT(90) DEF TypeOK, ConnStates, MainAt
<1>4. LoopInv' /\ PostsAlive' /\ EventInv'
  BY <1>1, <1>2, SameEvents DEF LifecycleInv, LoopInv, PostsAlive
<1>5. UnbuiltInv'
  BY <1>1, <1>2 DEF LifecycleInv, UnbuiltInv
<1>6. dying => \A l \in Loops : loop[l].thread \in {"none", "gone"}
  BY <1>1, LoopFacts, CoherentFacts DEF LifecycleInv
<1>7. MainInv'
  BY <1>1, <1>6 DEF LifecycleInv, MainInv
<1>8. AcceptorInv'
  <2>1. AcceptorInv
    BY DEF LifecycleInv
  <2>2. CASE ~dying
    BY <1>1, <2>1, <2>2 DEF AcceptorInv
  <2>3. CASE dying
    <3>1. loop[Acceptor] \in LoopObjects /\ Coherent(loop[Acceptor])
      BY LoopFacts, EventTypes DEF LifecycleInv
    <3>2. loop[Acceptor].thread \in {"none", "gone"}
      BY <1>6, <2>3, EventTypes
    <3>3. CASE loop[Acceptor].thread = "none"
      BY <1>1, <2>1, <2>3, <3>3 DEF AcceptorInv, Serving, InLoop, StoppingSelf
    <3>4. CASE loop[Acceptor].thread = "gone"
      BY <1>1, <2>1, <2>3, <3>4 DEF AcceptorInv, Serving, InLoop, StoppingSelf
    <3> QED BY <3>2, <3>3, <3>4
  <2> QED BY <2>2, <2>3
<1>9. StopInv'
  BY <1>1, ElsewhereFacts DEF LifecycleInv, StopInv
<1> QED BY <1>3, <1>4, <1>5, <1>7, <1>8, <1>9 DEF LifecycleInv

-----------------------------------------------------------------------------
(* The theorems.                                                           *)

\* Every step keeps the inductive invariant.
THEOREM LifecycleInductive == LifecycleInv /\ [Next]_vars => LifecycleInv'
<1> SUFFICES ASSUME LifecycleInv, [Next]_vars PROVE LifecycleInv'
  OBVIOUS
<1>1. CASE Alive /\ MainStep
  BY <1>1, CreateUdpStep, CreateTcpStep, SetBufferStep, StartUdpStep, WaitUdpStep,
     StartPoolStep, WaitPoolStep, StartAcceptorStep, WaitAcceptorStep, CloseUdpStep,
     HaltUdpStep, JoinUdpStep, HaltAcceptorStep, JoinAcceptorStep, HaltPoolStep,
     JoinPoolStep, StoppedStep, StopLoopStep
     DEF MainStep
<1>2. CASE Call
  BY <1>2, CallStep
<1>3. CASE Traffic
  BY <1>3, BeginDatagramStep, ConnectStep, AcceptStep, ActiveStep DEF Traffic
<1>4. ASSUME NEW l \in Loops, ThreadStep(l) PROVE LifecycleInv'
  BY <1>4, BeginStep, RunStep, EnterStep, SetRunningStep, PollStep, LeaveStep, EndStep, SelfStep
     DEF ThreadStep
<1>5. ASSUME NEW l \in Loops, EndIteration(l) \/ RunEvent(l) \/ EndMessage(l) PROVE LifecycleInv'
  BY <1>5, EndIterationStep, RunEventStep, EndMessageStep
<1>6. CASE UNCHANGED vars
  <2>1. UNCHANGED <<program, loop, events, pool, udp, listen, worker, conn, handling, pending>>
    BY <1>6 DEF vars, network
  <2>2. pending' \in [Clients -> BOOLEAN] /\ handling' \in [Loops -> Clients \cup {None, Datagram}]
    BY <2>1, TrafficTypes, Zenon
  <2>3. ~built => \A c \in Clients : conn'[c] \in {"none", "backlog", "refused"}
    BY <2>1 DEF LifecycleInv, UnbuiltInv
  <2> QED BY <2>1, <2>2, <2>3, TrafficTypes, ClientStep
<1> QED BY <1>1, <1>2, <1>3, <1>4, <1>5, <1>6 DEF Next

THEOREM LifecycleInvariant == Spec => []LifecycleInv
BY LifecycleInit, LifecycleInductive, PTL DEF Spec

\* The variables keep to their values.
THEOREM LifecycleTypeOK == Spec => []TypeOK
<1>1. LifecycleInv => TypeOK
  BY DEF LifecycleInv
<1> QED BY <1>1, LifecycleInvariant, PTL

\* A server whose construction failed runs no thread and serves nobody.
THEOREM LifecycleHalfBuilt == Spec => []HalfBuilt
<1>1. LifecycleInv => HalfBuilt
  BY DEF LifecycleInv, UnbuiltInv, HalfBuilt
<1> QED BY <1>1, LifecycleInvariant, PTL

\* No accepted connection is dropped by a worker without a loop.
THEOREM LifecyclePostsAlive == Spec => []PostsAlive
<1>1. LifecycleInv => PostsAlive
  BY DEF LifecycleInv
<1> QED BY <1>1, LifecycleInvariant, PTL

\* When the members of the server are gone, so are its threads.
THEOREM LifecycleOutlived == Spec => []OutlivedByMembers
<1>1. LifecycleInv => OutlivedByMembers
  BY DEF LifecycleInv, MainInv, OutlivedByMembers
<1> QED BY <1>1, LifecycleInvariant, PTL

\* However the statements of main's stop and of the loop's own interleave
\* with loop_thread's: its assertion can only fail in a loop that stopped
\* itself, which no loop but that of UDP does.
THEOREM LifecycleAssertStopped ==
    Spec => [](AssertStopped /\ \A l \in Loops : loop[l].quit => l = Udp)
<1>1. LifecycleInv => AssertStopped /\ \A l \in Loops : loop[l].quit => l = Udp
  BY LoopFacts, CoherentFacts DEF LifecycleInv, AssertStopped, StopInv
<1> QED BY <1>1, LifecycleInvariant, PTL

-----------------------------------------------------------------------------
(* The refinement: every step is a step of MapService, or none at all.     *)

View == <<Phase, Taken, InSession, Over>>

\* A step that leaves the listening socket and the connections as they are.
LEMMA SameView ==
    ASSUME listen' = listen, conn' = conn
    PROVE  View' = View
BY DEF View, Phase, Taken, InSession, Over

LEMMA StutterStep ==
    ASSUME View' = View PROVE [Service!ServiceNext]_(Service!service)
BY DEF View, Service!service

\* Clients leave together, while the socket stays as it is.
LEMMA LeaveTogether ==
    ASSUME LifecycleInv, NEW C \in SUBSET Clients,
           listen' = listen,
           \A c \in C : /\ conn[c] \in {"posted", "open", "closing"}
                        /\ conn'[c] \in {"closed", "leaked", "dangling"},
           \A c \in Clients \ C : conn'[c] = conn[c]
    PROVE  [Service!ServiceNext]_(Service!service)
<1>1. Phase' = Phase
  BY DEF Phase
<1>2. Taken' = Taken
  BY DEF Taken
<1>3. Over' = Over \cup C
  BY DEF Over
<1>4. InSession' = InSession \ C
  BY DEF InSession
<1>5. C \subseteq Taken \ Over
  BY DEF Taken, Over
<1> QED BY <1>1, <1>2, <1>3, <1>4, <1>5 DEF Service!ServiceNext, Service!Leave

\* The socket is shut, and those who were not accepted yet are refused.
LEMMA ShutStep ==
    ASSUME LifecycleInv,
           listen' = "closed",
           \A c \in Clients : conn'[c] = conn[c] \/ (conn[c] = "backlog" /\ conn'[c] = "refused")
    PROVE  [Service!ServiceNext]_(Service!service)
<1>1. Taken' = Taken /\ InSession' = InSession /\ Over' = Over
  BY DEF Taken, InSession, Over
<1>2. CASE listen = "closed"
  BY <1>1, <1>2, StutterStep DEF View, Phase
<1>3. CASE listen # "closed"
  <2>1. Phase # "shut" /\ Phase' = "shut"
    BY <1>3 DEF Phase
  <2> QED BY <1>1, <2>1 DEF Service!ServiceNext, Service!Shut
<1> QED BY <1>2, <1>3

LEMMA LeaveView ==
    ASSUME LifecycleInv, NEW l \in Loops, Leave(l) PROVE [Service!ServiceNext]_(Service!service)
<1>1. /\ conn' = [c \in Clients |->
                     IF c \in Served(l) THEN Freed(c)
                     ELSE IF AcceptsOn(l) /\ conn[c] = "backlog" THEN "refused"
                     ELSE conn[c]]
      /\ listen' = IF AcceptsOn(l) THEN "closed" ELSE listen
  BY DEF Leave
<1>2. CASE AcceptsOn(l)
  <2>1. l = Acceptor
    BY <1>2 DEF AcceptsOn
  <2>2. Served(l) = {}
    BY <2>1, TrafficTypes, EventTypes, LifecycleAssumption DEF Served
  <2> QED BY <1>1, <1>2, <2>2, ShutStep
<1>3. CASE ~AcceptsOn(l)
  <2>1. listen' = listen /\ Served(l) \in SUBSET Clients
    BY <1>1, <1>3 DEF Served
  <2>2. \A c \in Served(l) : /\ conn[c] \in {"posted", "open", "closing"}
                             /\ conn'[c] \in {"closed", "leaked", "dangling"}
    BY <1>1 DEF Served, Freed
  <2>3. \A c \in Clients \ Served(l) : conn'[c] = conn[c]
    BY <1>1, <1>3
  <2> QED BY <2>1, <2>2, <2>3, LeaveTogether
<1> QED BY <1>2, <1>3

LEMMA RunEventView ==
    ASSUME LifecycleInv, NEW l \in Loops, RunEvent(l) PROVE [Service!ServiceNext]_(Service!service)
<1> DEFINE ev == Head(events[l])
<1>1. EventInv /\ EventType /\ events[l] # <<>> /\ loop[l].thread = "cbs"
  BY ProgramTypes DEF RunEvent, InCallbacks
<1>2. events[l] \in Seq(EventsOf(l)) /\ ev \in EventsOf(l)
  BY <1>1 DEF EventInv
<1>3. CASE listen' = listen /\ conn' = conn
  BY <1>3, SameView, StutterStep
<1>4. CASE ev = "startAccept" /\ listen' = "accepting" /\ conn' = conn
  <2>1. l = Acceptor
    BY <1>2, <1>4, LifecycleAssumption DEF EventsOf
  <2>2. listen \in {"listening", "accepting"}
    <3>1. built
      BY <1>1, CallbackFacts
    <3> QED BY <1>1, <2>1, <3>1 DEF LifecycleInv, AcceptorInv, Serving, InLoop
  <2>3. CASE listen = "accepting"
    BY <1>4, <2>3, SameView, StutterStep
  <2>4. CASE listen = "listening"
    <3>1. Phase = "new" /\ Phase' = "open"
      BY <1>4, <2>4 DEF Phase
    <3>2. Taken' = Taken /\ InSession' = InSession /\ Over' = Over
      BY <1>4 DEF Taken, InSession, Over
    <3> QED BY <3>1, <3>2 DEF Service!ServiceNext, Service!Open
  <2> QED BY <2>2, <2>3, <2>4
<1>5. CASE ev \in Clients /\ conn' = [conn EXCEPT ![ev] = "open"] /\ listen' = listen
  <2>1. l \in Workers
    BY <1>2, <1>5, LifecycleAssumption DEF EventsOf, Loops
  <2>2. conn[ev] = "posted"
    <3>1. WaitsOnce(events[l], l)
      BY <1>1, <2>1 DEF EventInv
    <3>2. 1 \in 1 .. Len(events[l]) /\ ev = events[l][1]
      BY <1>1, <1>2
    <3> QED BY <1>5, <3>1, <3>2 DEF WaitsOnce
  <2>3. conn'[ev] = "open" /\ \A c \in Clients \ {ev} : conn'[c] = conn[c]
    BY <1>5, TrafficTypes
  <2> HIDE DEF ev
  <2>4. Phase' = Phase
    BY <1>5 DEF Phase
  <2>5. Taken' = Taken /\ Over' = Over
    BY <1>5, <2>2, <2>3 DEF Taken, Over
  <2>6. InSession' = InSession \cup {ev}
    BY <1>5, <2>2, <2>3 DEF InSession
  <2>7. ev \in Taken \ (InSession \cup Over)
    BY <1>5, <2>2 DEF Taken, InSession, Over
  <2> QED BY <1>5, <2>4, <2>5, <2>6, <2>7 DEF Service!ServiceNext, Service!Serve
<1> QED BY <1>3, <1>4, <1>5 DEF RunEvent

LEMMA TrafficView ==
    ASSUME LifecycleInv, Traffic PROVE [Service!ServiceNext]_(Service!service)
<1>1. CASE BeginDatagram
  BY <1>1, SameView, StutterStep DEF BeginDatagram, network
<1>2. ASSUME NEW c \in Clients, Connect(c) PROVE [Service!ServiceNext]_(Service!service)
  <2>1. /\ conn[c] = "none" /\ conn'[c] = "backlog" /\ listen' = listen
        /\ \A d \in Clients \ {c} : conn'[d] = conn[d]
    BY <1>2, TrafficTypes DEF Connect
  <2>2. Phase' = Phase /\ Taken' = Taken /\ InSession' = InSession /\ Over' = Over
    BY <2>1 DEF Phase, Taken, InSession, Over
  <2> QED BY <2>2, StutterStep DEF View
<1>3. ASSUME NEW c \in Clients, Accept(c) PROVE [Service!ServiceNext]_(Service!service)
  <2>1. PICK w \in Workers : conn' = [conn EXCEPT ![c] = IF loop[w].owned THEN "posted" ELSE "lost"]
    BY <1>3 DEF Accept
  <2>2. /\ listen = "accepting" /\ listen' = listen /\ conn[c] = "backlog"
        /\ loop[Acceptor].thread = "cbs"
    BY <1>3 DEF Accept, InCallbacks
  <2>3. loop[w].owned
    BY <2>2 DEF LifecycleInv, AcceptorInv, Serving, InLoop
  <2>4. conn'[c] = "posted" /\ \A d \in Clients \ {c} : conn'[d] = conn[d]
    BY <2>1, <2>3, TrafficTypes
  <2>5. Phase = "open" /\ Phase' = Phase
    BY <2>2 DEF Phase
  <2>6. c \notin Taken /\ Taken' = Taken \cup {c}
    BY <2>2, <2>4 DEF Taken
  <2>7. InSession' = InSession /\ Over' = Over
    BY <2>2, <2>4 DEF InSession, Over
  <2> QED BY <2>5, <2>6, <2>7 DEF Service!ServiceNext, Service!Take
<1>4. ASSUME NEW c \in Clients, BeginMessage(c) \/ Flush(c) \/ PeerCloses(c) \/ CloseTimeout(c)
      PROVE  [Service!ServiceNext]_(Service!service)
  <2>1. /\ conn[c] \in {"open", "closing"} /\ listen' = listen
        /\ conn' \in {conn, [conn EXCEPT ![c] = "closing"], [conn EXCEPT ![c] = "closed"]}
    <3>1. conn = [conn EXCEPT ![c] = conn[c]]
      BY TrafficTypes
    <3> QED BY <1>4, <3>1 DEF BeginMessage, Flush, PeerCloses, CloseTimeout, Active
  <2>2. conn'[c] \in {"open", "closing", "closed"} /\ \A d \in Clients \ {c} : conn'[d] = conn[d]
    BY <2>1, TrafficTypes
  <2>3. CASE conn'[c] = "closed"
    <3>1. {c} \in SUBSET Clients
      OBVIOUS
    <3>2. /\ \A d \in {c} : /\ conn[d] \in {"posted", "open", "closing"}
                           /\ conn'[d] \in {"closed", "leaked", "dangling"}
          /\ \A d \in Clients \ {c} : conn'[d] = conn[d]
      BY <2>1, <2>2, <2>3
    <3> QED BY <2>1, <3>1, <3>2, LeaveTogether
  <2>4. CASE conn'[c] # "closed"
    <3>1. Phase' = Phase /\ Taken' = Taken /\ InSession' = InSession /\ Over' = Over
      BY <2>1, <2>2, <2>4 DEF Phase, Taken, InSession, Over
    <3> QED BY <3>1, StutterStep DEF View
  <2> QED BY <2>3, <2>4
<1> QED BY <1>1, <1>2, <1>3, <1>4 DEF Traffic

LEMMA MainView ==
    ASSUME LifecycleInv, MainStep \/ Call PROVE [Service!ServiceNext]_(Service!service)
<1>1. CASE CreateTcp
  <2>1. conn' = conn /\ listen' \in {listen, "listening"} /\ listen \notin {"accepting", "closed"}
    <3>1. ~built /\ main = "tcp"
      BY <1>1 DEF CreateTcp, At, LifecycleInv, UnbuiltInv
    <3> QED BY <1>1, <3>1 DEF CreateTcp, LifecycleInv, UnbuiltInv
  <2>2. Phase' = Phase /\ Taken' = Taken /\ InSession' = InSession /\ Over' = Over
    BY <2>1 DEF Phase, Taken, InSession, Over
  <2> QED BY <2>2, StutterStep DEF View
<1>2. CASE Stopped
  <2>1. \A c \in Clients : conn'[c] = conn[c] \/ (conn[c] = "backlog" /\ conn'[c] = "refused")
    BY <1>2 DEF Stopped
  <2>2. CASE listen' = "closed"
    BY <2>1, <2>2, ShutStep
  <2>3. CASE listen' # "closed"
    <3>1. listen' = listen
      BY <1>2, <2>3 DEF Stopped
    <3>2. Phase' = Phase /\ Taken' = Taken /\ InSession' = InSession /\ Over' = Over
      BY <2>1, <3>1 DEF Phase, Taken, InSession, Over
    <3> QED BY <3>2, StutterStep DEF View
  <2> QED BY <2>2, <2>3
<1>3. CASE ~CreateTcp /\ ~Stopped
  <2>1. listen' = listen /\ conn' = conn
    BY <1>3 DEF MainStep, Call, CreateUdp, SetBuffer, StartUdp, WaitLoop, StartPool, WaitPool,
         StartAcceptor, CloseUdp, Halt, Join, HaltPool, JoinPool, StopLoop,
         StopSet, StopMark, StopTell, StopClear, StopAt, CallStart, CallStop, Destroy,
         network
  <2> QED BY <2>1, SameView, StutterStep
<1> QED BY <1>1, <1>2, <1>3

\* Whatever is called, clients get no more than MapService allows.
THEOREM LifecycleKeepsPromise == Spec => KeepsPromise
<1>1. Init => Service!ServiceInit
  <2> SUFFICES ASSUME Init PROVE Service!ServiceInit
    OBVIOUS
  <2>1. listen = "none" /\ \A c \in Clients : conn[c] = "none"
    BY DEF Init
  <2>2. Phase = "new" /\ Taken = {} /\ InSession = {} /\ Over = {}
    BY <2>1 DEF Phase, Taken, InSession, Over
  <2> QED BY <2>2 DEF Service!ServiceInit
<1>2. LifecycleInv /\ [Next]_vars => [Service!ServiceNext]_(Service!service)
  <2> SUFFICES ASSUME LifecycleInv, [Next]_vars PROVE [Service!ServiceNext]_(Service!service)
    OBVIOUS
  <2>1. CASE MainStep \/ Call
    BY <2>1, MainView
  <2>2. CASE Traffic
    BY <2>2, TrafficView
  <2>3. ASSUME NEW l \in Loops, ThreadStep(l) PROVE [Service!ServiceNext]_(Service!service)
    <3>1. CASE Leave(l)
      BY <3>1, LeaveView
    <3>2. CASE ~Leave(l)
      <4>1. listen' = listen /\ conn' = conn
        BY <2>3, <3>2 DEF ThreadStep, Begin, Run, Enter, SetRunning, Poll, End, SelfMark, SelfTell,
             SelfClear, Quiet, network
      <4> QED BY <4>1, SameView, StutterStep
    <3> QED BY <3>1, <3>2
  <2>4. ASSUME NEW l \in Loops, RunEvent(l) PROVE [Service!ServiceNext]_(Service!service)
    BY <2>4, RunEventView
  <2>5. ASSUME NEW l \in Loops, EndIteration(l) \/ EndMessage(l) PROVE [Service!ServiceNext]_(Service!service)
    <3>1. listen' = listen /\ conn' = conn
      BY <2>5 DEF EndIteration, EndMessage, Quiet, network
    <3> QED BY <3>1, SameView, StutterStep
  <2>6. CASE UNCHANGED vars
    <3>1. listen' = listen /\ conn' = conn
      BY <2>6 DEF vars, network
    <3> QED BY <3>1, SameView, StutterStep
  <2> QED BY <2>1, <2>2, <2>3, <2>4, <2>5, <2>6 DEF Next
<1> QED BY <1>1, <1>2, LifecycleInvariant, PTL DEF Spec, KeepsPromise, Service!ServiceSpec


-----------------------------------------------------------------------------
(* The safety half of StopEnds: what main waits for in a join is on its    *)
(* way, or is what the exception of StopEnds names.                        *)

\* The statements after the one that joins a loop.
After(l) ==
    CASE l = Udp -> {"halt acceptor", "join acceptor", "halt pool", "join pool", "stopped"}
      [] l = Acceptor -> {"halt pool", "join pool", "stopped"}
      [] OTHER -> {"stopped"}

\* The loops whose threads the main thread is waiting for, done with their stop.
Awaited == {l \in Loops : loop[l].stop = "no" /\ main \in {JoinOf(l), "stopped"}}

\* Moving on its own to the end of loop_thread, or there already.
Heeding(r) ==
    \/ r.thread \in {"none", "ended", "gone"}
    \/ ~r.owned /\ r.thread \in {"begin", "run", "enter"}
    \/ ~r.owned /\ r.thread \in {"poll", "cbs"} \cup StoppingSelf /\ r.hloop = "STOP"

(* Every loop that stop or the destructor waits for will reach the end of  *)
(* loop_thread by its own steps, except one whose stop was overwritten     *)
(* (EventLoopThread::stop and join, EventLoop::stop).                      *)
JoinsHeeded == \A l \in Awaited : Heeding(loop[l]) \/ Overrun(l)

\* A loop that is waited for and on its way does not turn back.
HeedsForGood == [][\A l \in Awaited : Heeding(loop[l]) => Heeding(loop'[l])]_vars

\* A loop is told to stop before it is waited for, and is marked as stopping
\* only while main is there, or where its thread has gone.
Told ==
    \A l \in Loops :
        /\ main = JoinOf(l) /\ loop[l].stop = "no" => ~loop[l].owned
        /\ loop[l].tstat = kStopping => loop[l].thread = "gone" \/ main \in {JoinOf(l)} \cup Died

Joined == \A l \in Loops : main \in After(l) => loop[l].thread \in {"none", "gone"}

\* The status of the pool says whether threads of it are left to join.
PoolInv ==
    /\ pool = kInitialized => \A w \in Workers : loop[w].thread = "none"
    /\ pool \in {kStarting, kStarted, kRunning, kStopping} =>
           \E w \in Workers : loop[w].thread # "gone"
    /\ pool = kStopping => main \in {"join pool"} \cup Died

JoinInv == Told /\ Joined /\ PoolInv

\* What the thread of a loop does to it.
Onward(r, q) ==
    /\ r.thread \notin {"none", "gone"} /\ q.thread # "none"
    /\ q.stop = r.stop
    /\ ~r.owned => ~q.owned
    /\ q.tstat = kStopping => r.tstat = kStopping
    /\ Heeding(r) => Heeding(q)

LEMMA JoinPlaces ==
    /\ JoinOf(Udp) = "join udp" /\ JoinOf(Acceptor) = "join acceptor"
    /\ \A w \in Workers : JoinOf(w) = "join pool"
    /\ After(Udp) = {"halt acceptor", "join acceptor", "halt pool", "join pool", "stopped"}
    /\ After(Acceptor) = {"halt pool", "join pool", "stopped"}
    /\ \A w \in Workers : After(w) = {"stopped"}
    /\ \A l \in Loops : l = Udp \/ l = Acceptor \/ l \in Workers
    /\ \A l \in Loops : JoinOf(l) \in {"join udp", "join acceptor", "join pool"}
    /\ \A l \in Loops : After(l) \subseteq {"halt acceptor", "join acceptor", "halt pool", "join pool", "stopped"}
    /\ \A l \in Loops \ {Udp} : /\ JoinOf(l) # "join udp"
                               /\ {"halt acceptor", "join acceptor"} \cap After(l) = {}
BY EventTypes DEF JoinOf, After, Loops

LEMMA JoinInit == Init => JoinInv
BY EventTypes DEF Init, NewLoop, JoinInv, Told, Joined, PoolInv, JoinOf, After

LEMMA PoolStatus ==
    /\ kStopped \notin {kInitialized, kStarting, kStarted, kRunning, kStopping}
    /\ kRunning \notin {kInitialized, kStopping} /\ kStarted # kStopping
OBVIOUS

\* A thread's step: main stays where it is, or the process dies.
LEMMA OnwardStep ==
    ASSUME LifecycleInv, JoinInv, main \notin Died,
           NEW l \in Loops, NEW q \in LoopObjects,
           loop' = [loop EXCEPT ![l] = q], Onward(loop[l], q),
           main' = main,
           \/ /\ pool' = pool
              /\ (q.thread # "gone" \/ l \notin Workers
                    \/ \E w \in Workers \ {l} : loop[w].thread # "gone")
           \/ pool' = kStopped
           \/ pool' = kRunning /\ q.thread # "gone" /\ l \in Workers
    PROVE  JoinInv' /\ \A k \in Awaited : Heeding(loop[k]) => Heeding(loop'[k])
<1>1. loop'[l] = q /\ \A k \in Loops \ {l} : loop'[k] = loop[k]
  BY DEF LifecycleInv, TypeOK
<1>2. Told'
  <2> SUFFICES ASSUME NEW k \in Loops
               PROVE  /\ main' = JoinOf(k) /\ loop'[k].stop = "no" => ~loop'[k].owned
                      /\ loop'[k].tstat = kStopping =>
                             loop'[k].thread = "gone" \/ main' \in {JoinOf(k)} \cup Died
    BY DEF Told
  <2> HIDE DEF kStopping, Died
  <2>1. /\ main = JoinOf(k) /\ loop[k].stop = "no" => ~loop[k].owned
        /\ loop[k].tstat = kStopping => loop[k].thread = "gone" \/ main \in {JoinOf(k)} \cup Died
    BY DEF JoinInv, Told
  <2>2. CASE k # l
    BY <1>1, <2>1, <2>2
  <2>3. CASE k = l
    BY <1>1, <2>1, <2>3 DEF Onward
  <2> QED BY <2>2, <2>3
<1>3. Joined'
  BY <1>1 DEF JoinInv, Joined, Onward
<1>4. PoolInv'
  <2> HIDE DEF kInitialized, kStarting, kStarted, kRunning, kStopping, kStopped, Died
  <2>1. Workers \subseteq Loops
    BY EventTypes
  <2>2. CASE pool' = pool /\ (q.thread # "gone" \/ l \notin Workers
                                \/ \E w \in Workers \ {l} : loop[w].thread # "gone")
    BY <1>1, <2>1, <2>2 DEF JoinInv, PoolInv, Onward
  <2>3. CASE pool' = kStopped
    BY <2>3, PoolStatus DEF PoolInv
  <2>4. CASE pool' = kRunning /\ q.thread # "gone" /\ l \in Workers
    BY <1>1, <2>4, PoolStatus DEF PoolInv
  <2> QED BY <2>2, <2>3, <2>4
<1>5. \A k \in Awaited : Heeding(loop[k]) => Heeding(loop'[k])
  BY <1>1 DEF Awaited, Onward
<1> QED BY <1>2, <1>3, <1>4, <1>5 DEF JoinInv

\* A step that leaves every loop as it is, and main where it is or crashed.
LEMMA LoopsSame ==
    ASSUME JoinInv, main \notin Died, loop' = loop, pool' = pool,
           \/ main' = main
           \/ main' \in Died
    PROVE  JoinInv' /\ \A k \in Awaited : Heeding(loop[k]) => Heeding(loop'[k])
<1>1. CASE main' = main
  BY <1>1 DEF JoinInv, Told, Joined, PoolInv
<1>2. CASE main' \in Died
  <2>1. \A l \in Loops : JoinOf(l) \notin Died /\ Died \cap After(l) = {}
    BY DEF JoinOf, After
  <2>2. Told' /\ Joined'
    BY <1>2, <2>1 DEF JoinInv, Told, Joined
  <2>3. PoolInv'
    BY DEF JoinInv, PoolInv
  <2> QED BY <2>2, <2>3 DEF JoinInv
<1>3. \A k \in Loops : loop'[k] = loop[k]
  OBVIOUS
<1> QED BY <1>1, <1>2, <1>3

LEMMA ThreadJoins ==
    ASSUME LifecycleInv, JoinInv, main \notin Died, NEW l \in Loops,
           ThreadStep(l) \/ EndIteration(l)
    PROVE  JoinInv' /\ \A k \in Awaited : Heeding(loop[k]) => Heeding(loop'[k])
<1> DEFINE r == loop[l]
<1>1. r \in LoopObjects /\ Coherent(r)
  BY LoopFacts DEF LifecycleInv
<1>2. ASSUME NEW q \in LoopObjects, loop' = [loop EXCEPT ![l] = q], Onward(r, q),
             q.thread # "gone", Quiet
      PROVE  JoinInv' /\ \A k \in Awaited : Heeding(loop[k]) => Heeding(loop'[k])
  BY <1>2, OnwardStep DEF Quiet, program
<1>3. CASE Begin(l)
  <2> DEFINE q == [r EXCEPT !.thread = "run", !.tstat = kStarted]
  <2>1. q \in LoopObjects
    BY <1>1, Updates
  <2>2. r.thread = "begin" /\ loop' = [loop EXCEPT ![l] = q] /\ Quiet
    BY <1>3 DEF Begin, Step
  <2>3. /\ q.thread = "run" /\ q.stop = r.stop /\ q.owned = r.owned
        /\ q.tstat = kStarted
    BY <1>1 DEF LoopObjects
  <2>4. Onward(r, q) /\ q.thread # "gone"
    <3> HIDE DEF q, kStarted, kStopping
    <3> QED BY <2>2, <2>3, PoolStatus DEF Onward, Heeding
  <2> QED BY <1>2, <2>1, <2>2, <2>4
<1>4. CASE Run(l)
  <2> DEFINE q == IF r.owned THEN [r EXCEPT !.thread = "enter", !.lstat = kRunning]
                             ELSE [r EXCEPT !.thread = "ended"]
  <2>1. q \in LoopObjects
    BY <1>1, Updates
  <2>2. r.thread = "run" /\ loop' = [loop EXCEPT ![l] = q] /\ Quiet
    BY <1>4 DEF Run, Step
  <2>3. /\ q.stop = r.stop /\ q.owned = r.owned /\ q.tstat = r.tstat
        /\ q.thread = IF r.owned THEN "enter" ELSE "ended"
    BY <1>1 DEF LoopObjects
  <2>4. Onward(r, q) /\ q.thread # "gone"
    <3> HIDE DEF q
    <3> QED BY <2>2, <2>3 DEF Onward, Heeding, StoppingSelf
  <2> QED BY <1>2, <2>1, <2>2, <2>4
<1>5. CASE Enter(l)
  <2> DEFINE q == IF r.owned THEN [r EXCEPT !.thread = "entry"]
                             ELSE [r EXCEPT !.thread = "ended", !.lstat = kStopped]
  <2>1. q \in LoopObjects
    BY <1>1, Updates
  <2>2. r.thread = "enter" /\ loop' = [loop EXCEPT ![l] = q] /\ Quiet
    BY <1>5 DEF Enter, Step
  <2>3. /\ q.stop = r.stop /\ q.owned = r.owned /\ q.tstat = r.tstat
        /\ q.thread = IF r.owned THEN "entry" ELSE "ended"
    BY <1>1 DEF LoopObjects
  <2>4. Onward(r, q) /\ q.thread # "gone"
    <3> HIDE DEF q
    <3> QED BY <2>2, <2>3 DEF Onward, Heeding, StoppingSelf
  <2> QED BY <1>2, <2>1, <2>2, <2>4
<1>6. CASE SetRunning(l)
  <2> DEFINE q == [r EXCEPT !.thread = "poll", !.hloop = "RUNNING"]
  <2>1. q \in LoopObjects
    BY <1>1, Updates
  <2>2. r.thread = "entry" /\ loop' = [loop EXCEPT ![l] = q] /\ Quiet
    BY <1>6 DEF SetRunning, Step
  <2>3. Onward(r, q) /\ q.thread # "gone"
    BY <1>1, <2>1, <2>2 DEF Onward, Heeding, LoopObjects, StoppingSelf
  <2> QED BY <1>2, <2>1, <2>2, <2>3
<1>7. CASE Poll(l)
  <2> DEFINE q == [r EXCEPT !.thread = "cbs"]
  <2>1. q \in LoopObjects
    BY <1>1, Updates
  <2>2. r.thread = "poll" /\ loop' = [loop EXCEPT ![l] = q] /\ Quiet
    BY <1>7 DEF Poll, Step
  <2>3. Onward(r, q) /\ q.thread # "gone"
    BY <1>1, <2>1, <2>2 DEF Onward, Heeding, LoopObjects, StoppingSelf
  <2> QED BY <1>2, <2>1, <2>2, <2>3
<1>8. CASE EndIteration(l)
  <2> DEFINE q == [r EXCEPT !.thread = "poll"]
  <2>1. q \in LoopObjects
    BY <1>1, Updates
  <2>2. r.thread = "cbs" /\ loop' = [loop EXCEPT ![l] = q] /\ Quiet
    BY <1>8 DEF EndIteration, Step
  <2>3. Onward(r, q) /\ q.thread # "gone"
    BY <1>1, <2>1, <2>2 DEF Onward, Heeding, LoopObjects, StoppingSelf
  <2> QED BY <1>2, <2>1, <2>2, <2>3
<1>9. CASE Leave(l)
  <2> DEFINE q == [r EXCEPT !.thread = "ended", !.lstat = kStopped]
  <2>1. q \in LoopObjects
    BY <1>1, Updates
  <2>2. r.thread = "poll" /\ loop' = [loop EXCEPT ![l] = q] /\ main' = main /\ pool' = pool
    BY <1>9 DEF Leave, Step, program
  <2>3. Onward(r, q) /\ q.thread # "gone"
    BY <1>1, <2>1, <2>2 DEF Onward, Heeding, LoopObjects, StoppingSelf
  <2> QED BY <2>1, <2>2, <2>3, OnwardStep
<1>10. CASE End(l) /\ main' = main
  <2> DEFINE q == [r EXCEPT !.thread = "gone", !.tstat = kStopped]
  <2>1. q \in LoopObjects
    BY <1>1, Updates
  <2>2. r.thread = "ended" /\ loop' = [loop EXCEPT ![l] = q]
    BY <1>10 DEF End, Step, program, Died
  <2>3. Onward(r, q)
    BY <1>1, <2>1, <2>2, StatusDistinct DEF Onward, Heeding, LoopObjects, StoppingSelf
  <2>4. \/ pool' = pool /\ (l \notin Workers \/ \E w \in Workers \ {l} : loop[w].thread # "gone")
        \/ pool' = kStopped
    BY <1>10 DEF End
  <2> QED BY <1>10, <2>1, <2>2, <2>3, <2>4, OnwardStep
<1>11. CASE (End(l) \/ SelfTell(l)) /\ main' \in Died
  <2>1. loop' = loop /\ pool' = pool
    BY <1>11 DEF End, SelfTell, program
  <2> QED BY <1>11, <2>1, LoopsSame
<1>12. CASE SelfMark(l)
  <2> DEFINE q == [r EXCEPT !.thread = "tell", !.lstat = kStopping]
  <2>1. q \in LoopObjects
    BY <1>1, Updates
  <2>2. r.thread = "mark" /\ loop' = [loop EXCEPT ![l] = q] /\ Quiet
    BY <1>12 DEF SelfMark, Step
  <2>3. /\ q.stop = r.stop /\ q.owned = r.owned /\ q.tstat = r.tstat
        /\ q.thread = "tell" /\ q.hloop = r.hloop
    BY <1>1 DEF LoopObjects
  <2>4. Onward(r, q) /\ q.thread # "gone"
    <3> HIDE DEF q
    <3> QED BY <2>2, <2>3 DEF Onward, Heeding, StoppingSelf
  <2> QED BY <1>2, <2>1, <2>2, <2>4
<1>13. CASE SelfTell(l) /\ main' = main
  <2> DEFINE q == IF r.owned THEN [r EXCEPT !.thread = "clear", !.hloop = "STOP"]
                             ELSE [r EXCEPT !.thread = "clear"]
  <2>1. q \in LoopObjects
    BY <1>1, Updates
  <2>2. r.thread = "tell" /\ loop' = [loop EXCEPT ![l] = q] /\ pool' = pool
    BY <1>13 DEF SelfTell, Step, Died
  <2>3. /\ q.stop = r.stop /\ q.owned = r.owned /\ q.tstat = r.tstat
        /\ q.thread = "clear" /\ (~r.owned => q.hloop = r.hloop)
    BY <1>1 DEF LoopObjects
  <2>4. Onward(r, q) /\ q.thread # "gone"
    <3> HIDE DEF q
    <3> QED BY <2>2, <2>3 DEF Onward, Heeding, StoppingSelf
  <2> QED BY <1>13, <2>1, <2>2, <2>4, OnwardStep
<1>14. CASE SelfClear(l)
  <2> DEFINE q == [r EXCEPT !.thread = "cbs", !.owned = FALSE]
  <2>1. q \in LoopObjects
    BY <1>1, Updates
  <2>2. r.thread = "clear" /\ loop' = [loop EXCEPT ![l] = q] /\ Quiet
    BY <1>14 DEF SelfClear, Step
  <2>3. r.owned => ~Heeding(r)
    BY <2>2 DEF Heeding
  <2>4. Onward(r, q) /\ q.thread # "gone"
    BY <1>1, <2>1, <2>2, <2>3 DEF Onward, Heeding, LoopObjects, StoppingSelf
  <2> QED BY <1>2, <2>1, <2>2, <2>4
<1>15. ThreadStep(l) => main' = main \/ main' \in Died
  BY DEF ThreadStep, Begin, Run, Enter, SetRunning, Poll, Leave, End, SelfMark, SelfTell, SelfClear,
         Quiet, program
<1> QED BY <1>3, <1>4, <1>5, <1>6, <1>7, <1>8, <1>9, <1>10, <1>11, <1>12, <1>13, <1>14, <1>15
        DEF ThreadStep

LEMMA HeadIn == ASSUME NEW S, NEW s \in Seq(S), s # <<>> PROVE Head(s) \in S
OBVIOUS

LEMMA EventJoins ==
    ASSUME LifecycleInv, JoinInv, main \notin Died, NEW l \in Loops, RunEvent(l)
    PROVE  JoinInv' /\ \A k \in Awaited : Heeding(loop[k]) => Heeding(loop'[k])
<1> DEFINE r == loop[l]
<1>1. r \in LoopObjects /\ Coherent(r) /\ r.thread = "cbs"
  BY LoopFacts DEF LifecycleInv, RunEvent, InCallbacks
<1>2. CASE loop' = loop /\ pool' = pool /\ (main' = main \/ main' \in Died)
  BY <1>2, LoopsSame
<1>3. CASE WorkerReady(l) /\ l \in Workers /\ main' = main
  <2> DEFINE q == [r EXCEPT !.ready = TRUE]
  <2>1. q \in LoopObjects
    BY <1>1, Updates
  <2>2. loop' = [loop EXCEPT ![l] = q] /\ pool' \in {pool, kRunning}
    BY <1>3 DEF WorkerReady
  <2>3. Onward(r, q) /\ q.thread # "gone"
    BY <1>1, <2>1 DEF Onward, Heeding, LoopObjects, StoppingSelf
  <2> QED BY <1>3, <2>1, <2>2, <2>3, OnwardStep
<1>4. CASE loop' = [loop EXCEPT ![l] = SelfStopped(@)] /\ main' = main /\ pool' = pool
  <2> DEFINE q == SelfStopped(r)
  <2>1. q \in LoopObjects /\ Quits(r, q)
    BY <1>1, SelfCoherent, QuitsFacts
  <2>2. (~r.owned => q = r) /\ (Heeding(r) => ~r.owned)
    BY <1>1 DEF SelfStopped, Heeding
  <2>3. Onward(r, q) /\ q.thread # "gone"
    BY <1>1, <2>1, <2>2 DEF Onward, Quits, StoppingSelf
  <2>4. loop' = [loop EXCEPT ![l] = q]
    BY <1>4
  <2> HIDE DEF q
  <2> QED BY <1>4, <2>1, <2>3, <2>4, OnwardStep
<1>5. \/ loop' = loop /\ pool' = pool /\ (main' = main \/ main' \in Died)
      \/ WorkerReady(l) /\ l \in Workers /\ main' = main
      \/ loop' = [loop EXCEPT ![l] = SelfStopped(@)] /\ main' = main /\ pool' = pool
  <2> DEFINE ev == Head(events[l])
  <2>1. events[l] # <<>>
    BY DEF RunEvent
  <2>2. events[l] \in Seq(EventsOf(l))
    BY DEF LifecycleInv, EventInv
  <2>3. ev \in EventsOf(l)
    BY <2>1, <2>2, HeadIn
  <2>4. ev = "ready" => l \in Workers
    BY <2>3, LifecycleAssumption DEF EventsOf, Loops
  <2> QED BY <2>4 DEF RunEvent, StartRecv, StartRecvFails
<1> QED BY <1>2, <1>3, <1>4, <1>5

\* The main thread goes to a statement that neither joins nor has joined.
LEMMA MainElsewhere ==
    ASSUME JoinInv, main \notin {"join udp", "join acceptor", "join pool"} \cup Died,
           main' \notin {"join udp", "halt acceptor", "join acceptor", "halt pool", "join pool", "stopped"},
           \A l \in Loops : loop'[l].tstat = kStopping => loop[l].tstat = kStopping /\ loop'[l].thread = loop[l].thread
    PROVE  Told' /\ Joined'
<1>1. \A l \in Loops : JoinOf(l) \in {"join udp", "join acceptor", "join pool"}
  BY DEF JoinOf
<1>2. \A l \in Loops : loop[l].tstat = kStopping => loop[l].thread = "gone"
  BY <1>1 DEF JoinInv, Told
<1>3. \A l \in Loops : main' # JoinOf(l) /\ main' \notin After(l)
  BY <1>1 DEF After
<1> QED BY <1>2, <1>3 DEF Told, Joined

LEMMA NobodyAwaited ==
    ASSUME main \notin {"join udp", "join acceptor", "join pool", "stopped"}
    PROVE  Awaited = {}
BY DEF Awaited, JoinOf

\* Where only the main thread or a loop of no worker changes.
LEMMA PoolKept ==
    ASSUME PoolInv, pool' = pool, \A w \in Workers : loop'[w].thread = loop[w].thread,
           main \notin {"join pool"} \cup Died
    PROVE  PoolInv'
BY DEF PoolInv

\* start may give a loop a new thread, which no stop has met yet.
LEMMA StartJoins ==
    ASSUME LifecycleInv, JoinInv, NEW l \in {Udp, Acceptor}, NEW from, NEW to,
           from \notin {"join udp", "join acceptor", "join pool"} \cup Died,
           to \notin {"join udp", "halt acceptor", "join acceptor", "halt pool", "join pool", "stopped"},
           StartThread(l, from, to), pool' = pool
    PROVE  JoinInv'
<1>1. l \in Loops /\ l \notin Workers /\ ~loop[l].ready /\ Workers \subseteq Loops
  BY EventTypes DEF LifecycleInv, MainInv
<1>2. main = from /\ main' \in {to, "terminated"}
  BY DEF StartThread, At
<1>3. /\ \A k \in Loops \ {l} : loop'[k] = loop[k]
      /\ loop'[l] = loop[l] \/ loop'[l].tstat = kStarting
  <2>1. StartOutcome(l, from, to)
    BY <1>1, <1>2, StartThreadFacts, ElsewhereFacts DEF LifecycleInv
  <2> QED BY <2>1 DEF StartOutcome
<1>4. \A k \in Loops : loop'[k].tstat = kStopping =>
                           loop[k].tstat = kStopping /\ loop'[k].thread = loop[k].thread
  BY <1>3, StatusDistinct
<1>5. Told' /\ Joined'
  BY <1>2, <1>4, MainElsewhere
<1>6. PoolInv'
  BY <1>1, <1>2, <1>3, PoolKept DEF JoinInv
<1> QED BY <1>5, <1>6 DEF JoinInv

LEMMA StartPoolJoins == ASSUME LifecycleInv, JoinInv, StartPool PROVE JoinInv'
<1>1. main = "start pool" /\ main' = "wait pool"
  BY DEF StartPool, At
<1>2. CASE ~Startable(pool)
  <2>1. UNCHANGED <<pool, loop>>
    BY <1>2 DEF StartPool
  <2> QED BY <1>1, <2>1, MainElsewhere, PoolKept DEF JoinInv
<1>3. CASE Startable(pool)
  <2>1. pool' = kStarting
        /\ loop' = [l \in Loops |-> IF l \in Workers THEN Spawned(NewLoop) ELSE loop[l]]
    BY <1>3 DEF StartPool
  <2>2. Spawned(NewLoop).tstat = kStarting /\ Spawned(NewLoop).thread = "begin"
    BY DEF Spawned, NewLoop
  <2>3. \A l \in Loops : loop'[l].tstat = kStopping =>
                             loop[l].tstat = kStopping /\ loop'[l].thread = loop[l].thread
    BY <2>1, <2>2, StatusDistinct
  <2>4. Told' /\ Joined'
    BY <1>1, <2>3, MainElsewhere
  <2>5. \E w \in Workers : loop'[w].thread # "gone"
    BY <2>1, <2>2, EventTypes, LifecycleAssumption
  <2>6. PoolInv'
    BY <2>1, <2>5 DEF PoolInv
  <2> QED BY <2>4, <2>6 DEF JoinInv
<1> QED BY <1>2, <1>3

\* stop goes on to tell a loop to end, or passes by one that ended.
LEMMA HaltJoins ==
    ASSUME LifecycleInv, JoinInv, NEW l \in {Udp, Acceptor},
           \/ l = Udp /\ Halt(l, "halt udp", "join udp", "halt acceptor")
           \/ l = Acceptor /\ Halt(l, "halt acceptor", "join acceptor", "halt pool")
    PROVE  JoinInv'
<1> DEFINE r == loop[l]
<1>1. l \in Loops /\ l \notin Workers /\ Workers \subseteq Loops /\ Udp \in Loops /\ Acceptor \in Loops
  BY EventTypes
<1>2. /\ main = IF l = Udp THEN "halt udp" ELSE "halt acceptor"
      /\ main' = IF Stoppable(r.tstat) THEN JoinOf(l)
                 ELSE IF l = Udp THEN "halt acceptor" ELSE "halt pool"
      /\ pool' = pool
      /\ Stoppable(r.tstat) => loop' = [loop EXCEPT ![l] = [r EXCEPT !.stop = "set"]]
      /\ ~Stoppable(r.tstat) => loop' = loop
  BY EventTypes, JoinPlaces DEF Halt, At
<1>3. /\ \A k \in Loops \ {l} : loop'[k] = loop[k]
      /\ loop'[l].thread = r.thread /\ loop'[l].tstat = r.tstat
      /\ Stoppable(r.tstat) => loop'[l].stop = "set"
      /\ ~Stoppable(r.tstat) => loop'[l] = r
  <2>1. loop \in [Loops -> LoopObjects] /\ r \in LoopObjects
    BY <1>1, LoopFacts DEF LifecycleInv, TypeOK
  <2>2. CASE Stoppable(r.tstat)
    <3>1. loop'[l] = [r EXCEPT !.stop = "set"] /\ \A k \in Loops \ {l} : loop'[k] = loop[k]
      BY <1>1, <1>2, <2>1, <2>2
    <3> QED BY <2>1, <2>2, <3>1 DEF LoopObjects
  <2>3. CASE ~Stoppable(r.tstat)
    BY <1>2, <2>3
  <2> QED BY <2>2, <2>3
<1>4. main \notin {"join udp", "join acceptor", "join pool"} \cup Died
  BY <1>2
<1>5. \A k \in Loops : loop[k].tstat = kStopping => loop[k].thread = "gone"
  <2>1. \A k \in Loops : main # JoinOf(k)
    BY <1>4, JoinPlaces
  <2> QED BY <1>4, <2>1 DEF JoinInv, Told
<1>6. ~Stoppable(r.tstat) => r.thread \in {"none", "gone"}
  <2>1. r \in LoopObjects /\ Coherent(r)
    BY <1>1, LoopFacts DEF LifecycleInv
  <2> QED BY <1>1, <1>5, <2>1, CoherentFacts
<1>7. Told'
  <2> SUFFICES ASSUME NEW k \in Loops
               PROVE  /\ main' = JoinOf(k) /\ loop'[k].stop = "no" => ~loop'[k].owned
                      /\ loop'[k].tstat = kStopping => loop'[k].thread = "gone"
    BY DEF Told
  <2>1. CASE k = l
    <3>1. main' = JoinOf(l) => Stoppable(r.tstat)
      BY <1>2, JoinPlaces
    <3>2. Stoppable(r.tstat) => loop'[l].stop # "no"
      BY <1>3
    <3> QED BY <1>3, <1>5, <2>1, <3>1, <3>2
  <2>2. CASE k # l
    <3>1. main' # JoinOf(k)
      BY <1>2, <2>2, JoinPlaces
    <3> QED BY <1>3, <1>5, <2>2, <3>1
  <2> QED BY <2>1, <2>2
<1>8. Joined'
  <2> SUFFICES ASSUME NEW k \in Loops, main' \in After(k)
               PROVE  loop'[k].thread \in {"none", "gone"}
    BY DEF Joined
  <2>1. CASE k = l
    <3>1. ~Stoppable(r.tstat)
      BY <1>2, <2>1, JoinPlaces, EventTypes
    <3> QED BY <1>3, <1>6, <2>1, <3>1
  <2>2. CASE k # l
    <3>1. CASE l = Udp
      <4>1. main' \in {"join udp", "halt acceptor"}
        BY <1>2, <3>1, JoinPlaces
      <4>2. FALSE
        BY <2>2, <3>1, <4>1, JoinPlaces
      <4> QED BY <4>2
    <3>2. CASE l = Acceptor
      <4>1. main' \in {"join acceptor", "halt pool"}
        BY <1>2, <3>2, JoinPlaces, EventTypes
      <4>2. k = Udp
        BY <2>2, <3>2, <4>1 DEF After
      <4>3. main \in After(k)
        BY <1>2, <3>2, <4>2, JoinPlaces, EventTypes
      <4> QED BY <1>3, <2>2, <4>3 DEF JoinInv, Joined
    <3> QED BY <3>1, <3>2
  <2> QED BY <2>1, <2>2
<1>9. PoolInv'
  BY <1>1, <1>2, <1>3, <1>4, PoolKept DEF JoinInv
<1> QED BY <1>7, <1>8, <1>9 DEF JoinInv

\* The statements of EventLoop::stop: main stays before its join.
LEMMA StopLoopJoins ==
    ASSUME LifecycleInv, JoinInv, Alive, NEW l \in Loops, StopLoop(l)
    PROVE  JoinInv' /\ \A k \in Awaited : Heeding(loop[k]) => Heeding(loop'[k])
<1> DEFINE r == loop[l]
<1>1. r.stop # "no" /\ pool' = pool /\ r \in LoopObjects
  BY LoopFacts DEF StopLoop, StopSet, StopMark, StopTell, StopClear, StopAt, LifecycleInv
<1>2. main = JoinOf(l) /\ main \notin Died
  BY <1>1 DEF LifecycleInv, StopInv, Alive
<1>3. CASE main' \in Died /\ loop' = loop
  BY <1>1, <1>2, <1>3, LoopsSame
<1>4. ASSUME NEW q \in LoopObjects, Stops(r, q), q.stop = "no" => ~q.owned,
             loop' = [loop EXCEPT ![l] = q], main' = main
      PROVE  JoinInv' /\ \A k \in Awaited : Heeding(loop[k]) => Heeding(loop'[k])
  <2>1. loop'[l] = q /\ \A k \in Loops \ {l} : loop'[k] = loop[k]
    BY <1>4 DEF LifecycleInv, TypeOK
  <2>2. q.thread = r.thread
    BY <1>4 DEF Stops
  <2>3. Told'
    BY <1>2, <1>4, <2>1 DEF JoinInv, Told
  <2>4. Joined'
    BY <1>4, <2>1, <2>2 DEF JoinInv, Joined
  <2>5. \A w \in Workers : loop'[w].thread = loop[w].thread
    BY <2>1, <2>2, EventTypes
  <2>6. PoolInv'
    BY <1>1, <1>4, <2>5 DEF JoinInv, PoolInv
  <2>7. \A k \in Awaited : k \in Loops \ {l}
    BY <1>1 DEF Awaited
  <2>8. \A k \in Awaited : loop'[k] = loop[k]
    BY <2>1, <2>7
  <2> QED BY <2>3, <2>4, <2>6, <2>8 DEF JoinInv
<1>5. CASE StopSet(l)
  <2> DEFINE q == ThreadStopped(r)
  <2>1. loop' = [loop EXCEPT ![l] = q] /\ main' = main
    BY <1>5 DEF StopSet
  <2>2. q \in LoopObjects
    BY <1>1, Updates DEF ThreadStopped
  <2>3. q.stop = "no" => ~q.owned
    BY <1>1 DEF ThreadStopped, LoopObjects
  <2> QED BY <1>1, <1>4, <2>1, <2>2, <2>3, StopsFacts
<1>6. CASE StopMark(l)
  <2> DEFINE q == [r EXCEPT !.lstat = kStopping, !.stop = "tell"]
  <2>1. loop' = [loop EXCEPT ![l] = q] /\ main' = main
    BY <1>6 DEF StopMark, LifecycleInv, TypeOK, LoopObjects
  <2>2. q \in LoopObjects
    BY <1>1, Updates
  <2>3. q.stop = "tell"
    BY <1>1 DEF LoopObjects
  <2> QED BY <1>1, <1>4, <2>1, <2>2, <2>3, StopsFacts
<1>7. CASE StopTell(l) /\ ~(main' \in Died /\ loop' = loop)
  <2> DEFINE q == [r EXCEPT !.hloop = "STOP", !.stop = "clear"]
             p == [r EXCEPT !.stop = "clear"]
  <2>1. (loop' = [loop EXCEPT ![l] = q] \/ loop' = [loop EXCEPT ![l] = p]) /\ main' = main
    BY <1>7 DEF StopTell, LifecycleInv, TypeOK, LoopObjects
  <2>2. q \in LoopObjects /\ p \in LoopObjects
    BY <1>1, Updates
  <2>3. q.stop = "clear" /\ p.stop = "clear"
    BY <1>1 DEF LoopObjects
  <2> QED BY <1>1, <1>4, <2>1, <2>2, <2>3, StopsFacts
<1>8. CASE StopClear(l)
  <2> DEFINE q == [r EXCEPT !.owned = FALSE, !.stop = "no"]
  <2>1. loop' = [loop EXCEPT ![l] = q] /\ main' = main
    BY <1>8 DEF StopClear, LifecycleInv, TypeOK, LoopObjects
  <2>2. q \in LoopObjects
    BY <1>1, Updates
  <2>3. q.owned = FALSE
    BY <1>1 DEF LoopObjects
  <2> QED BY <1>1, <1>4, <2>1, <2>2, <2>3, StopsFacts
<1> QED BY <1>3, <1>5, <1>6, <1>7, <1>8 DEF StopLoop

LEMMA JoinJoins ==
    ASSUME LifecycleInv, JoinInv, NEW l \in {Udp, Acceptor},
           \/ l = Udp /\ Join(l, "join udp", "halt acceptor")
           \/ l = Acceptor /\ Join(l, "join acceptor", "halt pool")
    PROVE  JoinInv' /\ \A k \in Awaited : Heeding(loop[k]) => Heeding(loop'[k])
<1>1. l \in Loops /\ l \notin Workers /\ Workers \subseteq Loops /\ Udp \in Loops /\ Acceptor \in Loops
  BY EventTypes
<1>2. /\ main = JoinOf(l)
      /\ main' = IF l = Udp THEN "halt acceptor" ELSE "halt pool"
      /\ loop[l].joinable => loop[l].thread = "gone"
      /\ loop' = [loop EXCEPT ![l].joinable = FALSE] /\ pool' = pool
  BY EventTypes, JoinPlaces DEF Join, At
<1>3. /\ \A k \in Loops \ {l} : loop'[k] = loop[k]
      /\ loop'[l].thread \in {"none", "gone"} /\ loop'[l].thread = loop[l].thread
      /\ loop'[l].tstat = loop[l].tstat
      /\ loop[l].tstat = kStopping => loop[l].thread = "gone"
  <2>1. loop \in [Loops -> LoopObjects] /\ loop[l] \in LoopObjects /\ Coherent(loop[l])
    BY <1>1, LoopFacts DEF LifecycleInv, TypeOK
  <2>2. loop'[l] = [loop[l] EXCEPT !.joinable = FALSE] /\ \A k \in Loops \ {l} : loop'[k] = loop[k]
    BY <1>1, <1>2, <2>1 DEF LoopObjects
  <2>3. /\ loop[l].thread \in {"none", "gone"}
        /\ Kept(loop[l], [loop[l] EXCEPT !.joinable = FALSE])
        /\ [loop[l] EXCEPT !.joinable = FALSE].tstat = loop[l].tstat
    BY <1>2, <2>1, JoinedCoherent
  <2>4. loop[l].thread = "none" => loop[l].tstat # kStopping
    BY <2>1, StatusDistinct DEF Coherent
  <2> QED BY <2>2, <2>3, <2>4 DEF Kept
<1>4. Told'
  <2> SUFFICES ASSUME NEW k \in Loops
               PROVE  main' # JoinOf(k) /\ (loop'[k].tstat = kStopping => loop'[k].thread = "gone")
    BY DEF Told
  <2>1. main' # JoinOf(k)
    BY <1>2 DEF JoinOf
  <2>2. k # l => JoinOf(k) # JoinOf(l)
    BY JoinPlaces, EventTypes
  <2>3. main \notin Died
    BY <1>1, <1>2, JoinPlaces
  <2>4. k # l => (loop[k].tstat = kStopping => loop[k].thread = "gone")
    BY <1>2, <2>2, <2>3 DEF JoinInv, Told
  <2> QED BY <1>3, <2>1, <2>4
<1>6. Joined'
  <2> SUFFICES ASSUME NEW k \in Loops, main' \in After(k), k # l
               PROVE  loop'[k].thread \in {"none", "gone"}
    BY <1>3 DEF Joined
  <2>1. CASE l = Udp
    <3>1. main' = "halt acceptor"
      BY <1>2, <2>1
    <3>2. FALSE
      BY <2>1, <3>1, JoinPlaces
    <3> QED BY <3>2
  <2>2. CASE l = Acceptor
    <3>1. main' = "halt pool" /\ main = "join acceptor"
      BY <1>2, <2>2, EventTypes, JoinPlaces
    <3>2. k = Udp
      BY <2>2, <3>1 DEF After
    <3>3. main \in After(k)
      BY <3>1, <3>2, JoinPlaces
    <3> QED BY <1>3, <3>3 DEF JoinInv, Joined
  <2> QED BY <2>1, <2>2
<1>7. PoolInv'
  <2>1. main \notin {"join pool"} \cup Died
    BY <1>2, EventTypes, JoinPlaces
  <2> QED BY <1>1, <1>2, <1>3, <2>1, PoolKept DEF JoinInv
<1>8. \A k \in Awaited : Heeding(loop[k]) => Heeding(loop'[k])
  BY <1>3 DEF Awaited, Heeding
<1> QED BY <1>4, <1>6, <1>7, <1>8 DEF JoinInv

LEMMA HaltPoolJoins == ASSUME LifecycleInv, JoinInv, HaltPool PROVE JoinInv'
<1>1. main = "halt pool" /\ Workers \subseteq Loops /\ Udp \in Loops /\ Acceptor \in Loops
  BY EventTypes DEF HaltPool, At
<1>2. \A l \in Loops : loop[l].stop = "no" /\ (loop[l].tstat = kStopping => loop[l].thread = "gone")
  <2>1. main \notin {"join udp", "join acceptor", "join pool"} \cup Died
    BY <1>1
  <2>2. \A l \in Loops : JoinOf(l) # "halt pool"
    BY DEF JoinOf
  <2>3. \A l \in Loops : loop[l].stop = "no"
    BY <2>1, ElsewhereFacts DEF LifecycleInv
  <2> QED BY <1>1, <2>1, <2>2, <2>3 DEF JoinInv, Told
<1>3. loop[Udp].thread \in {"none", "gone"} /\ loop[Acceptor].thread \in {"none", "gone"}
  BY <1>1, JoinPlaces DEF JoinInv, Joined
<1>4. /\ Stoppable(pool) => pool \in {kStarting, kStarted, kRunning}
      /\ ~Stoppable(pool) => pool \in {kInitialized, kStopping, kStopped}
  <2>1. pool \in KStatus
    BY ProgramTypes
  <2> QED BY <2>1 DEF Stoppable
<1>5. CASE ~Stoppable(pool)
  <2>1. main' = "stopped" /\ pool' = pool /\ loop' = loop
    BY <1>5 DEF HaltPool, At
  <2>2. \A w \in Workers : loop[w].thread \in {"none", "gone"}
    <3>1. CASE pool = kInitialized
      BY <3>1 DEF JoinInv, PoolInv
    <3>2. CASE pool = kStopped
      BY <3>2 DEF LifecycleInv, MainInv
    <3>3. pool # kStopping
      BY <1>1 DEF JoinInv, PoolInv
    <3> QED BY <1>4, <1>5, <3>1, <3>2, <3>3
  <2>3. Told'
    <3>1. \A l \in Loops : JoinOf(l) # "stopped"
      BY DEF JoinOf
    <3> QED BY <1>2, <2>1, <3>1 DEF Told
  <2>4. Joined'
    BY <1>3, <2>1, <2>2, JoinPlaces DEF Joined
  <2>5. PoolInv'
    BY <1>1, <2>1, PoolKept DEF JoinInv
  <2> QED BY <2>3, <2>4, <2>5 DEF JoinInv
<1>6. CASE Stoppable(pool)
  <2>1. /\ main' = "join pool" /\ pool' = kStopping
        /\ loop' = [l \in Loops |-> IF l \in Workers /\ Stoppable(loop[l].tstat)
                                   THEN [loop[l] EXCEPT !.stop = "set"] ELSE loop[l]]
    BY <1>6 DEF HaltPool, At
  <2>2. loop'[Udp] = loop[Udp] /\ loop'[Acceptor] = loop[Acceptor]
    BY <1>1, <2>1, EventTypes
  <2>3. pool \in {kStarting, kStarted, kRunning}
    BY <1>6, <1>4
  <2>4. ASSUME NEW w \in Workers
        PROVE  /\ loop'[w].stop = "no" => ~loop'[w].owned
               /\ loop'[w].thread = loop[w].thread /\ loop'[w].tstat = loop[w].tstat
    <3>1. loop[w] \in LoopObjects /\ Coherent(loop[w]) /\ w \in Loops
      BY <1>1, LoopFacts DEF LifecycleInv
    <3>2. CASE Stoppable(loop[w].tstat)
      <4>1. loop'[w] = [loop[w] EXCEPT !.stop = "set"]
        BY <2>1, <3>1, <3>2
      <4> QED BY <3>1, <4>1 DEF LoopObjects
    <3>3. CASE ~Stoppable(loop[w].tstat)
      <4>1. loop'[w] = loop[w]
        BY <2>1, <3>1, <3>3
      <4>2. loop[w].ready
        <5>1. pool # kStarting
          BY <1>1 DEF LifecycleInv, MainInv
        <5> QED BY <2>3, <5>1 DEF LifecycleInv, MainInv
      <4>3. loop[w].thread \notin {"none", "begin", "run"}
        BY <3>1, <4>2, CoherentFacts DEF StoppingSelf
      <4>4. loop[w].thread = "gone" /\ loop[w].stop = "no"
        BY <1>2, <3>1, <3>3, <4>3, CoherentFacts
      <4>5. ~loop[w].owned
        BY <3>1, <4>4, CoherentFacts
      <4> QED BY <4>1, <4>5
    <3> QED BY <3>2, <3>3
  <2>5. Told'
    <3> SUFFICES ASSUME NEW l \in Loops
                 PROVE  /\ main' = JoinOf(l) /\ loop'[l].stop = "no" => ~loop'[l].owned
                        /\ loop'[l].tstat = kStopping => loop'[l].thread = "gone"
      BY DEF Told
    <3>1. CASE l \in Workers
      BY <1>2, <2>4, <3>1
    <3>2. CASE l \in {Udp, Acceptor}
      BY <1>2, <2>1, <2>2, <3>2, JoinPlaces
    <3> QED BY <3>1, <3>2, JoinPlaces
  <2>6. Joined'
    <3> SUFFICES ASSUME NEW l \in Loops, main' \in After(l)
                 PROVE  loop'[l].thread \in {"none", "gone"}
      BY DEF Joined
    <3>1. l \notin Workers
      <4>1. main' # "stopped"
        BY <2>1
      <4>2. l \in Workers => After(l) = {"stopped"}
        BY JoinPlaces
      <4> QED BY <4>1, <4>2
    <3> QED BY <1>3, <2>2, <3>1, JoinPlaces
  <2>7. PoolInv'
    <3>1. \E w \in Workers : loop[w].thread # "gone"
      BY <2>3 DEF JoinInv, PoolInv
    <3>2. \E w \in Workers : loop'[w].thread # "gone"
      BY <2>4, <3>1
    <3>3. main' \in {"join pool"} \cup Died /\ pool' = kStopping
      BY <2>1
    <3>4. kStopping # kInitialized
      OBVIOUS
    <3> HIDE DEF kInitialized, kStarting, kStarted, kRunning, kStopping
    <3> QED BY <3>2, <3>3, <3>4, Zenon DEF PoolInv
  <2> QED BY <2>5, <2>6, <2>7 DEF JoinInv
<1> QED BY <1>5, <1>6

LEMMA JoinPoolJoins ==
    ASSUME LifecycleInv, JoinInv, JoinPool
    PROVE  JoinInv' /\ \A k \in Awaited : Heeding(loop[k]) => Heeding(loop'[k])
<1>1. /\ main = "join pool" /\ main' = "stopped" /\ pool' = pool
      /\ loop' = [l \in Loops |-> IF l \in Workers THEN [loop[l] EXCEPT !.joinable = FALSE] ELSE loop[l]]
      /\ Workers \subseteq Loops /\ Udp \in Loops /\ Acceptor \in Loops
  BY EventTypes DEF JoinPool, At
<1>2. ASSUME NEW w \in Workers
      PROVE  /\ loop'[w].thread = loop[w].thread /\ loop'[w].tstat = loop[w].tstat
             /\ loop[w].thread \in {"none", "gone"}
             /\ loop[w].tstat = kStopping => loop[w].thread = "gone"
  <2>1. loop[w] \in LoopObjects /\ Coherent(loop[w])
    BY <1>1, LoopFacts DEF LifecycleInv
  <2>2. loop'[w] = [loop[w] EXCEPT !.joinable = FALSE]
    BY <1>1
  <2>3. loop[w].joinable => loop[w].thread = "gone"
    BY DEF JoinPool
  <2>4. loop[w].thread \in {"none", "gone"}
    BY <2>1, <2>3, JoinedCoherent
  <2>5. loop[w].thread = "none" => loop[w].tstat # kStopping
    BY <2>1, StatusDistinct DEF Coherent
  <2> QED BY <2>1, <2>2, <2>4, <2>5 DEF LoopObjects
<1>3. loop'[Udp] = loop[Udp] /\ loop'[Acceptor] = loop[Acceptor]
  BY <1>1, EventTypes
<1>4. loop[Udp].thread \in {"none", "gone"} /\ loop[Acceptor].thread \in {"none", "gone"}
  BY <1>1, JoinPlaces DEF JoinInv, Joined
<1>5. /\ loop[Udp].tstat = kStopping => loop[Udp].thread = "gone"
      /\ loop[Acceptor].tstat = kStopping => loop[Acceptor].thread = "gone"
  <2>1. JoinOf(Udp) # "join pool" /\ JoinOf(Acceptor) # "join pool"
    BY JoinPlaces
  <2> QED BY <1>1, <2>1 DEF JoinInv, Told
<1>6. Told'
  <2>1. \A l \in Loops : JoinOf(l) # "stopped"
    BY DEF JoinOf
  <2>2. \A l \in Loops : loop'[l].tstat = kStopping => loop'[l].thread = "gone"
    BY <1>2, <1>3, <1>5, JoinPlaces
  <2> QED BY <1>1, <2>1, <2>2 DEF Told
<1>7. \A l \in Loops : loop'[l].thread \in {"none", "gone"}
  BY <1>2, <1>3, <1>4, JoinPlaces
<1>8. PoolInv'
  <2>1. ASSUME pool = kStopping PROVE FALSE
    <3>1. \A w \in Workers : loop[w].ready
      BY <2>1 DEF LifecycleInv, MainInv
    <3>2. ASSUME NEW w \in Workers PROVE loop[w].thread = "gone"
      <4>1. loop[w] \in LoopObjects /\ Coherent(loop[w])
        BY <1>1, LoopFacts DEF LifecycleInv
      <4> QED BY <1>2, <3>1, <4>1, CoherentFacts DEF StoppingSelf
    <3> QED BY <2>1, <3>2 DEF JoinInv, PoolInv
  <2> QED BY <1>1, <1>2, <2>1 DEF JoinInv, PoolInv
<1> QED BY <1>6, <1>7, <1>8 DEF JoinInv, Joined, Awaited, Heeding

LEMMA MainJoins ==
    ASSUME LifecycleInv, JoinInv, Alive, MainStep \/ Call
    PROVE  JoinInv' /\ \A k \in Awaited : Heeding(loop[k]) => Heeding(loop'[k])
<1>1. ASSUME main \notin {"join udp", "join acceptor", "join pool", "stopped"}
      PROVE  \A k \in Awaited : Heeding(loop[k]) => Heeding(loop'[k])
  BY <1>1, NobodyAwaited
<1>2. ASSUME main \notin {"join udp", "join acceptor", "join pool"} \cup Died,
             main' \notin {"join udp", "halt acceptor", "join acceptor", "halt pool", "join pool", "stopped"},
             loop' = loop, pool' = pool
      PROVE  JoinInv' /\ \A k \in Awaited : Heeding(loop[k]) => Heeding(loop'[k])
  <2>1. Told' /\ Joined'
    BY <1>2, MainElsewhere
  <2>2. PoolInv'
    BY <1>2, PoolKept DEF JoinInv
  <2>3. \A k \in Loops : loop'[k] = loop[k]
    BY <1>2
  <2> QED BY <2>1, <2>2, <2>3 DEF JoinInv, Awaited
<1>3. CASE CreateUdp \/ CreateTcp \/ SetBuffer
  BY <1>2, <1>3 DEF CreateUdp, CreateTcp, SetBuffer, At
<1>4. CASE StartUdp
  <2>1. main = "start udp" /\ pool' = pool
    BY <1>4 DEF StartUdp, StartThread, At
  <2>2. CASE loop[Udp].lstat = kRunning
    <3>1. main' = "wait udp" /\ loop' = loop
      BY <1>4, <2>2 DEF StartUdp, At
    <3> QED BY <1>2, <2>1, <3>1
  <2>3. CASE loop[Udp].lstat # kRunning
    <3>1. StartThread(Udp, "start udp", "wait udp")
      BY <1>4, <2>3 DEF StartUdp
    <3>2. JoinInv'
      BY <2>1, <3>1, StartJoins
    <3> QED BY <1>1, <2>1, <3>2
  <2> QED BY <2>2, <2>3
<1>5. CASE WaitLoop(Udp, "wait udp", "start pool") \/ WaitLoop(Acceptor, "wait acceptor", "up")
  BY <1>2, <1>5 DEF WaitLoop, At
<1>6. CASE StartPool
  <2>1. main = "start pool"
    BY <1>6 DEF StartPool, At
  <2> QED BY <1>1, <1>6, <2>1, StartPoolJoins
<1>7. CASE WaitPool
  BY <1>2, <1>7 DEF WaitPool, At
<1>8. CASE StartAcceptor
  <2>1. StartThread(Acceptor, "start acceptor", "wait acceptor") /\ pool' = pool
    BY <1>8 DEF StartAcceptor
  <2>2. main = "start acceptor"
    BY <2>1 DEF StartThread, At
  <2>3. JoinInv'
    BY <2>1, StartJoins
  <2> QED BY <1>1, <2>2, <2>3
<1>9. CASE CloseUdp
  BY <1>2, <1>9 DEF CloseUdp, At
<1>10. CASE \/ Halt(Udp, "halt udp", "join udp", "halt acceptor")
            \/ Halt(Acceptor, "halt acceptor", "join acceptor", "halt pool")
  <2>1. JoinInv'
    BY <1>10, HaltJoins
  <2>2. main \in {"halt udp", "halt acceptor"}
    BY <1>10 DEF Halt, At
  <2> QED BY <1>1, <2>1, <2>2
<1>11. CASE \/ Join(Udp, "join udp", "halt acceptor")
            \/ Join(Acceptor, "join acceptor", "halt pool")
  BY <1>11, JoinJoins
<1>12. CASE HaltPool
  <2>1. main = "halt pool"
    BY <1>12 DEF HaltPool, At
  <2> QED BY <1>1, <1>12, <2>1, HaltPoolJoins
<1>13. CASE JoinPool
  BY <1>13, JoinPoolJoins
<1>14. CASE Stopped
  <2>1. main = "stopped" /\ main' \in {"done", "up"} /\ loop' = loop /\ pool' = pool
    BY <1>14 DEF Stopped, At
  <2> QED BY <1>2, <2>1
<1>15. CASE Call
  BY <1>2, <1>15 DEF Call, CallStart, CallStop, Destroy
<1>16. CASE \E l \in Loops : StopLoop(l)
  BY <1>16, StopLoopJoins
<1> QED BY <1>3, <1>4, <1>5, <1>6, <1>7, <1>8, <1>9, <1>10, <1>11, <1>12, <1>13, <1>14, <1>15, <1>16
        DEF MainStep

LEMMA JoinStep ==
    ASSUME LifecycleInv, JoinInv, [Next]_vars
    PROVE  JoinInv' /\ \A k \in Awaited : Heeding(loop[k]) => Heeding(loop'[k])
<1>1. CASE UNCHANGED vars
  <2>1. main' = main /\ loop' = loop /\ pool' = pool
    BY <1>1 DEF vars, program
  <2>2. \A k \in Loops : loop'[k] = loop[k]
    BY <2>1
  <2> QED BY <2>1, <2>2 DEF JoinInv, Told, Joined, PoolInv, Awaited
<1>2. CASE Next
  <2>1. Alive /\ main \notin Died
    BY <1>2 DEF Next, Alive
  <2>2. CASE MainStep \/ Call
    BY <2>1, <2>2, MainJoins
  <2>3. CASE Traffic \/ \E l \in Loops : EndMessage(l)
    <3>1. main' = main /\ loop' = loop /\ pool' = pool
      BY <2>3 DEF Traffic, BeginDatagram, Connect, Accept, BeginMessage, Flush, PeerCloses,
                  CloseTimeout, Active, EndMessage, program
    <3> QED BY <2>1, <3>1, LoopsSame
  <2>4. ASSUME NEW l \in Loops, ThreadStep(l) \/ EndIteration(l)
        PROVE  JoinInv' /\ \A k \in Awaited : Heeding(loop[k]) => Heeding(loop'[k])
    BY <2>1, <2>4, ThreadJoins
  <2>5. ASSUME NEW l \in Loops, RunEvent(l)
        PROVE  JoinInv' /\ \A k \in Awaited : Heeding(loop[k]) => Heeding(loop'[k])
    BY <2>1, <2>5, EventJoins
  <2> QED BY <1>2, <2>2, <2>3, <2>4, <2>5 DEF Next
<1> QED BY <1>1, <1>2

THEOREM JoinInvariant == Spec => []JoinInv
BY JoinInit, JoinStep, LifecycleInvariant, PTL DEF Spec

(* Whenever stop or the destructor waits for a loop, that loop is on its   *)
(* way to the end of loop_thread, or its stop was overwritten by           *)
(* hloop_run: no other way to hang exists in the joins.                    *)
THEOREM LifecycleJoinsHeeded == Spec => []JoinsHeeded
<1>1. ASSUME LifecycleInv, JoinInv, NEW l \in Awaited
      PROVE  Heeding(loop[l]) \/ Overrun(l)
  <2>1. l \in Loops /\ loop[l] \in LoopObjects
    BY <1>1, LoopFacts DEF LifecycleInv, Awaited
  <2>2. CASE main = "stopped"
    <3>1. "stopped" \in After(l)
      BY DEF After
    <3> QED BY <1>1, <2>1, <2>2, <3>1 DEF JoinInv, Joined, Heeding
  <2>3. CASE main = JoinOf(l)
    <3>1. ~loop[l].owned
      BY <1>1, <2>1, <2>3 DEF JoinInv, Told, Awaited
    <3> QED BY <2>1, <3>1 DEF Heeding, Overrun, StoppingSelf, LoopObjects
  <2> QED BY <2>2, <2>3 DEF Awaited
<1>2. LifecycleInv /\ JoinInv => JoinsHeeded
  BY <1>1 DEF JoinsHeeded
<1> QED BY <1>2, LifecycleInvariant, JoinInvariant, PTL

(* And it does not turn back while it is waited for.                       *)
THEOREM LifecycleHeedsForGood == Spec => HeedsForGood
<1>1. LifecycleInv /\ JoinInv /\ [Next]_vars
        => [\A l \in Awaited : Heeding(loop[l]) => Heeding(loop'[l])]_vars
  BY JoinStep
<1> QED BY <1>1, LifecycleInvariant, JoinInvariant, PTL DEF Spec, HeedsForGood
=============================================================================
