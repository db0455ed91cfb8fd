------------------------- MODULE MapServerLifecycle -------------------------
(***************************************************************************)
(* Construction, start, stop and destruction of hxMapServer, over libhv's  *)
(* threads: one event loop for UDP, one that accepts TCP connections, and  *)
(* a pool of workers that serve them.                                      *)
(*                                                                         *)
(* The main thread runs hxMapServer's calls; main names the statement it   *)
(* is at.  A loop's thread names where EventLoopThread::loop_thread is:    *)
(*                                                                         *)
(*   begin  run  enter  entry   on its way into hloop_run                  *)
(*   poll   cbs                 in hloop_run: waiting, running callbacks   *)
(*   mark   tell   clear        in a callback that calls EventLoop::stop   *)
(*   ended  gone                out of it, and returned                    *)
(*                                                                         *)
(* The main thread goes through EventLoop::stop statement by statement as  *)
(* well, next to the loop's thread and perhaps next to the loop's own      *)
(* call of it; stop of a loop names its place there:                       *)
(*                                                                         *)
(*   set                        EventLoopThread's status, the two tests    *)
(*   mark   tell   clear        EventLoop's status, hloop_stop, loop_      *)
(*   no                         not in there                               *)
(*                                                                         *)
(* loop_ is read and hloop_stop carried out in one step.                   *)
(***************************************************************************)
EXTENDS Integers, FiniteSets, Sequences

CONSTANTS
    Udp,        \* the loop of udpServer
    Acceptor,   \* the loop of tcpServer that accepts
    Workers,    \* the loops of its pool
    Clients,    \* TCP clients, with one connection each
    None, Datagram,
    MaxCalls    \* bound on the calls of start and stop after construction

Loops == Workers \cup {Udp, Acceptor}

ASSUME LifecycleAssumption ==
    /\ Udp \notin Workers /\ Acceptor \notin Workers /\ Udp # Acceptor
    /\ IsFiniteSet(Workers) /\ Workers # {}
    /\ None \notin Loops
    /\ \A ev \in {"startRecv", "recvAgain", "closeUdp", "ready", "startAccept"} : ev \notin Clients
    /\ None \notin Clients /\ Datagram \notin Clients /\ None # Datagram
    /\ MaxCalls \in Nat

VARIABLES
    main,      \* the statement of the main thread
    built,     \* the constructor reached its end
    dying,     \* the destructor runs
    calls,     \* calls of start and stop so far
    protobuf,  \* the library has not been shut down
    loop,      \* the EventLoopThread and the EventLoop of each loop
    events,    \* the events posted to it
    handling,  \* the client whose message its callback handles
    pool,      \* the status of the EventLoopThreadPool
    udp,       \* the UDP socket
    listen,    \* the listening socket
    conn,      \* each client's connection
    worker,    \* the worker it was given to
    pending    \* replies wait in its write queue

program == <<main, built, dying, calls, protobuf>>
network == <<udp, listen, conn, worker, pending>>
vars == <<program, loop, events, handling, pool, network>>

\* Status::KStatus
kInitialized == 2
kStarting    == 3
kStarted     == 4
kRunning     == 5
kStopping    == 7
kStopped     == 8

KStatus == {kInitialized, kStarting, kStarted, kRunning, kStopping, kStopped}

Startable(status) == status < kStarting \/ status >= kStopped
Stoppable(status) == status >= kStarting /\ status < kStopping

-----------------------------------------------------------------------------
(* The loops as objects.                                                   *)

LoopObjects == [thread   : {"none", "begin", "run", "enter", "entry", "poll", "cbs",
                            "mark", "tell", "clear", "ended", "gone"},
                joinable : BOOLEAN,
                ready    : BOOLEAN,
                tstat    : KStatus,
                lstat    : KStatus,
                hloop    : {"STOP", "RUNNING"},
                owned    : BOOLEAN,
                stop     : {"no", "set", "mark", "tell", "clear"},
                quit     : BOOLEAN]

\* A new EventLoopThread with its EventLoop: owned is loop_ # NULL, hloop the
\* status of the hloop_t, joinable an unjoined thread_, stop the main thread's
\* place in stopping it; quit is a history, the loop has called its own stop.
NewLoop == [thread   |-> "none",
            joinable |-> FALSE,
            ready    |-> FALSE,
            tstat    |-> kInitialized,
            lstat    |-> kInitialized,
            hloop    |-> "STOP",
            owned    |-> TRUE,
            stop     |-> "no",
            quit     |-> FALSE]

Spawned(r) == [r EXCEPT !.thread = "begin", !.joinable = TRUE, !.tstat = kStarting]

\* Mutant: the thread is marked but its loop is not told.
ThreadStoppedMarked(r) == [r EXCEPT !.tstat = kStopping, !.stop = "no"]

\* EventLoopThread::stop past its test, EventLoop::stop up to its tests
ThreadStopped(r) ==
    [r EXCEPT !.tstat = kStopping,
              !.stop  = IF r.owned /\ r.lstat >= kRunning THEN "mark" ELSE "no",
              !.owned = r.owned /\ r.lstat >= kRunning]

\* EventLoop::postEvent
Posted(l, ev) == IF loop[l].owned THEN [events EXCEPT ![l] = Append(@, ev)] ELSE events

\* Mutant: the pool gives its workers nothing to run.
PreMissing(l) == IF l = Udp THEN "startRecv" ELSE None

\* The functor that start has the loop run first.
Pre(l) == IF l = Udp THEN "startRecv" ELSE "ready"

Served(w) == {c \in Clients : worker[c] = w /\ conn[c] \in {"posted", "open", "closing"}}

-----------------------------------------------------------------------------
Init ==
    /\ main = "udp" /\ built = FALSE /\ dying = FALSE /\ calls = 0 /\ protobuf = TRUE
    /\ loop = [l \in Loops |-> NewLoop]
    /\ events = [l \in Loops |-> <<>>]
    /\ handling = [l \in Loops |-> None]
    /\ pool = kInitialized
    /\ udp = "none" /\ listen = "none"
    /\ conn = [c \in Clients |-> "none"]
    /\ worker = [c \in Clients |-> None]
    /\ pending = [c \in Clients |-> FALSE]

(* The constructor: each of its early returns leaves an object that has    *)
(* not started.                                                            *)

At(from, to) == main = from /\ main' = to /\ UNCHANGED <<dying, calls, protobuf>>

CreateUdp ==
    /\ \/ At("udp", "tcp") /\ udp' = "bound"
       \/ At("udp", "up") /\ UNCHANGED udp
    /\ UNCHANGED <<built, loop, events, handling, pool, listen, conn, worker, pending>>

CreateTcp ==
    /\ \/ At("tcp", "buffer") /\ listen' = "listening"
       \/ At("tcp", "up") /\ UNCHANGED listen
    /\ UNCHANGED <<built, loop, events, handling, pool, udp, conn, worker, pending>>

\* Mutant: the server starts although its buffer could not be set.
SetBufferIgnored ==
    /\ At("buffer", "start udp")
    /\ built' \in BOOLEAN
    /\ UNCHANGED <<loop, events, handling, pool, network>>

SetBuffer ==
    /\ \/ At("buffer", "start udp") /\ built' = TRUE
       \/ At("buffer", "up") /\ UNCHANGED built
    /\ UNCHANGED <<loop, events, handling, pool, network>>

-----------------------------------------------------------------------------
(* start                                                                   *)

\* EventLoopThread::start.  A second thread over one that was never joined
\* destroys a joinable std::thread: std::terminate.
StartThread(l, from, to) ==
    \/ ~Startable(loop[l].tstat) /\ At(from, to) /\ UNCHANGED loop
    \/ /\ Startable(loop[l].tstat)
       /\ IF loop[l].joinable
          THEN At(from, "terminated") /\ UNCHANGED loop
          ELSE At(from, to) /\ loop' = [loop EXCEPT ![l] = Spawned(@)]

\* UdpServer::start: startRecv is posted, or is the first functor of the
\* thread, which ends its loop when that fails.
StartUdp ==
    /\ IF loop[Udp].lstat = kRunning
       THEN /\ At("start udp", "wait udp")
            /\ events' = Posted(Udp, "recvAgain")
            /\ UNCHANGED loop
       ELSE StartThread(Udp, "start udp", "wait udp") /\ UNCHANGED events
    /\ UNCHANGED <<built, handling, pool, network>>

WaitLoop(l, from, to) ==
    /\ loop[l].lstat >= kRunning
    /\ At(from, to)
    /\ UNCHANGED <<built, loop, events, handling, pool, network>>

\* EventLoopThreadPool::start, which replaces the workers of an earlier run.
StartPool ==
    /\ At("start pool", "wait pool")
    /\ IF Startable(pool)
       THEN /\ pool' = kStarting
            /\ loop' = [l \in Loops |-> IF l \in Workers THEN Spawned(NewLoop) ELSE loop[l]]
            /\ events' = [l \in Loops |-> IF l \in Workers THEN <<>> ELSE events[l]]
       ELSE UNCHANGED <<pool, loop, events>>
    /\ UNCHANGED <<built, handling, network>>

WaitPool ==
    /\ pool >= kRunning
    /\ At("wait pool", "start acceptor")
    /\ UNCHANGED <<built, loop, events, handling, pool, network>>

\* TcpServer::start once the workers run
StartAcceptor ==
    /\ StartThread(Acceptor, "start acceptor", "wait acceptor")
    /\ events' = Posted(Acceptor, "startAccept")
    /\ UNCHANGED <<built, handling, pool, network>>

-----------------------------------------------------------------------------
(* stop, and the destructor, whose members stop in the same order.         *)

CallStart ==
    /\ built /\ calls < MaxCalls
    /\ main = "up" /\ main' = "start udp"
    /\ calls' = calls + 1
    /\ UNCHANGED <<built, dying, protobuf, loop, events, handling, pool, network>>

CallStop ==
    /\ built /\ calls < MaxCalls
    /\ main = "up" /\ main' = "stop udp"
    /\ calls' = calls + 1
    /\ UNCHANGED <<built, dying, protobuf, loop, events, handling, pool, network>>

\* ~hxMapServer, and then its members
Destroy ==
    /\ main = "up" /\ main' = "stop udp"
    /\ dying' = TRUE
    /\ protobuf' = FALSE
    /\ UNCHANGED <<built, calls, loop, events, handling, pool, network>>

\* UdpServer::closesocket marks the channel and leaves the rest to the loop.
CloseUdp ==
    /\ At("stop udp", "halt udp")
    /\ IF udp \in {"bound", "reading"}
       THEN udp' = "closing" /\ events' = Posted(Udp, "closeUdp")
       ELSE UNCHANGED <<udp, events>>
    /\ UNCHANGED <<built, loop, handling, pool, listen, conn, worker, pending>>

\* EventLoopThread::stop returns when there is nothing to stop.
Halt(l, from, wait, to) ==
    /\ \/ ~Stoppable(loop[l].tstat) /\ At(from, to) /\ UNCHANGED loop
       \/ /\ Stoppable(loop[l].tstat)
          /\ At(from, wait)
          /\ loop' = [loop EXCEPT ![l].stop = "set"]
    /\ UNCHANGED <<built, events, handling, pool, network>>

\* The main thread is at one statement of one loop's stop at a time.
StopAt(l, at) ==
    /\ loop[l].stop = at
    /\ \A x \in Loops \ {l} : loop[x].stop \in {"no", "set"}
    /\ UNCHANGED <<built, dying, calls, protobuf, events, handling, pool, network>>

StopSet(l) ==
    /\ StopAt(l, "set")
    /\ loop' = [loop EXCEPT ![l] = ThreadStopped(@)]
    /\ UNCHANGED main

StopMark(l) ==
    /\ StopAt(l, "mark")
    /\ loop' = [loop EXCEPT ![l].lstat = kStopping, ![l].stop = "tell"]
    /\ UNCHANGED main

\* hloop_stop of a loop_ that the loop has cleared meanwhile: the process
\* dies of it, or the pointer was still at hand and there is nothing to stop.
StopTell(l) ==
    /\ StopAt(l, "tell")
    /\ \/ /\ loop[l].owned
          /\ loop' = [loop EXCEPT ![l].hloop = "STOP", ![l].stop = "clear"]
          /\ UNCHANGED main
       \/ /\ ~loop[l].owned
          /\ loop' = [loop EXCEPT ![l].stop = "clear"]
          /\ UNCHANGED main
       \/ ~loop[l].owned /\ main' = "null loop" /\ UNCHANGED loop

\* Mutant: loop_ is kept.
StopClearKept(l) ==
    /\ StopAt(l, "clear")
    /\ loop' = [loop EXCEPT ![l].stop = "no"]
    /\ UNCHANGED main

StopClear(l) ==
    /\ StopAt(l, "clear")
    /\ loop' = [loop EXCEPT ![l].owned = FALSE, ![l].stop = "no"]
    /\ UNCHANGED main

StopLoop(l) == StopSet(l) \/ StopMark(l) \/ StopTell(l) \/ StopClear(l)

\* Mutant: the thread is detached instead.
JoinDetach(l, from, to) ==
    /\ loop[l].stop = "no"
    /\ At(from, to)
    /\ loop' = [loop EXCEPT ![l].joinable = FALSE]
    /\ UNCHANGED <<built, events, handling, pool, network>>

\* EventLoopThread::join
Join(l, from, to) ==
    /\ loop[l].stop = "no"
    /\ loop[l].joinable => loop[l].thread = "gone"
    /\ At(from, to)
    /\ loop' = [loop EXCEPT ![l].joinable = FALSE]
    /\ UNCHANGED <<built, events, handling, pool, network>>

\* EventLoopThreadPool::stop, which stops the workers one after the other.
HaltPool ==
    /\ IF Stoppable(pool)
       THEN /\ At("halt pool", "join pool")
            /\ pool' = kStopping
            /\ loop' = [l \in Loops |-> IF l \in Workers /\ Stoppable(loop[l].tstat)
                                       THEN [loop[l] EXCEPT !.stop = "set"] ELSE loop[l]]
       ELSE At("halt pool", "stopped") /\ UNCHANGED <<pool, loop>>
    /\ UNCHANGED <<built, events, handling, network>>

JoinPool ==
    /\ \A w \in Workers : loop[w].stop = "no"
    /\ \A w \in Workers : loop[w].joinable => loop[w].thread = "gone"
    /\ At("join pool", "stopped")
    /\ loop' = [l \in Loops |-> IF l \in Workers THEN [loop[l] EXCEPT !.joinable = FALSE] ELSE loop[l]]
    /\ UNCHANGED <<built, events, handling, pool, network>>

\* The destructors of the threads join what stop did not; the members go.
Stopped ==
    /\ At("stopped", IF dying THEN "done" ELSE "up")
    /\ dying => \A l \in Loops : loop[l].joinable => loop[l].thread = "gone"
    /\ udp' = IF dying /\ udp # "none" THEN "closed" ELSE udp
    /\ listen' = IF dying /\ listen # "none" THEN "closed" ELSE listen
    /\ conn' = [c \in Clients |-> IF dying /\ conn[c] = "backlog" THEN "refused" ELSE conn[c]]
    /\ UNCHANGED <<built, loop, events, handling, pool, worker, pending>>

MainStep ==
    \/ CreateUdp \/ CreateTcp \/ SetBuffer
    \/ StartUdp \/ WaitLoop(Udp, "wait udp", "start pool")
    \/ StartPool \/ WaitPool
    \/ StartAcceptor \/ WaitLoop(Acceptor, "wait acceptor", "up")
    \/ CloseUdp
    \/ Halt(Udp, "halt udp", "join udp", "halt acceptor")
    \/ Join(Udp, "join udp", "halt acceptor")
    \/ Halt(Acceptor, "halt acceptor", "join acceptor", "halt pool")
    \/ Join(Acceptor, "join acceptor", "halt pool")
    \/ HaltPool \/ JoinPool \/ Stopped
    \/ \E l \in Loops : StopLoop(l)

Call == CallStart \/ CallStop \/ Destroy

-----------------------------------------------------------------------------
(* EventLoopThread::loop_thread and EventLoop::run                         *)

Step(l, from, r) ==
    /\ loop[l].thread = from
    /\ loop' = [loop EXCEPT ![l] = r]

Quiet == UNCHANGED <<program, handling, pool, network>>

Begin(l) ==
    /\ Step(l, "begin", [loop[l] EXCEPT !.thread = "run", !.tstat = kStarted])
    /\ events' = IF l = Acceptor THEN events ELSE Posted(l, Pre(l))
    /\ Quiet

Run(l) ==
    /\ Step(l, "run", IF loop[l].owned
                      THEN [loop[l] EXCEPT !.thread = "enter", !.lstat = kRunning]
                      ELSE [loop[l] EXCEPT !.thread = "ended"])
    /\ Quiet /\ UNCHANGED events

\* Mutant: the status is not set after an hloop_run without a loop.
EnterUnset(l) ==
    /\ Step(l, "enter", [loop[l] EXCEPT !.thread = IF loop[l].owned THEN "entry" ELSE "ended"])
    /\ Quiet /\ UNCHANGED events

\* hloop_run takes loop_ a second time.
Enter(l) ==
    /\ Step(l, "enter", IF loop[l].owned
                        THEN [loop[l] EXCEPT !.thread = "entry"]
                        ELSE [loop[l] EXCEPT !.thread = "ended", !.lstat = kStopped])
    /\ Quiet /\ UNCHANGED events

\* From here on a stop is seen; one that came before is overwritten.
SetRunning(l) ==
    /\ Step(l, "entry", [loop[l] EXCEPT !.thread = "poll", !.hloop = "RUNNING"])
    /\ Quiet /\ UNCHANGED events

Poll(l) ==
    /\ loop[l].hloop = "RUNNING"
    /\ Step(l, "poll", [loop[l] EXCEPT !.thread = "cbs"])
    /\ Quiet /\ UNCHANGED events

\* A connection freed with the loop: one with replies left is not closed.
Freed(c) ==
    CASE conn[c] = "posted" -> "leaked"
      [] conn[c] = "open" /\ pending[c] -> "dangling"
      [] OTHER -> "closed"

\* The listening socket belongs to the loop only once it accepts.
AcceptsOn(l) == l = Acceptor /\ listen = "accepting"

\* hloop_run returns: hloop_cleanup frees every io of the loop.
Leave(l) ==
    /\ loop[l].hloop = "STOP"
    /\ Step(l, "poll", [loop[l] EXCEPT !.thread = "ended", !.lstat = kStopped])
    /\ udp' = IF l = Udp THEN "closed" ELSE udp
    /\ listen' = IF AcceptsOn(l) THEN "closed" ELSE listen
    /\ conn' = [c \in Clients |->
                   IF c \in Served(l) THEN Freed(c)
                   ELSE IF AcceptsOn(l) /\ conn[c] = "backlog" THEN "refused"
                   ELSE conn[c]]
    /\ events' = [events EXCEPT ![l] = <<>>]
    /\ UNCHANGED <<program, handling, pool, worker, pending>>

\* The assertion of loop_thread; the post functor of a worker counts exits.
End(l) ==
    \/ /\ loop[l].lstat = kStopped
       /\ Step(l, "ended", [loop[l] EXCEPT !.thread = "gone", !.tstat = kStopped])
       /\ pool' = IF l \in Workers /\ \A w \in Workers \ {l} : loop[w].thread = "gone"
                  THEN kStopped ELSE pool
       /\ UNCHANGED <<program, events, handling, network>>
    \/ /\ loop[l].lstat # kStopped
       /\ loop[l].thread = "ended"
       /\ main' = "asserted"
       /\ UNCHANGED <<built, dying, calls, protobuf, loop, events, handling, pool, network>>

-----------------------------------------------------------------------------
(* A loop that stops itself goes through the same statements.              *)

SelfMark(l) ==
    /\ Step(l, "mark", [loop[l] EXCEPT !.thread = "tell", !.lstat = kStopping])
    /\ Quiet /\ UNCHANGED events

SelfTell(l) ==
    /\ \/ /\ loop[l].owned
          /\ Step(l, "tell", [loop[l] EXCEPT !.thread = "clear", !.hloop = "STOP"])
          /\ UNCHANGED main
       \/ /\ ~loop[l].owned
          /\ Step(l, "tell", [loop[l] EXCEPT !.thread = "clear"])
          /\ UNCHANGED main
       \/ /\ ~loop[l].owned /\ loop[l].thread = "tell"
          /\ main' = "null loop"
          /\ UNCHANGED loop
    /\ UNCHANGED <<built, dying, calls, protobuf, events, handling, pool, network>>

SelfClear(l) ==
    /\ Step(l, "clear", [loop[l] EXCEPT !.thread = "cbs", !.owned = FALSE])
    /\ Quiet /\ UNCHANGED events

-----------------------------------------------------------------------------
(* The callbacks of an iteration.                                          *)

InCallbacks(l) == loop[l].thread = "cbs" /\ handling[l] = None

EndIteration(l) ==
    /\ InCallbacks(l)
    /\ Step(l, "cbs", [loop[l] EXCEPT !.thread = "poll"])
    /\ Quiet /\ UNCHANGED events

\* UdpServer::startRecv: a channel already closed is created again, which
\* needs the loop_ that stop has cleared once its socket is bound, and which
\* fails where the socket does.
StartRecv ==
    \/ udp \in {"bound", "reading"} /\ udp' = "reading" /\ UNCHANGED main
    \/ udp \in {"closing", "closed"} /\ loop[Udp].owned /\ udp' = "reading" /\ UNCHANGED main
    \/ udp \in {"closing", "closed"} /\ ~loop[Udp].owned /\ main' = "null loop" /\ UNCHANGED udp

StartRecvFails == udp \in {"closing", "closed"} /\ UNCHANGED <<udp, main>>

\* EventLoop::stop called by its own loop, up to its tests
SelfStopped(r) == IF r.owned THEN [r EXCEPT !.thread = "mark", !.quit = TRUE] ELSE r

WorkerReady(w) ==
    /\ loop' = [loop EXCEPT ![w].ready = TRUE]
    /\ pool' = IF \A x \in Workers \ {w} : loop[x].ready THEN kRunning ELSE pool

RunEvent(l) ==
    /\ InCallbacks(l)
    /\ events[l] # <<>>
    /\ events' = [events EXCEPT ![l] = Tail(@)]
    /\ LET ev == Head(events[l]) IN
       \/ ev \in {"startRecv", "recvAgain"} /\ StartRecv /\ UNCHANGED <<loop, pool, listen, conn>>
       \/ /\ ev = "startRecv" /\ StartRecvFails
          /\ loop' = [loop EXCEPT ![l] = SelfStopped(@)]
          /\ UNCHANGED <<pool, listen, conn>>
       \/ ev = "recvAgain" /\ StartRecvFails /\ UNCHANGED <<loop, pool, listen, conn>>
       \/ /\ ev = "closeUdp" /\ udp' = IF udp = "closing" THEN "closed" ELSE udp
          /\ UNCHANGED <<main, loop, pool, listen, conn>>
       \/ ev = "ready" /\ WorkerReady(l) /\ UNCHANGED <<main, udp, listen, conn>>
       \/ /\ ev = "startAccept" /\ listen' = "accepting"
          /\ UNCHANGED <<main, loop, pool, udp, conn>>
       \/ /\ ev \in Clients /\ conn' = [conn EXCEPT ![ev] = "open"]
          /\ UNCHANGED <<main, loop, pool, udp, listen>>
    /\ UNCHANGED <<built, dying, calls, protobuf, handling, worker, pending>>

\* TcpServer::onAccept: to the worker with the fewest connections.
Accept(c) ==
    /\ InCallbacks(Acceptor)
    /\ listen = "accepting" /\ conn[c] = "backlog"
    /\ \E w \in Workers :
          /\ \A x \in Workers : Cardinality(Served(w)) <= Cardinality(Served(x))
          /\ worker' = [worker EXCEPT ![c] = w]
          /\ conn' = [conn EXCEPT ![c] = IF loop[w].owned THEN "posted" ELSE "lost"]
          /\ events' = Posted(w, c)
    /\ UNCHANGED <<program, loop, handling, pool, udp, listen, pending>>

Active(c, states) ==
    /\ conn[c] \in states
    /\ InCallbacks(worker[c])
    /\ UNCHANGED <<program, loop, events, pool, udp, listen, worker>>

\* onMessage begins and, after any number of replies, returns.
BeginMessage(c) ==
    /\ Active(c, {"open"})
    /\ handling' = [handling EXCEPT ![worker[c]] = c]
    /\ UNCHANGED <<conn, pending>>

BeginDatagram ==
    /\ InCallbacks(Udp) /\ udp = "reading"
    /\ handling' = [handling EXCEPT ![Udp] = Datagram]
    /\ UNCHANGED <<program, loop, events, pool, network>>

EndMessage(l) ==
    /\ handling[l] # None
    /\ handling' = [handling EXCEPT ![l] = None]
    /\ \/ UNCHANGED pending
       \/ handling[l] # Datagram /\ pending' = [pending EXCEPT ![handling[l]] = TRUE]
    /\ UNCHANGED <<program, loop, events, pool, udp, listen, conn, worker>>

\* The peer reads what was written; a connection that waited for it closes.
Flush(c) ==
    /\ pending[c]
    /\ Active(c, {"open", "closing"})
    /\ pending' = [pending EXCEPT ![c] = FALSE]
    /\ conn' = [conn EXCEPT ![c] = IF @ = "closing" THEN "closed" ELSE @]
    /\ UNCHANGED handling

\* hio_close: at once, or later when replies wait.
PeerCloses(c) ==
    /\ Active(c, {"open"})
    /\ conn' = [conn EXCEPT ![c] = IF pending[c] THEN "closing" ELSE "closed"]
    /\ UNCHANGED <<handling, pending>>

CloseTimeout(c) ==
    /\ Active(c, {"closing"})
    /\ conn' = [conn EXCEPT ![c] = "closed"]
    /\ UNCHANGED <<handling, pending>>

\* A client connects; while nobody listens it is refused.
Connect(c) ==
    /\ conn[c] = "none"
    /\ listen \in {"listening", "accepting"}
    /\ conn' = [conn EXCEPT ![c] = "backlog"]
    /\ UNCHANGED <<program, loop, events, handling, pool, udp, listen, worker, pending>>

-----------------------------------------------------------------------------
\* What the process dies of: a joinable std::thread is destroyed, loop_ is
\* used after it was cleared, loop_thread's assertion fails.
Died == {"terminated", "null loop", "asserted"}

Alive == main \notin Died \cup {"done"}

ThreadStep(l) ==
    \/ Begin(l) \/ Run(l) \/ Enter(l) \/ SetRunning(l) \/ Poll(l) \/ Leave(l) \/ End(l)
    \/ SelfMark(l) \/ SelfTell(l) \/ SelfClear(l)

Traffic ==
    \/ BeginDatagram
    \/ \E c \in Clients :
          \/ Connect(c) \/ Accept(c) \/ BeginMessage(c)
          \/ Flush(c) \/ PeerCloses(c) \/ CloseTimeout(c)

Next ==
    /\ Alive
    /\ \/ MainStep \/ Call \/ Traffic
       \/ \E l \in Loops : ThreadStep(l) \/ EndIteration(l) \/ RunEvent(l) \/ EndMessage(l)

Spec == Init /\ [][Next]_vars

(* The scheduler runs every thread, a handler returns, and the list of     *)
(* pending callbacks of an iteration is finite.                            *)
Fairness ==
    /\ WF_vars(Alive /\ MainStep)
    /\ \A l \in Loops : /\ WF_vars(Alive /\ (ThreadStep(l) \/ EndMessage(l)))
                       /\ SF_vars(Alive /\ EndIteration(l))

FairSpec == Spec /\ Fairness

-----------------------------------------------------------------------------
(* Properties.                                                             *)

\* The values of the variables.
TypeOK ==
    /\ main \in {"udp", "tcp", "buffer", "start udp", "wait udp", "start pool",
                 "wait pool", "start acceptor", "wait acceptor", "up", "stop udp",
                 "halt udp", "join udp", "halt acceptor", "join acceptor",
                 "halt pool", "join pool", "stopped", "done"} \cup Died
    /\ built \in BOOLEAN /\ dying \in BOOLEAN /\ protobuf \in BOOLEAN
    /\ calls \in 0 .. MaxCalls
    /\ loop \in [Loops -> LoopObjects]
    /\ events \in [Loops -> Seq({"startRecv", "recvAgain", "closeUdp", "ready", "startAccept"} \cup Clients)]
    /\ handling \in [Loops -> Clients \cup {None, Datagram}]
    /\ pool \in KStatus
    /\ udp \in {"none", "bound", "reading", "closing", "closed"}
    /\ listen \in {"none", "listening", "accepting", "closed"}
    /\ conn \in [Clients -> {"none", "backlog", "refused", "posted", "open", "closing",
                            "closed", "leaked", "dangling", "lost"}]
    /\ worker \in [Clients -> Workers \cup {None}]
    /\ pending \in [Clients -> BOOLEAN]

\* A server whose construction failed half way serves nobody, although a
\* client may be left waiting on its listening socket: no thread ever runs.
HalfBuilt ==
    ~built => /\ \A c \in Clients : conn[c] \in {"none", "backlog", "refused"}
              /\ udp # "reading"
              /\ \A l \in Loops : loop[l].thread = "none"

\* No accepted connection is handed to a worker that has been told to stop
\* and would drop it: the acceptor is joined before the pool is stopped.
PostsAlive == \A c \in Clients : conn[c] # "lost"

\* What the handlers use (filesReceiver, the channels, the server) is freed
\* only when no thread is left to use it.
OutlivedByMembers == main = "done" => \A l \in Loops : loop[l].thread \in {"none", "gone"}

\* assert(loop_->isStopped()) of loop_thread, also when stop cleared loop_
\* before or while the thread was on its way into the loop; only a loop that
\* called stop itself may find its status set back by the main thread's.
AssertStopped ==
    \A l \in Loops : (loop[l].thread = "ended" /\ ~loop[l].quit) => loop[l].lstat = kStopped

\* What a client sees of the server.
Phase == CASE listen = "accepting" -> "open" [] listen = "closed" -> "shut" [] OTHER -> "new"
Taken == {c \in Clients : conn[c] \notin {"none", "backlog", "refused"}}
InSession == {c \in Clients : conn[c] \in {"open", "closing"}}
Over == {c \in Clients : conn[c] \in {"closed", "leaked", "dangling", "lost"}}

Service == INSTANCE MapService WITH
    Clients <- Clients, phase <- Phase, taken <- Taken, served <- InSession, over <- Over

\* What clients may expect, whatever calls of start and stop are made; in
\* particular a server that was stopped does not accept again.
KeepsPromise == Service!ServiceSpec

\* A stop reached the loop on its way into hloop_run, which overwrites it.
Overrun(l) ==
    /\ ~loop[l].owned
    /\ \/ loop[l].thread = "entry"
       \/ /\ loop[l].thread \in {"poll", "cbs", "mark", "tell", "clear"}
          /\ loop[l].hloop = "RUNNING"

Stopping == main = "stop udp"
Returned == main \in {"up", "done"}

\* A stop of the UDP loop meets a channel that is being created again, or
\* the loop's own stop because that failed: loop_ is cleared under the other
\* one's feet, or the status set back before the assertion.
UdpDied == main \in {"null loop", "asserted"}

\* stop and the destructor come back, whatever the loops are doing, except
\* where a stop was overwritten, or the UDP loop took the process down.
StopEnds == Stopping ~> (Returned \/ UdpDied \/ \E l \in Loops : Overrun(l))

\* What EventLoopThread::stop says of itself, where the process lives.
StopReturns == Stopping ~> (Returned \/ UdpDied)

\* What message_lite.h asks of callers of ShutdownProtobufLibrary: no handler,
\* all of which parse messages, runs from then on.
UnusedAfterShutdown == ~protobuf => \A l \in Loops : handling[l] = None
=============================================================================
