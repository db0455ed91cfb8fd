------------------------------ MODULE MapUpload ------------------------------
(***************************************************************************)
(* The upload path of the map server (mapUdpServer/hxMapServer.cpp).       *)
(*                                                                         *)
(* A client sends a file as numbered packets over one TCP connection.  The *)
(* connection is pinned to one worker thread of the TCP server, and every  *)
(* worker runs the same onMessage handler on the same, unlocked, map       *)
(* filesReceiver, whose key is the file name alone.  The handler is a      *)
(* sequence of accesses to shared memory and to the disk, one action each: *)
(*                                                                         *)
(*   "set"    filesReceiver[fileName].setFileInfo(...)          line 335   *)
(*   "recv"   filesReceiver[fileName].receive(...): store, test line 337   *)
(*   "open"   ... ensureDirectoryExists, open the file          line 180   *)
(*   "write"  ... write the packets, close, clear               line 187   *)
(*   "erase"  filesReceiver.erase(fileName)                     line 338   *)
(*                                                                         *)
(* A worker whose pc is one of these is executing that statement.          *)
(***************************************************************************)
EXTENDS Integers, FiniteSets

CONSTANTS
    Workers,  \* the event-loop threads, tcpServer.setThreadNum(10)
    Uploads,  \* the transfers clients make, each on a connection of its own
    Maps,     \* map names
    Files,    \* file names
    MapOf,    \* the map an upload is for
    FileOf,   \* the file an upload carries
    Chunks,   \* the number of non-empty packets its content splits into
    None      \* no upload

\* The empty string, the name of a file or map that has none yet.
NoName == "empty"

ASSUME UploadAssumption ==
    /\ MapOf \in [Uploads -> Maps]
    /\ FileOf \in [Uploads -> Files]
    /\ Chunks \in [Uploads -> Nat]
    /\ None \notin Uploads
    /\ NoName \notin Maps
    /\ NoName \notin Files

VARIABLES
    keys,           \* the keys of filesReceiver
    filesReceiver,  \* the hxFile under each key; a fresh one where there is none
    disk,           \* the content of each file below mapResPath
    pc,             \* the statement each worker is executing
    job,            \* the upload whose packet it is handling
    status,         \* where each upload stands
    worker,         \* the worker its connection is pinned to
    next,           \* the number of its packets handled so far
    up,             \* the process is running
    raced,          \* history: two workers met in conflicting accesses
    spoiled,        \* history: file names whose uploads did not go cleanly
    latest,         \* history: the last complete upload of each path
    cut             \* history: paths whose last write failed half-way

server == <<keys, filesReceiver, disk>>
threads == <<pc, job>>
clients == <<status, worker, next>>
vars == <<server, threads, clients, up, raced, spoiled, latest, cut>>

-----------------------------------------------------------------------------
(* What a client sends: the numbering of splitToVector, which is the other *)
(* end of the same protocol.  A piece <<u, k>> is the k-th run of at most  *)
(* MaxPacketSize bytes of upload u; Empty is a packet without content.     *)

Empty == <<>>

Pieces == (Uploads \X Nat) \cup {Empty}

Total(u) == IF Chunks[u] = 0 THEN 1 ELSE Chunks[u]

PacketNum(u, k) == IF Chunks[u] = 0 THEN 1 ELSE k

Content(u, k) == IF Chunks[u] = 0 THEN Empty ELSE <<u, k>>

\* The content of the whole file, piece by piece.
Bytes(u) == [i \in 0 .. Total(u) - 1 |-> Content(u, i)]

Paths == Maps \X Files

PathOf(u) == <<MapOf[u], FileOf[u]>>

-----------------------------------------------------------------------------
(* class hxFile.                                                           *)

NoPackets == [i \in {} |-> Empty]

\* A default-constructed hxFile, what operator[] inserts under a new key.
NewFile == [map_name          |-> NoName,
            file_name         |-> NoName,
            file_packet_total |-> 0,
            file_packets      |-> NoPackets]

\* Mutant: the two names swapped.
setFileInfoSwapped(r, u) ==
    IF r.file_name # NoName
    THEN r
    ELSE [r EXCEPT !.map_name = FileOf[u],
                   !.file_name = MapOf[u],
                   !.file_packet_total = Total(u)]

\* The first packet names the file; later ones leave what is there alone.
setFileInfo(r, u) ==
    IF r.file_name # NoName
    THEN r
    ELSE [r EXCEPT !.map_name = MapOf[u],
                   !.file_name = FileOf[u],
                   !.file_packet_total = Total(u)]

\* Mutant: packets kept in order of arrival instead of by number.
StorePacketAppend(packets, num, content) ==
    [i \in DOMAIN packets \cup {Cardinality(DOMAIN packets)} |->
        IF i = Cardinality(DOMAIN packets) THEN content ELSE packets[i]]

\* file_packets[packetNum] = content
StorePacket(packets, num, content) ==
    [i \in DOMAIN packets \cup {num} |->
        IF i = num THEN content ELSE packets[i]]

\* Mutant: one packet more is waited for.
IncompleteOffByOne(r) == Cardinality(DOMAIN r.file_packets) <= r.file_packet_total

\* file_packets.size() < file_packet_total, the test that more must come.
Incomplete(r) == Cardinality(DOMAIN r.file_packets) < r.file_packet_total

\* Mutant: the last packet is not written.
AssembledShort(r) ==
    [i \in 0 .. r.file_packet_total - 2 |->
        IF i \in DOMAIN r.file_packets THEN r.file_packets[i] ELSE Empty]

\* The packets 0 .. total - 1 in order; operator[] supplies an empty one for
\* a number that never arrived, and any other number is left out.
Assembled(r) ==
    [i \in 0 .. r.file_packet_total - 1 |->
        IF i \in DOMAIN r.file_packets THEN r.file_packets[i] ELSE Empty]

-----------------------------------------------------------------------------
(* Conflicting accesses.  No lock orders the workers, so two of them whose *)
(* current statements touch the same object, one of them writing, race:    *)
(* operator[] writes the tree when it inserts and reads it otherwise,      *)
(* erase writes the tree and destroys the hxFile, receive writes           *)
(* file_packets, setFileInfo writes the description only once.             *)

FileAt(w) == FileOf[job[w]]

Reads(w) ==
    CASE pc[w] = "idle" -> {}
      [] pc[w] \in {"set", "recv"} -> {<<"map">>, <<"info", FileAt(w)>>}
      [] pc[w] \in {"open", "write"} -> {<<"info", FileAt(w)>>}
      [] pc[w] = "erase" -> {<<"map">>}

Writes(w) ==
    CASE pc[w] \in {"idle", "open"} -> {}
      [] pc[w] = "set" ->
            (IF FileAt(w) \in keys THEN {} ELSE {<<"map">>}) \cup
            (IF filesReceiver[FileAt(w)].file_name # NoName
             THEN {} ELSE {<<"info", FileAt(w)>>})
      [] pc[w] = "recv" ->
            (IF FileAt(w) \in keys THEN {} ELSE {<<"map">>}) \cup
            {<<"packets", FileAt(w)>>}
      [] pc[w] = "write" -> {<<"packets", FileAt(w)>>}
      [] pc[w] = "erase" ->
            {<<"map">>, <<"info", FileAt(w)>>, <<"packets", FileAt(w)>>}

Conflict(v, w) == v # w /\ Writes(v) \cap (Reads(w) \cup Writes(w)) # {}

Racing(w) == \E v \in Workers : Conflict(v, w) \/ Conflict(w, v)

Race == \E w \in Workers : Racing(w)

NoteRace == raced' = (raced \/ Race')

-----------------------------------------------------------------------------
Init ==
    /\ keys = {}
    /\ filesReceiver = [f \in Files |-> NewFile]
    /\ disk = [p \in Paths |-> <<>>]
    /\ pc = [w \in Workers |-> "idle"]
    /\ job = [w \in Workers |-> None]
    /\ status = [u \in Uploads |-> "waiting"]
    /\ worker \in [Uploads -> Workers]
    /\ next = [u \in Uploads |-> 0]
    /\ up = TRUE
    /\ raced = FALSE
    /\ spoiled = {}
    /\ latest = [p \in Paths |-> None]
    /\ cut = {}

\* Another connection is in the middle of sending a file of the same name.
Overlaps(u) ==
    \E v \in Uploads \ {u} : FileOf[v] = FileOf[u] /\ status[v] = "sending"

\* hio_unpack hands the next complete packet of u's connection to onMessage.
\* The worker is between two messages, so it can take one.
Deliver(u) ==
    /\ up
    /\ status[u] \in {"waiting", "sending"}
    /\ pc[worker[u]] = "idle"
    /\ pc' = [pc EXCEPT ![worker[u]] = "set"]
    /\ job' = [job EXCEPT ![worker[u]] = u]
    /\ status' = [status EXCEPT ![u] = "sending"]
    /\ spoiled' = IF Overlaps(u) THEN spoiled \cup {FileOf[u]} ELSE spoiled
    /\ UNCHANGED <<server, worker, next, up, latest, cut>>
    /\ NoteRace

\* The connection breaks before the last packet; onConnection only prints,
\* what was received stays in filesReceiver.
Disconnect(u) ==
    /\ up
    /\ status[u] = "sending"
    /\ job[worker[u]] # u
    /\ status' = [status EXCEPT ![u] = "lost"]
    /\ spoiled' = spoiled \cup {FileOf[u]}
    /\ UNCHANGED <<server, threads, worker, next, up, raced, latest, cut>>

\* The client connects again, to send the same file once more; the load
\* balancer may pick any worker.
Reconnect(u) ==
    /\ up
    /\ status[u] \in {"done", "lost"}
    /\ status' = [status EXCEPT ![u] = "waiting"]
    /\ next' = [next EXCEPT ![u] = 0]
    /\ \E w \in Workers : worker' = [worker EXCEPT ![u] = w]
    /\ UNCHANGED <<server, threads, up, raced, spoiled, latest, cut>>

SetFileInfo(w) ==
    LET f == FileAt(w) IN
    /\ up
    /\ pc[w] = "set"
    /\ keys' = keys \cup {f}
    /\ filesReceiver' =
            [filesReceiver EXCEPT ![f] = setFileInfo(filesReceiver[f], job[w])]
    /\ pc' = [pc EXCEPT ![w] = "recv"]
    /\ UNCHANGED <<disk, job, clients, up, spoiled, latest, cut>>
    /\ NoteRace

\* onMessage returns: the packet is handled.
Return(w) ==
    LET u == job[w] IN
    /\ pc' = [pc EXCEPT ![w] = "idle"]
    /\ job' = [job EXCEPT ![w] = None]
    /\ next' = [next EXCEPT ![u] = next[u] + 1]
    /\ worker' = worker
    /\ IF next[u] + 1 = Total(u)
       THEN /\ status' = [status EXCEPT ![u] = "done"]
            /\ latest' = [latest EXCEPT ![PathOf(u)] = u]
       ELSE UNCHANGED <<status, latest>>

\* receive stores the packet and returns false unless all have arrived.
Receive(w) ==
    LET f == FileAt(w)
        u == job[w]
        r == [filesReceiver[f] EXCEPT !.file_packets =
                 StorePacket(@, PacketNum(u, next[u]), Content(u, next[u]))]
    IN
    /\ up
    /\ pc[w] = "recv"
    /\ keys' = keys \cup {f}
    /\ filesReceiver' = [filesReceiver EXCEPT ![f] = r]
    /\ IF Incomplete(r)
       THEN Return(w)
       ELSE pc' = [pc EXCEPT ![w] = "open"] /\ UNCHANGED <<job, clients, latest>>
    /\ UNCHANGED <<disk, up, spoiled, cut>>
    /\ NoteRace

\* The ofstream truncates the file it opens.
OpenFile(w) ==
    LET r == filesReceiver[FileAt(w)] IN
    /\ up
    /\ pc[w] = "open"
    /\ r.file_name # NoName
    /\ disk' = [disk EXCEPT ![<<r.map_name, r.file_name>>] = <<>>]
    /\ pc' = [pc EXCEPT ![w] = "write"]
    /\ UNCHANGED <<keys, filesReceiver, job, clients, up, spoiled, latest, cut>>
    /\ NoteRace

\* The file cannot be opened (no directory, no permission; without a name
\* the path is the directory itself): receive returns false and the packets
\* stay.
OpenFails(w) ==
    /\ up
    /\ pc[w] = "open"
    /\ spoiled' = spoiled \cup {FileAt(w)}
    /\ Return(w)
    /\ UNCHANGED <<server, up, cut>>
    /\ NoteRace

WriteFile(w) ==
    LET f == FileAt(w)
        r == filesReceiver[f]
        p == <<r.map_name, r.file_name>>
    IN
    /\ up
    /\ pc[w] = "write"
    /\ r.file_name # NoName
    /\ disk' = [disk EXCEPT ![p] = Assembled(r)]
    /\ filesReceiver' = [filesReceiver EXCEPT ![f].file_packets = NoPackets]
    /\ pc' = [pc EXCEPT ![w] = "erase"]
    /\ cut' = cut \ {p}
    /\ UNCHANGED <<keys, job, clients, up, spoiled, latest>>
    /\ NoteRace

\* Mutant: the failed write is noticed, receive returns false at once.
WriteFailsNoticed(w) ==
    LET r == filesReceiver[FileAt(w)] IN
    /\ up
    /\ pc[w] = "write"
    /\ r.file_name # NoName
    /\ cut' = cut \cup {<<r.map_name, r.file_name>>}
    /\ Return(w)
    /\ UNCHANGED <<server, up, spoiled>>
    /\ NoteRace

\* A write or the close fails, as on a full disk: neither is tested, so the
\* file ends early, the packets are cleared and the caller erases them all
\* the same.
WriteFails(w) ==
    LET f == FileAt(w)
        r == filesReceiver[f]
        p == <<r.map_name, r.file_name>>
    IN
    /\ up
    /\ pc[w] = "write"
    /\ r.file_name # NoName
    /\ \E n \in 0 .. r.file_packet_total - 1 :
          disk' = [disk EXCEPT ![p] = [i \in 0 .. n - 1 |-> Assembled(r)[i]]]
    /\ filesReceiver' = [filesReceiver EXCEPT ![f].file_packets = NoPackets]
    /\ pc' = [pc EXCEPT ![w] = "erase"]
    /\ cut' = cut \cup {p}
    /\ UNCHANGED <<keys, job, clients, up, spoiled, latest>>
    /\ NoteRace

\* Mutant: the receiver is kept after a successful save.
EraseForgotten(w) ==
    /\ up
    /\ pc[w] = "erase"
    /\ Return(w)
    /\ UNCHANGED <<server, up, spoiled, cut>>
    /\ NoteRace

Erase(w) ==
    LET f == FileAt(w) IN
    /\ up
    /\ pc[w] = "erase"
    /\ keys' = keys \ {f}
    /\ filesReceiver' = [filesReceiver EXCEPT ![f] = NewFile]
    /\ Return(w)
    /\ UNCHANGED <<disk, up, spoiled, cut>>
    /\ NoteRace

-----------------------------------------------------------------------------
(* Outcomes of a race beyond those of some serial order: an insertion into *)
(* a tree another worker is rebalancing is lost, or the process dies.      *)

LostInsertion(w) ==
    /\ up
    /\ pc[w] \in {"set", "recv"}
    /\ Racing(w)
    /\ IF pc[w] = "set"
       THEN pc' = [pc EXCEPT ![w] = "recv"] /\ UNCHANGED <<job, clients, latest>>
       ELSE Return(w)
    /\ UNCHANGED <<server, up, spoiled, cut>>
    /\ NoteRace

\* The hxFile a worker is writing from was erased under it.
Dangling ==
    \E w \in Workers : pc[w] = "write" /\ filesReceiver[FileAt(w)].file_name = NoName

Crash ==
    /\ up
    /\ Race \/ Dangling
    /\ up' = FALSE
    /\ UNCHANGED <<server, threads, clients, raced, spoiled, latest, cut>>

-----------------------------------------------------------------------------
Handler(w) ==
    \/ SetFileInfo(w)
    \/ Receive(w)
    \/ OpenFile(w)
    \/ OpenFails(w)
    \/ WriteFile(w)
    \/ WriteFails(w)
    \/ Erase(w)

Next ==
    \/ \E u \in Uploads : Deliver(u) \/ Disconnect(u) \/ Reconnect(u)
    \/ \E w \in Workers : Handler(w) \/ LostInsertion(w)
    \/ Crash

Spec == Init /\ [][Next]_vars

\* A worker's event loop keeps running and visits every readable connection
\* it owns in each round; a client keeps sending until it is disconnected.
Fairness ==
    /\ \A u \in Uploads : SF_vars(Deliver(u))
    /\ \A w \in Workers : WF_vars(Handler(w))

FairSpec == Spec /\ Fairness

-----------------------------------------------------------------------------
HxFileOK(f) ==
    LET r == filesReceiver[f] IN
    /\ r = [map_name          |-> r.map_name,
            file_name         |-> r.file_name,
            file_packet_total |-> r.file_packet_total,
            file_packets      |-> r.file_packets]
    /\ \/ r.map_name \in Maps /\ r.file_name = f
       \/ r.map_name = NoName /\ r.file_name = NoName
    /\ f \notin keys => r = NewFile
    /\ r.file_packet_total \in Nat
    /\ r.file_packets \in [DOMAIN r.file_packets -> Pieces]
    /\ DOMAIN r.file_packets \subseteq Nat

(* Every variable keeps its type; in particular an hxFile either has no    *)
(* name at all or has the name of the key it is stored under.              *)
TypeOK ==
    /\ keys \subseteq Files
    /\ \A f \in Files : HxFileOK(f)
    /\ DOMAIN filesReceiver = Files
    /\ DOMAIN disk = Paths
    /\ pc \in [Workers -> {"idle", "set", "recv", "open", "write", "erase"}]
    /\ job \in [Workers -> Uploads \cup {None}]
    /\ status \in [Uploads -> {"waiting", "sending", "done", "lost"}]
    /\ worker \in [Uploads -> Workers]
    /\ next \in [Uploads -> Nat]
    /\ up \in BOOLEAN
    /\ raced \in BOOLEAN
    /\ spoiled \subseteq Files
    /\ latest \in [Paths -> Uploads \cup {None}]
    /\ cut \subseteq Paths

\* No upload of f is under way.
Quiet(f) == \A u \in Uploads : FileOf[u] = f => status[u] # "sending"

(* What the upload path promises.  For a file name whose uploads so far    *)
(* went cleanly (one at a time, no broken connection, no failed open), and *)
(* as long as no two workers raced, the file on disk under each map is     *)
(* exactly the last upload for that map, whole and unmixed, whatever other *)
(* files were received meanwhile (receive, assembleAndSaveFile).  A write  *)
(* that fails, which nothing notices, costs the upload it was for and no   *)
(* later one.                                                              *)
SavedExactly ==
    ~raced =>
        \A m \in Maps, f \in Files :
            (f \notin spoiled /\ Quiet(f) /\ <<m, f>> \notin cut) =>
                LET u == latest[<<m, f>>] IN
                disk[<<m, f>>] = IF u = None THEN <<>> ELSE Bytes(u)

(* Under the same conditions nothing of a finished upload stays behind in  *)
(* filesReceiver for a later upload of that name to be mixed with (erase), *)
(* whether the write failed or not.                                        *)
NoResidue ==
    ~raced => \A f \in Files \ spoiled : Quiet(f) => f \notin keys

(* Even for a spoiled file name, and whichever uploads got mixed, a piece  *)
(* on disk stands at the position its sender numbered it with, in a file   *)
(* of the name it was sent for (file_packets[packetNum], the write loop).  *)
PieceProvenance ==
    ~raced =>
        \A p \in Paths : \A i \in DOMAIN disk[p] :
            LET piece == disk[p][i] IN
            piece # Empty => FileOf[piece[1]] = p[2] /\ piece[2] = i

(* A client that keeps sending gets its file saved, unless the connection  *)
(* breaks or one of the conditions of SavedExactly fails.                  *)
UploadSaved ==
    \A u \in Uploads :
        status[u] = "sending" ~>
            \/ disk[PathOf(u)] = Bytes(u)
            \/ status[u] = "lost"
            \/ FileOf[u] \in spoiled
            \/ PathOf(u) \in cut
            \/ raced

-----------------------------------------------------------------------------
(* Two promises the code's comments make without the conditions above,   *)
(* and that the code does not keep.                                        *)

(* A file is saved when all packets of an upload have been received: what  *)
(* is on disk is nothing but one upload, whole (receive, "check whether    *)
(* all packets have been received").                                       *)
SavedWhole ==
    \A p \in Paths : disk[p] # <<>> =>
        \E u \in Uploads : FileOf[u] = p[2] /\ disk[p] = Bytes(u)

(* A file all of whose packets were handled, one upload at a time, and     *)
(* whose opening and writing did not fail, is on disk, whatever the other  *)
(* workers did ("process the received packets and the assembly of the      *)
(* file").                                                                 *)
SavedUnlessSpoiled ==
    \A u \in Uploads :
        (/\ status[u] = "done"
         /\ latest[PathOf(u)] = u
         /\ FileOf[u] \notin spoiled
         /\ PathOf(u) \notin cut
         /\ Quiet(FileOf[u])) => disk[PathOf(u)] = Bytes(u)

-----------------------------------------------------------------------------
(* The inductive invariant behind SavedExactly and NoResidue.              *)

\* file_packets after the first k packets of u alone.
Received(u, k) ==
    [i \in {PacketNum(u, j) : j \in 0 .. k - 1} |->
        IF Chunks[u] = 0 THEN Empty ELSE <<u, i>>]

\* The receiver of u's file holds the first k packets of u and nothing else.
Holds(u, k) ==
    /\ FileOf[u] \in keys
    /\ filesReceiver[FileOf[u]] =
            [map_name          |-> MapOf[u],
             file_name         |-> FileOf[u],
             file_packet_total |-> Total(u),
             file_packets      |-> Received(u, k)]

\* What is in place when the handler of u's packet is at statement s.
HandlerProgress(u, s) ==
    /\ s = "set" => \/ next[u] = 0 /\ FileOf[u] \notin keys
                    \/ next[u] > 0 /\ Holds(u, next[u])
    /\ s = "recv" => Holds(u, next[u])
    /\ s \in {"open", "write"} =>
            next[u] + 1 = Total(u) /\ Holds(u, Total(u))
    /\ s = "erase" => /\ next[u] + 1 = Total(u)
                      /\ disk[PathOf(u)] = Bytes(u) \/ PathOf(u) \in cut

Progress(u) ==
    IF job[worker[u]] = u
    THEN HandlerProgress(u, pc[worker[u]])
    ELSE next[u] > 0 /\ Holds(u, next[u])

\* A worker is busy exactly with a packet of an upload pinned to it.
JobsOK ==
    /\ \A w \in Workers :
          IF pc[w] = "idle"
          THEN job[w] = None
          ELSE /\ job[w] \in Uploads
               /\ worker[job[w]] = w
               /\ status[job[w]] = "sending"
    /\ \A u \in Uploads :
          /\ status[u] = "waiting" => next[u] = 0
          /\ status[u] = "sending" => next[u] < Total(u)

\* Between its uploads, a path holds the last one that completed.
DiskOK(p) ==
    \/ p \in cut
    \/ disk[p] = IF latest[p] = None THEN <<>> ELSE Bytes(latest[p])
    \/ \E u \in Uploads : /\ PathOf(u) = p
                          /\ status[u] = "sending"
                          /\ job[worker[u]] = u
                          /\ pc[worker[u]] \in {"write", "erase"}

CleanFile(f) ==
    /\ \A u, v \in Uploads :
          (FileOf[u] = f /\ FileOf[v] = f /\ status[u] = "sending"
            /\ status[v] = "sending") => u = v
    /\ \A u \in Uploads : (FileOf[u] = f /\ status[u] = "sending") => Progress(u)
    /\ f \in keys => \E u \in Uploads : FileOf[u] = f /\ status[u] = "sending"
    /\ \A m \in Maps : DiskOK(<<m, f>>)

(* The uploads of an unspoiled file name run one at a time, the receiver   *)
(* of that name holds exactly the packets its upload has delivered at the  *)
(* statement its handler is at, and the disk holds the last complete one.  *)
UploadInv ==
    /\ TypeOK
    /\ JobsOK
    /\ Race => raced
    /\ ~raced => \A f \in Files \ spoiled : CleanFile(f)

=============================================================================
