----------------------------- MODULE MapDownload -----------------------------
(***************************************************************************)
(* The request side of the map server: the list of maps and the download   *)
(* of files (mapUdpServer/hxMapServer.cpp, onReceiveMapRequest,            *)
(* onReceiveDownloadMapRequest, hxFile::splitToVector).                    *)
(*                                                                         *)
(* A download reads each requested file whole, cuts it into packets, puts  *)
(* a header before each (UnPack::toBigEndianByteStream) and writes them to *)
(* the connection at the end.  Two things are shared by the workers        *)
(* without a lock: the files, which an upload handled by another worker    *)
(* may be rewriting in place, and the static UnPack::data_length through   *)
(* which the length of a frame passes on its way into the header.          *)
(***************************************************************************)
EXTENDS Integers, Sequences, FiniteSets

CONSTANTS
    Workers,        \* event-loop threads, each with one client's connection
    Files,          \* the files of one map
    Requests,       \* the file lists each worker's client asks for
    MaxPacketSize,  \* bytes of file content in a packet
    Overhead,       \* bytes of a serialized packet besides its content
    ListSize,       \* bytes of the serialized map list
    Sizes,          \* the sizes in which each file gets uploaded
    MaxVersion      \* bound: how often each file is uploaded

ASSUME DownloadAssumption ==
    /\ \A w \in Workers : Requests[w] \subseteq Seq(Files)
    /\ MaxPacketSize \in Nat \ {0}
    /\ Overhead \in Nat \ {0}
    /\ ListSize \in Nat \ {0}
    /\ \A f \in Files : Sizes[f] \subseteq Nat
    /\ MaxVersion \in [Files -> Nat]

VARIABLES
    disk,         \* [ver, len, full]: which upload wrote the file, the bytes it
                  \* has now, the bytes that upload writes; ver 0: no such file
    data_length,  \* UnPack::data_length
    pc,           \* the statement each worker is executing
    todo,         \* the files of its request not yet answered, in order
    size,         \* splitToVector's size, taken when it opened the file
    packets,      \* splitToVector's packets not yet sent to sendVector
    sendVector,   \* the frames of its answer
    asked,        \* history: the request being answered
    seen,         \* history: the disk entries found at the opening and the
                  \* reading of each file of the request
    crossed       \* history: another worker stored a length of its own
                  \* between this one's storing and reading it back

downloads == <<todo, size, packets, sendVector, asked, seen>>
vars == <<disk, data_length, pc, downloads, crossed>>

-----------------------------------------------------------------------------
NoFile == [ver |-> 0, len |-> 0, full |-> 0]

\* The bytes [from, to) of version ver of file f as packet num of total.
Packet(f, ver, num, total, from, to) ==
    [file |-> f, ver |-> ver, num |-> num, total |-> total, from |-> from, to |-> to]

Min2(x, y) == IF x <= y THEN x ELSE y

\* Mutant: the last packet is not cut to the end of the file.
SplitOverrun(f, ver, n) ==
    LET count == (n + MaxPacketSize - 1) \div MaxPacketSize IN
    IF n = 0
    THEN <<Packet(f, ver, 1, 1, 0, 0)>>
    ELSE [i \in 1 .. count |->
            Packet(f, ver, i - 1, count, (i - 1) * MaxPacketSize, i * MaxPacketSize)]

\* Cut the n bytes read into packets of MaxPacketSize; an empty file is one
\* empty packet numbered 1.
Split(f, ver, n) ==
    LET count == (n + MaxPacketSize - 1) \div MaxPacketSize IN
    IF n = 0
    THEN <<Packet(f, ver, 1, 1, 0, 0)>>
    ELSE [i \in 1 .. count |->
            Packet(f, ver, i - 1, count, (i - 1) * MaxPacketSize,
                   Min2(i * MaxPacketSize, n))]

MapList == [list |-> "maps"]

\* Mutant: the ends of the range swapped.
BodySizeSwapped(b) == IF b = MapList THEN ListSize ELSE Overhead + (b.from - b.to)

BodySize(b) == IF b = MapList THEN ListSize ELSE Overhead + (b.to - b.from)

\* A frame; cross is the history of its making.
Frame(length, body, cross) == [length |-> length, body |-> body, crossed |-> cross]

-----------------------------------------------------------------------------
Init ==
    /\ disk = [f \in Files |-> NoFile]
    /\ data_length = 0
    /\ pc = [w \in Workers |-> "idle"]
    /\ todo = [w \in Workers |-> <<>>]
    /\ size = [w \in Workers |-> 0]
    /\ packets = [w \in Workers |-> <<>>]
    /\ sendVector = [w \in Workers |-> <<>>]
    /\ asked = [w \in Workers |-> <<>>]
    /\ seen = [w \in Workers |-> <<>>]
    /\ crossed = [w \in Workers |-> FALSE]

(* An upload of f, as assembleAndSaveFile carries it out in a worker of    *)
(* its own: the ofstream truncates the file, then its buffer reaches the   *)
(* file piece by piece until it is closed.                                 *)
SaveOpen(f, n) ==
    /\ disk[f].len = disk[f].full
    /\ disk[f].ver < MaxVersion[f]
    /\ disk' = [disk EXCEPT ![f] = [ver |-> @.ver + 1, len |-> 0, full |-> n]]
    /\ UNCHANGED <<data_length, pc, downloads, crossed>>

SaveWrite(f) ==
    /\ disk[f].len < disk[f].full
    /\ \E n \in disk[f].len + 1 .. disk[f].full :
          disk' = [disk EXCEPT ![f].len = n]
    /\ UNCHANGED <<data_length, pc, downloads, crossed>>

\* onMessage, MessageType::MAPLIST: one body to pack.
MapRequest(w) ==
    /\ pc[w] = "idle"
    /\ pc' = [pc EXCEPT ![w] = "pack"]
    /\ packets' = [packets EXCEPT ![w] = <<MapList>>]
    /\ UNCHANGED <<disk, data_length, todo, size, sendVector, asked, seen, crossed>>

\* onMessage, MessageType::FILE with an item list: the map's name is its
\* first item and the files are the others.  A list without that name is
\* not a request any client makes, and items(0) of one is left out.
DownloadRequest(w, files) ==
    /\ pc[w] = "idle"
    /\ pc' = [pc EXCEPT ![w] = "next"]
    /\ todo' = [todo EXCEPT ![w] = files]
    /\ sendVector' = [sendVector EXCEPT ![w] = <<>>]
    /\ asked' = [asked EXCEPT ![w] = files]
    /\ UNCHANGED <<disk, data_length, size, packets, seen, crossed>>

\* splitToVector opens the file and asks for its size; one that cannot be
\* opened is skipped without a word to the client.
OpenFile(w) ==
    /\ pc[w] = "next"
    /\ todo[w] # <<>>
    /\ LET d == disk[Head(todo[w])] IN
       IF d.ver = 0
       THEN /\ todo' = [todo EXCEPT ![w] = Tail(@)]
            /\ seen' = [seen EXCEPT ![w] = Append(@, [opened |-> d, read |-> d])]
            /\ UNCHANGED <<pc, size>>
       ELSE /\ size' = [size EXCEPT ![w] = d.len]
            /\ seen' = [seen EXCEPT ![w] = Append(@, [opened |-> d, read |-> d])]
            /\ pc' = [pc EXCEPT ![w] = "read"]
            /\ UNCHANGED todo
    /\ UNCHANGED <<disk, data_length, packets, sendVector, asked, crossed>>

\* The whole file is read; when fewer bytes are left than the size said,
\* the read fails and nothing is sent.  splitToVector and its size are over.
ReadFile(w) ==
    /\ pc[w] = "read"
    /\ LET f == Head(todo[w])
           d == disk[f]
       IN
       /\ seen' = [seen EXCEPT ![w][Len(seen[w])].read = d]
       /\ IF d.len < size[w]
          THEN /\ pc' = [pc EXCEPT ![w] = "next"]
               /\ UNCHANGED packets
          ELSE /\ pc' = [pc EXCEPT ![w] = "pack"]
               /\ packets' = [packets EXCEPT ![w] = Split(f, d.ver, size[w])]
       /\ todo' = [todo EXCEPT ![w] = Tail(@)]
       /\ size' = [size EXCEPT ![w] = 0]
    /\ UNCHANGED <<disk, data_length, sendVector, asked, crossed>>

\* Mutant: the length is left to what the last frame put there.
PackLengthForgotten(w) ==
    /\ pc[w] = "pack"
    /\ pc' = [pc EXCEPT ![w] = "stamp"]
    /\ crossed' = [v \in Workers |-> v # w /\ pc[v] = "stamp"]
    /\ UNCHANGED <<disk, data_length, downloads>>

\* toBigEndianByteStream: data_length = data.size()
PackLength(w) ==
    /\ pc[w] = "pack"
    /\ data_length' = BodySize(Head(packets[w]))
    /\ pc' = [pc EXCEPT ![w] = "stamp"]
    /\ crossed' = [v \in Workers |-> v # w /\ pc[v] = "stamp"]
    /\ UNCHANGED <<disk, downloads>>

\* Mutant: the frame is put before the ones already packed.
PackHeaderFirst(w) ==
    /\ pc[w] = "stamp"
    /\ sendVector' = [sendVector EXCEPT ![w] =
                        <<Frame(data_length, Head(packets[w]), crossed[w])>> \o @]
    /\ packets' = [packets EXCEPT ![w] = Tail(@)]
    /\ pc' = [pc EXCEPT ![w] = IF Len(packets[w]) > 1 THEN "pack" ELSE "next"]
    /\ crossed' = [crossed EXCEPT ![w] = FALSE]
    /\ UNCHANGED <<disk, data_length, todo, size, asked, seen>>

\* ... serialize data_length and copy the body.  With two workers in here
\* the read races with a write: the compiler may have kept the value this
\* worker stored, or the memory is read.
PackHeader(w) ==
    /\ pc[w] = "stamp"
    /\ \E length \in {data_length, BodySize(Head(packets[w]))} :
          sendVector' = [sendVector EXCEPT ![w] =
                            Append(@, Frame(length, Head(packets[w]), crossed[w]))]
    /\ packets' = [packets EXCEPT ![w] = Tail(@)]
    /\ pc' = [pc EXCEPT ![w] = IF Len(packets[w]) > 1 THEN "pack" ELSE "next"]
    /\ crossed' = [crossed EXCEPT ![w] = FALSE]
    /\ UNCHANGED <<disk, data_length, todo, size, asked, seen>>

\* channel->write for every frame, then onMessage returns and its variables
\* are gone, with the histories of this request.
WriteReply(w) ==
    /\ pc[w] = "next"
    /\ todo[w] = <<>>
    /\ pc' = [pc EXCEPT ![w] = "idle"]
    /\ sendVector' = [sendVector EXCEPT ![w] = <<>>]
    /\ asked' = [asked EXCEPT ![w] = <<>>]
    /\ seen' = [seen EXCEPT ![w] = <<>>]
    /\ UNCHANGED <<disk, data_length, todo, size, packets, crossed>>

-----------------------------------------------------------------------------
Saver == \E f \in Files : SaveWrite(f) \/ \E n \in Sizes[f] : SaveOpen(f, n)

Answer(w) ==
    \/ OpenFile(w)
    \/ ReadFile(w)
    \/ PackLength(w)
    \/ PackHeader(w)
    \/ WriteReply(w)

Next ==
    \/ Saver
    \/ \E w \in Workers :
          \/ MapRequest(w)
          \/ \E files \in Requests[w] : DownloadRequest(w, files)
          \/ Answer(w)

Spec == Init /\ [][Next]_vars

-----------------------------------------------------------------------------
Packets ==
    [file : Files, ver : Nat, num : Nat, total : Nat, from : Nat, to : Nat]

Bodies == {MapList} \cup {b \in Packets : b.from <= b.to}

Frames == [length : Nat, body : Bodies, crossed : BOOLEAN]

Entries == [ver : Nat, len : Nat, full : Nat]

Looks == [opened : Entries, read : Entries]

(* The types of the variables.                                             *)
TypeOK ==
    /\ disk \in [Files -> Entries]
    /\ data_length \in Nat
    /\ pc \in [Workers -> {"idle", "next", "read", "pack", "stamp"}]
    /\ todo \in [Workers -> Seq(Files)]
    /\ size \in [Workers -> Nat]
    /\ packets \in [Workers -> Seq(Bodies)]
    /\ sendVector \in [Workers -> Seq(Frames)]
    /\ asked \in [Workers -> Seq(Files)]
    /\ seen \in [Workers -> Seq(Looks)]
    /\ crossed \in [Workers -> BOOLEAN]

(* Where in sendVector the frames of a file are.                           *)
FramesOf(w, f) ==
    {i \in DOMAIN sendVector[w] : sendVector[w][i].body # MapList /\ sendVector[w][i].body.file = f}

(* The frames at these places, received in order by a client that          *)
(* assembles them as hxFile::receive does, give it n bytes of version ver  *)
(* from first to last and nothing else.                                    *)
Delivers(w, places, ver, n) ==
    LET b(i) == sendVector[w][i].body IN
    \E first, last \in places :
       /\ places = first .. last
       /\ b(first).from = 0
       /\ b(last).to = n
       /\ \A i \in places :
             /\ b(i).ver = ver
             /\ b(i).total = last - first + 1
             /\ b(i).to - b(i).from <= MaxPacketSize
             /\ n > 0 => b(i).num = i - first /\ b(i).to > b(i).from
             /\ i < last => b(i).to = b(i + 1).from

Answered(w, i) == i <= Len(seen[w]) /\ (i < Len(seen[w]) \/ pc[w] \in {"idle", "next"})

(* A file that no upload rewrote between its opening and its reading is    *)
(* answered with packets that give the client exactly the bytes the file   *)
(* had, all of it once its upload was over, for every size, an empty one   *)
(* and a multiple of MaxPacketSize included; a file that does not exist    *)
(* gets no packet (splitToVector).                                         *)
DownloadsWhole ==
    \A w \in Workers : \A i \in 1 .. Len(asked[w]) :
        (/\ Answered(w, i)
         /\ \A j \in 1 .. Len(asked[w]) : asked[w][j] = asked[w][i] => j = i
         /\ seen[w][i].opened = seen[w][i].read) =>
            LET d == seen[w][i].opened
                places == FramesOf(w, asked[w][i])
            IN  IF d.ver = 0 THEN places = {} ELSE Delivers(w, places, d.ver, d.len)

(* The packets of an answer come file by file in the order asked for: no   *)
(* two files are interleaved, whatever other workers do.                   *)
InRequestOrder ==
    \A w \in Workers : \A i, j \in 1 .. Len(sendVector[w]) :
        LET b == sendVector[w][i].body
            c == sendVector[w][j].body
        IN  (i < j /\ b # MapList /\ c # MapList) =>
                \E k, l \in 1 .. Len(asked[w]) :
                    k <= l /\ asked[w][k] = b.file /\ asked[w][l] = c.file

(* The length in the header of a frame is the length of its body, what the *)
(* receiver's unpacking relies on, unless another worker stored a length   *)
(* of its own while this frame was between its two uses of the static      *)
(* data_length (toBigEndianByteStream): whatever the workers do besides    *)
(* that, before it or after it, leaves the frame right.                    *)
LengthsRight ==
    \A w \in Workers : \A i \in 1 .. Len(sendVector[w]) :
        ~sendVector[w][i].crossed =>
            sendVector[w][i].length = BodySize(sendVector[w][i].body)

=============================================================================
