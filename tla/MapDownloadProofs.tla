-------------------------- MODULE MapDownloadProofs --------------------------
(* Proofs about the request side, for any number of workers: the order of  *)
(* the frames and their lengths.                                           *)
EXTENDS MapDownload, TLAPS

PacketsOf(f) == {b \in [file : {f}, ver : Nat, num : Nat, total : Nat, from : Nat, to : Nat] :
                    b.from <= b.to}

-----------------------------------------------------------------------------
(* How a file is cut.                                                      *)

\* The number of packets, rounded up.
LEMMA CountBound ==
    ASSUME NEW n \in Nat, NEW m \in Nat \ {0}
    PROVE  /\ (n + m - 1) \div m \in Nat
           /\ ((n + m - 1) \div m) * m <= n + m - 1
           /\ n > 0 => (n + m - 1) \div m > 0
OBVIOUS

LEMMA PacketStart ==
    ASSUME NEW n \in Nat, NEW m \in Nat \ {0}, NEW c \in Nat, c * m <= n + m - 1, NEW i \in 1 .. c
    PROVE  (i - 1) * m \in Nat /\ i * m \in Nat /\ (i - 1) * m <= i * m /\ (i - 1) * m < n
OBVIOUS

LEMMA SplitPackets ==
    ASSUME NEW f \in Files, NEW ver \in Nat, NEW n \in Nat
    PROVE  Split(f, ver, n) \in Seq(PacketsOf(f)) /\ Split(f, ver, n) # <<>>
<1> DEFINE count == (n + MaxPacketSize - 1) \div MaxPacketSize
           P(i) == Packet(f, ver, i - 1, count, (i - 1) * MaxPacketSize, Min2(i * MaxPacketSize, n))
<1>1. MaxPacketSize \in Nat \ {0}
  BY DownloadAssumption
<1>2. CASE n = 0
  <2>1. Packet(f, ver, 1, 1, 0, 0) \in PacketsOf(f)
    BY DEF Packet, PacketsOf
  <2> QED BY <1>2, <2>1 DEF Split
<1>3. CASE n # 0
  <2>1. count \in Nat /\ count * MaxPacketSize <= n + MaxPacketSize - 1 /\ count > 0
    BY <1>1, <1>3, CountBound
  <2>2. Split(f, ver, n) = [i \in 1 .. count |-> P(i)]
    BY <1>3 DEF Split
  <2>3. ASSUME NEW i \in 1 .. count PROVE P(i) \in PacketsOf(f)
    <3> DEFINE from == (i - 1) * MaxPacketSize
               to == i * MaxPacketSize
    <3>1. from \in Nat /\ to \in Nat /\ from <= to /\ from < n
      BY <1>1, <2>1, PacketStart
    <3> HIDE DEF from, to
    <3>2. Min2(to, n) \in Nat /\ from <= Min2(to, n)
      BY <3>1 DEF Min2
    <3>3. i - 1 \in Nat /\ count \in Nat
      BY <2>1
    <3> HIDE DEF count
    <3>4. Packet(f, ver, i - 1, count, from, Min2(to, n)) \in PacketsOf(f)
      BY <3>1, <3>2, <3>3 DEF Packet, PacketsOf
    <3> QED BY <3>4 DEF from, to
  <2> HIDE DEF count, P
  <2> QED BY <2>1, <2>2, <2>3
<1> QED BY <1>2, <1>3

LEMMA BodySizeNat == \A b \in Bodies : BodySize(b) \in Nat
<1> SUFFICES ASSUME NEW b \in Bodies PROVE BodySize(b) \in Nat
  OBVIOUS
<1>1. Overhead \in Nat /\ ListSize \in Nat
  BY DownloadAssumption
<1>2. CASE b = MapList
  BY <1>1, <1>2 DEF BodySize
<1>3. CASE b # MapList
  <2>1. b.from \in Nat /\ b.to \in Nat /\ b.from <= b.to
    BY <1>3 DEF Bodies, Packets
  <2> QED BY <1>1, <1>3, <2>1 DEF BodySize
<1> QED BY <1>2, <1>3

-----------------------------------------------------------------------------
(* The inductive invariant: a worker answers the files asked one by one.   *)

\* The files of the request that were answered, or are being answered.
Begun(w) == Len(asked[w]) - Len(todo[w])

\* What is left to answer is what comes after them in the request.
InTurn(w) ==
    /\ Len(todo[w]) <= Len(asked[w])
    /\ \A i \in 1 .. Len(todo[w]) : todo[w][i] = asked[w][Begun(w) + i]

\* The body is of the file at position k of the request.
Of(w, b, k) == b # MapList => k \in 1 .. Len(asked[w]) /\ b.file = asked[w][k]

Waiting(w) == \A i \in 1 .. Len(packets[w]) : Of(w, packets[w][i], Begun(w))

Sent(w) ==
    /\ \A i \in 1 .. Len(sendVector[w]) : \E k \in Nat : k <= Begun(w) /\ Of(w, sendVector[w][i].body, k)
    /\ \A i, j \in 1 .. Len(sendVector[w]) :
           (i < j /\ sendVector[w][i].body # MapList /\ sendVector[w][j].body # MapList) =>
               \E k, l \in 1 .. Len(asked[w]) :
                   /\ k <= l
                   /\ asked[w][k] = sendVector[w][i].body.file
                   /\ asked[w][l] = sendVector[w][j].body.file

AtWork(w) ==
    /\ packets[w] \in Seq(Bodies)
    /\ sendVector[w] \in Seq(Frames)
    /\ asked[w] \in Seq(Files)
    /\ pc[w] \in {"pack", "stamp"} <=> packets[w] # <<>>
    /\ pc[w] = "idle" => todo[w] = <<>> /\ seen[w] = <<>>
    /\ pc[w] = "read" => todo[w] # <<>>

InTables ==
    /\ DOMAIN packets = Workers
    /\ DOMAIN sendVector = Workers
    /\ DOMAIN asked = Workers

WorkerInv(w) == AtWork(w) /\ InTurn(w) /\ Waiting(w) /\ Sent(w)

DownloadInv ==
    /\ TypeOK
    /\ InTables
    /\ \A w \in Workers : WorkerInv(w)

LEMMA DownloadInit == Init => DownloadInv
<1> SUFFICES ASSUME Init PROVE DownloadInv
  OBVIOUS
<1>1. \A S : <<>> \in Seq(S) /\ Len(<<>>) = 0
  OBVIOUS
<1>2. TypeOK
  BY <1>1, DownloadAssumption DEF Init, TypeOK, NoFile, Entries
<1>3. InTables
  BY DEF Init, InTables
<1>4. ASSUME NEW w \in Workers PROVE WorkerInv(w)
  BY <1>1 DEF Init, WorkerInv, AtWork, InTurn, Waiting, Sent, Begun
<1> QED BY <1>2, <1>3, <1>4 DEF DownloadInv

\* A worker whose variables stay keeps its part of the invariant.
Untouched(w) ==
    /\ pc'[w] = pc[w] /\ todo'[w] = todo[w] /\ packets'[w] = packets[w]
    /\ sendVector'[w] = sendVector[w] /\ asked'[w] = asked[w] /\ seen'[w] = seen[w]

\* The frames already sent stay in order while the worker goes on.
LEMMA SentStays ==
    ASSUME NEW w, Sent(w), Begun(w) \in Nat, Begun(w)' \in Nat, Begun(w) <= Begun(w)',
           sendVector'[w] = sendVector[w], asked'[w] = asked[w]
    PROVE  Sent(w)'
<1>1. ASSUME NEW i \in 1 .. Len(sendVector[w])
      PROVE  \E k \in Nat : k <= Begun(w)' /\ Of(w, sendVector[w][i].body, k)'
  <2>1. PICK k \in Nat : k <= Begun(w) /\ Of(w, sendVector[w][i].body, k)
    BY DEF Sent
  <2>2. k <= Begun(w)'
    BY <2>1
  <2>3. Of(w, sendVector[w][i].body, k)'
    BY <2>1 DEF Of
  <2> QED BY <2>2, <2>3
<1>2. (\A i \in 1 .. Len(sendVector[w]) :
         \E k \in Nat : k <= Begun(w) /\ Of(w, sendVector[w][i].body, k))'
  BY <1>1
<1> QED BY <1>2 DEF Sent

\* What is left, packed and sent depends on no more than the worker's lists.
LEMMA Kept ==
    ASSUME NEW w, InTurn(w), Waiting(w), Sent(w), Begun(w) \in Nat,
           todo' = todo, packets' = packets, sendVector' = sendVector, asked' = asked
    PROVE  InTurn(w)' /\ Waiting(w)' /\ Sent(w)'
<1>1. Begun(w)' = Begun(w)
  BY DEF Begun
<1>2. InTurn(w)'
  BY <1>1 DEF InTurn
<1>3. Waiting(w)'
  BY <1>1 DEF Waiting, Of
<1>4. Sent(w)'
  BY <1>1, SentStays
<1> QED BY <1>2, <1>3, <1>4

LEMMA OtherWorker == ASSUME NEW w, WorkerInv(w), Untouched(w) PROVE WorkerInv(w)'
<1> USE DEF Untouched
<1>1. AtWork(w)'
  BY DEF WorkerInv, AtWork
<1>2. Begun(w)' = Begun(w)
  BY DEF Begun
<1>3. InTurn(w)'
  BY <1>2 DEF WorkerInv, InTurn
<1>4. Waiting(w)'
  BY <1>2 DEF WorkerInv, Waiting, Of
<1>5. Begun(w) \in Nat
  BY DEF WorkerInv, AtWork, InTurn, Begun
<1>6. Sent(w)'
  BY <1>2, <1>5, SentStays DEF WorkerInv
<1> QED BY <1>1, <1>3, <1>4, <1>6 DEF WorkerInv

LEMMA SaverStep == ASSUME DownloadInv, Saver PROVE DownloadInv'
<1>1. UNCHANGED <<data_length, pc, downloads, crossed>>
  BY DEF Saver, SaveOpen, SaveWrite
<1>2. disk' \in [Files -> Entries]
  <2>1. disk \in [Files -> Entries]
    BY DEF DownloadInv, TypeOK
  <2>2. ASSUME NEW f \in Files, NEW n \in Sizes[f], SaveOpen(f, n)
        PROVE  disk' \in [Files -> Entries]
    <3>1. disk[f] \in Entries
      BY <2>1
    <3>2. disk[f].ver + 1 \in Nat /\ n \in Nat
      BY <3>1, DownloadAssumption DEF Entries
    <3>3. disk' = [disk EXCEPT ![f] = [ver |-> disk[f].ver + 1, len |-> 0, full |-> n]]
      BY <2>2 DEF SaveOpen
    <3>4. [ver |-> disk[f].ver + 1, len |-> 0, full |-> n] \in Entries
      BY <3>2 DEF Entries
    <3> QED BY <2>1, <3>3, <3>4
  <2>3. ASSUME NEW f \in Files, SaveWrite(f)
        PROVE  disk' \in [Files -> Entries]
    <3>1. disk[f] \in Entries /\ disk[f].len \in Nat
      BY <2>1 DEF Entries
    <3>2. PICK n \in disk[f].len + 1 .. disk[f].full : disk' = [disk EXCEPT ![f].len = n]
      BY <2>3 DEF SaveWrite
    <3>3. disk[f].full \in Nat
      BY <3>1 DEF Entries
    <3>4. n \in Nat
      BY <3>1, <3>3
    <3>5. [disk[f] EXCEPT !.len = n] \in Entries
      BY <3>1, <3>4 DEF Entries
    <3> QED BY <2>1, <3>2, <3>5
  <2> QED BY <2>2, <2>3 DEF Saver
<1>3. \A w \in Workers : WorkerInv(w)'
  BY <1>1, OtherWorker DEF DownloadInv, Untouched, downloads
<1> QED BY <1>1, <1>2, <1>3 DEF DownloadInv, TypeOK, InTables, downloads

-----------------------------------------------------------------------------
(* The steps of a worker.                                                  *)

LEMMA NotEmpty == ASSUME NEW S, NEW s \in Seq(S) PROVE s # <<>> <=> Len(s) > 0
OBVIOUS

LEMMA Tails ==
    ASSUME NEW S, NEW s \in Seq(S), s # <<>>
    PROVE  /\ Head(s) \in S /\ Head(s) = s[1]
           /\ Tail(s) \in Seq(S) /\ Len(s) \in Nat \ {0} /\ Len(Tail(s)) = Len(s) - 1
           /\ \A i \in 1 .. Len(Tail(s)) : Tail(s)[i] = s[i + 1]
           /\ Tail(s) # <<>> <=> Len(s) > 1
<1>1. Len(s) \in Nat \ {0}
  OBVIOUS
<1>2. Head(s) \in S /\ Head(s) = s[1]
  BY <1>1
<1>3. Tail(s) \in Seq(S) /\ Len(Tail(s)) = Len(s) - 1
  BY <1>1
<1>4. ASSUME NEW i \in 1 .. Len(Tail(s)) PROVE Tail(s)[i] = s[i + 1]
  BY <1>1, <1>3
<1>5. Tail(s) # <<>> <=> Len(s) > 1
  <2>1. Tail(s) # <<>> <=> Len(Tail(s)) > 0
    BY <1>3, NotEmpty
  <2> QED BY <1>1, <1>3, <2>1
<1> QED BY <1>1, <1>2, <1>3, <1>4, <1>5

LEMMA Appends ==
    ASSUME NEW S, NEW s \in Seq(S), NEW e \in S
    PROVE  /\ Append(s, e) \in Seq(S) /\ Len(Append(s, e)) = Len(s) + 1 /\ Len(s) \in Nat
           /\ \A i \in 1 .. Len(s) : Append(s, e)[i] = s[i]
           /\ Append(s, e)[Len(s) + 1] = e
OBVIOUS

\* The types of a worker's variables, and that the others' stay.
Types(w) ==
    /\ pc[w] \in {"idle", "next", "read", "pack", "stamp"}
    /\ todo[w] \in Seq(Files)
    /\ size[w] \in Nat
    /\ seen[w] \in Seq(Looks)

Alters(x, y, w) == y = x \/ \E a : y = [x EXCEPT ![w] = a]

OnlyOf(w) ==
    /\ disk' = disk
    /\ Alters(pc, pc', w) /\ Alters(todo, todo', w) /\ Alters(size, size', w)
    /\ Alters(packets, packets', w) /\ Alters(sendVector, sendVector', w)
    /\ Alters(asked, asked', w) /\ Alters(seen, seen', w)
    /\ crossed' \in [Workers -> BOOLEAN]

LEMMA Unpacked ==
    ASSUME DownloadInv, NEW w \in Workers
    PROVE  /\ WorkerInv(w) /\ Types(w) /\ Begun(w) \in Nat
           /\ Begun(w) + Len(todo[w]) = Len(asked[w])
<1>1. WorkerInv(w) /\ Types(w)
  BY DEF DownloadInv, TypeOK, Types
<1>2. Len(todo[w]) \in Nat /\ Len(asked[w]) \in Nat /\ Len(todo[w]) <= Len(asked[w])
  BY <1>1 DEF Types, WorkerInv, AtWork, InTurn
<1> QED BY <1>1, <1>2 DEF Begun

LEMMA WorkerStep ==
    ASSUME DownloadInv, NEW w \in Workers, OnlyOf(w), data_length' \in Nat, Types(w)', WorkerInv(w)'
    PROVE  DownloadInv'
<1>1. /\ pc \in [Workers -> {"idle", "next", "read", "pack", "stamp"}]
      /\ todo \in [Workers -> Seq(Files)]
      /\ size \in [Workers -> Nat]
      /\ packets \in [Workers -> Seq(Bodies)]
      /\ sendVector \in [Workers -> Seq(Frames)]
      /\ asked \in [Workers -> Seq(Files)]
      /\ seen \in [Workers -> Seq(Looks)]
  BY DEF DownloadInv, TypeOK
<1>2. pc' \in [Workers -> {"idle", "next", "read", "pack", "stamp"}]
  BY <1>1 DEF OnlyOf, Alters, Types
<1>3. todo' \in [Workers -> Seq(Files)]
  BY <1>1 DEF OnlyOf, Alters, Types
<1>4. size' \in [Workers -> Nat]
  BY <1>1 DEF OnlyOf, Alters, Types
<1>5. TypeOK'
  <2>1. packets[w]' \in Seq(Bodies) /\ sendVector[w]' \in Seq(Frames) /\ asked[w]' \in Seq(Files)
    BY DEF WorkerInv, AtWork
  <2>2. packets' \in [Workers -> Seq(Bodies)]
    BY <1>1, <2>1 DEF OnlyOf, Alters
  <2>3. sendVector' \in [Workers -> Seq(Frames)]
    BY <1>1, <2>1 DEF OnlyOf, Alters
  <2>4. asked' \in [Workers -> Seq(Files)]
    BY <1>1, <2>1 DEF OnlyOf, Alters
  <2>5. seen' \in [Workers -> Seq(Looks)]
    BY <1>1 DEF OnlyOf, Alters, Types
  <2>6. disk' \in [Files -> Entries] /\ crossed' \in [Workers -> BOOLEAN]
    BY DEF OnlyOf, DownloadInv, TypeOK
  <2> QED BY <1>2, <1>3, <1>4, <2>2, <2>3, <2>4, <2>5, <2>6 DEF TypeOK
<1>6. InTables'
  BY DEF DownloadInv, InTables, OnlyOf, Alters
<1>7. ASSUME NEW v \in Workers, v # w PROVE WorkerInv(v)'
  <2>1. pc'[v] = pc[v] /\ todo'[v] = todo[v]
    BY <1>1, <1>7 DEF OnlyOf, Alters
  <2>2. packets'[v] = packets[v] /\ sendVector'[v] = sendVector[v] /\ asked'[v] = asked[v]
    BY <1>7 DEF OnlyOf, Alters, DownloadInv, InTables
  <2>3. seen'[v] = seen[v]
    BY <1>1, <1>7 DEF OnlyOf, Alters
  <2> QED BY <2>1, <2>2, <2>3, OtherWorker DEF Untouched, DownloadInv
<1> QED BY <1>5, <1>6, <1>7 DEF DownloadInv

LEMMA Crossings == ASSUME DownloadInv PROVE crossed \in [Workers -> BOOLEAN]
BY DEF DownloadInv, TypeOK

LEMMA MapRequestStep == ASSUME DownloadInv, NEW w \in Workers, MapRequest(w) PROVE DownloadInv'
<1>1. WorkerInv(w) /\ Types(w) /\ data_length \in Nat /\ Begun(w) \in Nat
  BY Unpacked DEF DownloadInv, TypeOK
<1>2. /\ disk' = disk /\ data_length' = data_length /\ todo' = todo /\ size' = size
      /\ sendVector' = sendVector /\ asked' = asked /\ seen' = seen /\ crossed' = crossed
  BY DEF MapRequest
<1>3. OnlyOf(w)
  BY <1>2, Crossings DEF MapRequest, OnlyOf, Alters
<1>4. pc'[w] = "pack" /\ packets'[w] = <<MapList>>
  BY DEF MapRequest, DownloadInv, TypeOK, InTables
<1>5. Types(w)'
  BY <1>1, <1>2, <1>4 DEF Types
<1>6. <<MapList>> \in Seq(Bodies) /\ <<MapList>> # <<>> /\ Len(<<MapList>>) = 1 /\ <<MapList>>[1] = MapList
  <2>1. MapList \in Bodies
    BY DEF Bodies
  <2> QED BY <2>1
<1>7. AtWork(w)'
  BY <1>1, <1>2, <1>4, <1>6 DEF WorkerInv, AtWork
<1>8. Begun(w)' = Begun(w)
  BY <1>2 DEF Begun
<1>9. InTurn(w)'
  BY <1>1, <1>2, <1>8 DEF WorkerInv, InTurn
<1>10. Sent(w)'
  BY <1>1, <1>2, <1>8, SentStays DEF WorkerInv
<1>11. Waiting(w)'
  BY <1>4, <1>6 DEF Waiting, Of
<1> QED BY <1>1, <1>2, <1>3, <1>5, <1>7, <1>9, <1>10, <1>11, WorkerStep DEF WorkerInv

LEMMA DownloadRequestStep ==
    ASSUME DownloadInv, NEW w \in Workers, NEW files \in Requests[w], DownloadRequest(w, files)
    PROVE  DownloadInv'
<1>1. WorkerInv(w) /\ Types(w) /\ data_length \in Nat
  BY Unpacked DEF DownloadInv, TypeOK
<1>2. OnlyOf(w)
  BY Crossings DEF DownloadRequest, OnlyOf, Alters
<1>3. /\ pc'[w] = "next" /\ todo'[w] = files /\ size'[w] = size[w]
      /\ packets'[w] = <<>> /\ sendVector'[w] = <<>> /\ asked'[w] = files
      /\ seen'[w] = seen[w]
  BY <1>1 DEF DownloadRequest, DownloadInv, TypeOK, InTables, WorkerInv, AtWork
<1>4. files \in Seq(Files) /\ Len(files) \in Nat
  BY DownloadAssumption
<1>5. Types(w)'
  BY <1>1, <1>3, <1>4 DEF Types
<1>6. AtWork(w)'
  BY <1>3, <1>4 DEF AtWork
<1>7. Begun(w)' = 0
  BY <1>3, <1>4 DEF Begun
<1>8. InTurn(w)'
  BY <1>3, <1>4, <1>7 DEF InTurn
<1>9. Waiting(w)' /\ Sent(w)'
  BY <1>3 DEF Waiting, Sent
<1>10. data_length' \in Nat
  BY <1>1 DEF DownloadRequest
<1> QED BY <1>2, <1>5, <1>6, <1>8, <1>9, <1>10, WorkerStep DEF WorkerInv

LEMMA OneLess ==
    ASSUME NEW a \in Nat, NEW t \in Nat, NEW u, NEW x, NEW y, u = t - 1, x = a - t, y = a - u
    PROVE  y = x + 1
OBVIOUS

\* A file taken off the list is the next one of the request.
LEMMA NextFile ==
    ASSUME DownloadInv, NEW w \in Workers, Len(todo[w]) > 0,
           todo'[w] = Tail(todo[w]), asked'[w] = asked[w]
    PROVE  /\ Begun(w)' = Begun(w) + 1
           /\ Begun(w)' \in 1 .. Len(asked[w])
           /\ Head(todo[w]) = asked[w][Begun(w)']
           /\ InTurn(w)'
<1>1. WorkerInv(w) /\ Types(w) /\ Begun(w) \in Nat /\ Begun(w) + Len(todo[w]) = Len(asked[w])
  BY Unpacked
<1>2. Len(asked[w]) \in Nat
  BY <1>1 DEF WorkerInv, AtWork
<1>3. /\ Len(todo[w]) \in Nat \ {0} /\ Len(Tail(todo[w])) = Len(todo[w]) - 1
      /\ Head(todo[w]) = todo[w][1]
      /\ \A i \in 1 .. Len(Tail(todo[w])) : Tail(todo[w])[i] = todo[w][i + 1]
  <2>1. todo[w] \in Seq(Files) /\ todo[w] # <<>>
    BY <1>1 DEF Types
  <2> QED BY <2>1, Tails
<1>4. Begun(w)' = Begun(w) + 1
  <2>1. Len(todo'[w]) = Len(todo[w]) - 1
    BY <1>3
  <2>2. Len(asked'[w]) - Len(todo'[w]) = Len(asked[w]) - Len(todo[w]) + 1
    <3>1. Len(todo[w]) \in Nat
      BY <1>3
    <3> QED BY ONLY <1>2, <2>1, <3>1, asked'[w] = asked[w]
  <2> QED BY <2>2 DEF Begun
<1>5. \A i \in 1 .. Len(todo[w]) : todo[w][i] = asked[w][Begun(w) + i]
  BY <1>1 DEF WorkerInv, InTurn
<1>6. Begun(w)' \in 1 .. Len(asked[w]) /\ Head(todo[w]) = asked[w][Begun(w)']
  <2>1. Begun(w)' \in 1 .. Len(asked[w])
    BY <1>1, <1>2, <1>3, <1>4
  <2>2. 1 \in 1 .. Len(todo[w])
    BY <1>3
  <2>3. todo[w][1] = asked[w][Begun(w) + 1]
    BY <1>5, <2>2
  <2> QED BY <1>3, <1>4, <2>1, <2>3
<1>7. ASSUME NEW i \in 1 .. Len(Tail(todo[w]))
      PROVE  Tail(todo[w])[i] = asked[w][Begun(w)' + i]
  <2>1. i + 1 \in 1 .. Len(todo[w]) /\ Begun(w) + (i + 1) = Begun(w)' + i
    BY <1>1, <1>3, <1>4
  <2>2. Tail(todo[w])[i] = todo[w][i + 1]
    BY <1>3
  <2> QED BY <1>5, <2>1, <2>2
<1>8. Len(Tail(todo[w])) <= Len(asked[w])
  BY <1>1, <1>3
<1> QED BY <1>4, <1>6, <1>7, <1>8 DEF InTurn


\* What a worker sees of a file when it opens and when it reads it.
LEMMA OpenFileLook ==
    ASSUME DownloadInv, NEW w \in Workers, OpenFile(w), Head(todo[w]) \in Files
    PROVE  /\ seen' = [seen EXCEPT ![w] = seen'[w]] /\ seen'[w] \in Seq(Looks)
           /\ crossed' = crossed
<1> DEFINE d == disk[Head(todo[w])]
           e == [opened |-> d, read |-> d]
<1>1. seen \in [Workers -> Seq(Looks)] /\ seen[w] \in Seq(Looks) /\ d \in Entries
  BY DEF DownloadInv, TypeOK
<1>2. seen' = [seen EXCEPT ![w] = Append(seen[w], e)]
  BY DEF OpenFile
<1>3. e \in Looks
  BY <1>1 DEF Looks
<1>4. Append(seen[w], e) \in Seq(Looks)
  <2> HIDE DEF e
  <2> QED BY <1>1, <1>3
<1>5. seen'[w] = Append(seen[w], e)
  BY <1>1, <1>2
<1>6. crossed' = crossed
  BY DEF OpenFile
<1> HIDE DEF e
<1> QED BY <1>2, <1>4, <1>5, <1>6

LEMMA ReadFileLook ==
    ASSUME DownloadInv, NEW w \in Workers, ReadFile(w), Head(todo[w]) \in Files
    PROVE  /\ seen' = [seen EXCEPT ![w] = seen'[w]] /\ seen'[w] \in Seq(Looks)
           /\ crossed' = crossed
<1> DEFINE d == disk[Head(todo[w])]
           s == [seen[w] EXCEPT ![Len(seen[w])].read = d]
<1>1. seen \in [Workers -> Seq(Looks)] /\ seen[w] \in Seq(Looks) /\ d \in Entries
  BY DEF DownloadInv, TypeOK
<1>2. seen' = [seen EXCEPT ![w] = s]
  BY DEF ReadFile
<1>3. \A x \in Looks : [x EXCEPT !.read = d] \in Looks
  BY <1>1 DEF Looks
<1>4. s \in Seq(Looks)
  <2>1. s \in [DOMAIN seen[w] -> Looks]
    <3>1. DOMAIN s = DOMAIN seen[w] /\ s = [i \in DOMAIN s |-> s[i]]
      OBVIOUS
    <3>2. ASSUME NEW i \in DOMAIN seen[w] PROVE s[i] \in Looks
      <4>1. seen[w][i] \in Looks
        BY <1>1
      <4>2. s[i] = seen[w][i] \/ s[i] = [seen[w][i] EXCEPT !.read = d]
        OBVIOUS
      <4> QED BY <1>3, <4>1, <4>2
    <3> HIDE DEF s
    <3> QED BY <3>1, <3>2
  <2>2. DOMAIN seen[w] = 1 .. Len(seen[w]) /\ Len(seen[w]) \in Nat
    BY <1>1
  <2> HIDE DEF s
  <2> QED BY <2>1, <2>2
<1>5. seen'[w] = s
  BY <1>1, <1>2
<1>6. crossed' = crossed
  BY DEF ReadFile
<1> HIDE DEF s
<1> QED BY <1>2, <1>4, <1>5, <1>6

LEMMA PackLengthCrosses ==
    ASSUME DownloadInv, NEW w \in Workers, PackLength(w)
    PROVE  crossed' \in [Workers -> BOOLEAN]
BY DEF PackLength

LEMMA OpenFileStep == ASSUME DownloadInv, NEW w \in Workers, OpenFile(w) PROVE DownloadInv'
<1>1. WorkerInv(w) /\ Types(w) /\ data_length \in Nat /\ Begun(w) \in Nat
  BY Unpacked DEF DownloadInv, TypeOK
<1>2. pc[w] = "next" /\ todo[w] # <<>> /\ packets[w] = <<>>
  BY <1>1 DEF OpenFile, WorkerInv, AtWork
<1>3. packets' = packets /\ sendVector' = sendVector /\ asked' = asked /\ disk' = disk /\ data_length' = data_length
  BY DEF OpenFile
<1>4. Head(todo[w]) \in Files /\ Tail(todo[w]) \in Seq(Files)
  BY <1>1, <1>2, Tails DEF Types
<1>l. /\ seen' = [seen EXCEPT ![w] = seen'[w]] /\ seen'[w] \in Seq(Looks)
      /\ crossed' = crossed
  BY <1>4, OpenFileLook
<1>5. CASE /\ todo' = [todo EXCEPT ![w] = Tail(todo[w])]
           /\ pc' = pc /\ size' = size
  <2>1. OnlyOf(w)
    BY <1>3, <1>5, <1>l, Crossings DEF OnlyOf, Alters
  <2>2. todo'[w] = Tail(todo[w])
    BY <1>5 DEF DownloadInv, TypeOK
  <2>3. Types(w)'
    BY <1>1, <1>4, <1>5, <1>l, <2>2 DEF Types
  <2>4. AtWork(w)'
    BY <1>1, <1>2, <1>3, <1>5 DEF WorkerInv, AtWork
  <2>5. Begun(w)' = Begun(w) + 1 /\ InTurn(w)'
    <3>1. Len(todo[w]) > 0
      BY <1>1, <1>2 DEF Types
    <3> QED BY <1>3, <2>2, <3>1, NextFile
  <2>6. Begun(w)' \in Nat /\ Begun(w) <= Begun(w)'
    BY <1>1, <2>5
  <2>7. Sent(w)'
    BY <1>1, <1>3, <2>6, SentStays DEF WorkerInv
  <2>8. Waiting(w)'
    BY <1>2, <1>3 DEF Waiting
  <2> QED BY <1>1, <1>3, <2>1, <2>3, <2>4, <2>5, <2>7, <2>8, WorkerStep DEF WorkerInv
<1>6. CASE /\ size' = [size EXCEPT ![w] = disk[Head(todo[w])].len]
           /\ pc' = [pc EXCEPT ![w] = "read"]
           /\ todo' = todo
  <2>1. OnlyOf(w)
    BY <1>3, <1>6, <1>l, Crossings DEF OnlyOf, Alters
  <2>2. disk[Head(todo[w])].len \in Nat
    BY <1>4 DEF DownloadInv, TypeOK, Entries
  <2>3. pc'[w] = "read" /\ size'[w] = disk[Head(todo[w])].len
    BY <1>6 DEF DownloadInv, TypeOK
  <2>4. Types(w)'
    BY <1>1, <1>6, <1>l, <2>2, <2>3 DEF Types
  <2>5. AtWork(w)'
    BY <1>1, <1>2, <1>3, <1>6, <2>3 DEF WorkerInv, AtWork
  <2>6. InTurn(w)' /\ Waiting(w)' /\ Sent(w)'
    BY <1>1, <1>3, <1>6, SentStays, Kept DEF WorkerInv
  <2> QED BY <1>1, <1>3, <2>1, <2>4, <2>5, <2>6, WorkerStep DEF WorkerInv
<1> QED BY <1>5, <1>6 DEF OpenFile

LEMMA ReadFileStep == ASSUME DownloadInv, NEW w \in Workers, ReadFile(w) PROVE DownloadInv'
<1> DEFINE f == Head(todo[w])
           n == size[w]
           s == Split(f, disk[f].ver, n)
<1>1. WorkerInv(w) /\ Types(w) /\ data_length \in Nat /\ Begun(w) \in Nat
  BY Unpacked DEF DownloadInv, TypeOK
<1>2. pc[w] = "read" /\ todo[w] # <<>> /\ packets[w] = <<>>
  BY <1>1 DEF ReadFile, WorkerInv, AtWork
<1>3. sendVector' = sendVector /\ asked' = asked /\ disk' = disk /\ data_length' = data_length
  BY DEF ReadFile
<1>4. f \in Files /\ Tail(todo[w]) \in Seq(Files) /\ Len(todo[w]) > 0
  BY <1>1, <1>2, Tails DEF Types
<1>l. /\ seen' = [seen EXCEPT ![w] = seen'[w]] /\ seen'[w] \in Seq(Looks)
      /\ crossed' = crossed
  BY <1>4, ReadFileLook
<1>z. size' = [size EXCEPT ![w] = 0] /\ size'[w] = 0
  BY DEF ReadFile, DownloadInv, TypeOK
<1>5. todo' = [todo EXCEPT ![w] = Tail(todo[w])]
  BY DEF ReadFile
<1>6. todo'[w] = Tail(todo[w])
  BY <1>5 DEF DownloadInv, TypeOK
<1>7. /\ Begun(w)' = Begun(w) + 1 /\ InTurn(w)'
      /\ Begun(w)' \in 1 .. Len(asked[w]) /\ f = asked[w][Begun(w)']
  BY <1>3, <1>4, <1>6, NextFile
<1>8. Sent(w)'
  <2>1. Begun(w)' \in Nat /\ Begun(w) <= Begun(w)'
    BY <1>1, <1>7
  <2> QED BY <1>1, <1>3, <2>1, SentStays DEF WorkerInv
<1>9. CASE pc' = [pc EXCEPT ![w] = "next"] /\ packets' = packets
  <2>1. OnlyOf(w)
    BY <1>3, <1>5, <1>9, <1>l, <1>z, Crossings DEF OnlyOf, Alters
  <2>2. pc'[w] = "next"
    BY <1>9 DEF DownloadInv, TypeOK
  <2>3. Types(w)'
    BY <1>1, <1>4, <1>6, <1>l, <1>z, <2>2 DEF Types
  <2>4. AtWork(w)'
    BY <1>1, <1>2, <1>3, <1>9, <2>2 DEF WorkerInv, AtWork
  <2>5. Waiting(w)'
    BY <1>2, <1>9 DEF Waiting
  <2> QED BY <1>1, <1>3, <1>7, <1>8, <2>1, <2>3, <2>4, <2>5, WorkerStep DEF WorkerInv
<1>10. CASE pc' = [pc EXCEPT ![w] = "pack"] /\ packets' = [packets EXCEPT ![w] = s]
  <2>1. OnlyOf(w)
    BY <1>3, <1>5, <1>10, <1>l, <1>z, Crossings DEF OnlyOf, Alters
  <2>2. pc'[w] = "pack" /\ packets'[w] = s
    BY <1>10 DEF DownloadInv, TypeOK, InTables
  <2>3. Types(w)'
    BY <1>1, <1>4, <1>6, <1>l, <1>z, <2>2 DEF Types
  <2>4. s \in Seq(PacketsOf(f)) /\ s # <<>>
    <3>1. disk[f].ver \in Nat /\ n \in Nat
      <4>1. disk[f].ver \in Nat
        BY <1>4 DEF DownloadInv, TypeOK, Entries
      <4> QED BY <1>1, <4>1 DEF Types
    <3> HIDE DEF f, n
    <3> QED BY <1>4, <3>1, SplitPackets
  <2> HIDE DEF s
  <2>5. PacketsOf(f) \subseteq Bodies
    BY <1>4 DEF Bodies, PacketsOf, Packets
  <2>6. s \in Seq(Bodies)
    BY <2>4, <2>5
  <2>7. AtWork(w)'
    BY <1>1, <1>3, <2>2, <2>4, <2>6 DEF WorkerInv, AtWork
  <2>8. ASSUME NEW i \in 1 .. Len(s) PROVE s[i].file = f
    <3>1. s[i] \in PacketsOf(f)
      BY <2>4
    <3> QED BY <3>1 DEF PacketsOf
  <2>9. Waiting(w)'
    BY <1>3, <1>7, <2>2, <2>8 DEF Waiting, Of
  <2> QED BY <1>1, <1>3, <1>7, <1>8, <2>1, <2>3, <2>7, <2>9, WorkerStep DEF WorkerInv
<1> QED BY <1>9, <1>10 DEF ReadFile

LEMMA PackLengthStep == ASSUME DownloadInv, NEW w \in Workers, PackLength(w) PROVE DownloadInv'
<1>1. WorkerInv(w) /\ Types(w) /\ Begun(w) \in Nat
  BY Unpacked
<1>2. pc[w] = "pack" /\ packets[w] # <<>> /\ packets[w] \in Seq(Bodies)
  BY <1>1 DEF PackLength, WorkerInv, AtWork
<1>3. /\ disk' = disk /\ todo' = todo /\ size' = size /\ packets' = packets
      /\ sendVector' = sendVector /\ asked' = asked /\ seen' = seen
  BY DEF PackLength, downloads
<1>4. OnlyOf(w)
  BY <1>3, PackLengthCrosses DEF PackLength, OnlyOf, Alters
<1>5. data_length' \in Nat
  <2>1. Head(packets[w]) \in Bodies
    BY <1>2, Tails
  <2> QED BY <2>1, BodySizeNat DEF PackLength
<1>6. pc'[w] = "stamp"
  BY DEF PackLength, DownloadInv, TypeOK
<1>7. Types(w)'
  BY <1>1, <1>3, <1>6 DEF Types
<1>8. AtWork(w)'
  BY <1>1, <1>2, <1>3, <1>6 DEF WorkerInv, AtWork
<1>9. InTurn(w)' /\ Waiting(w)' /\ Sent(w)'
  BY <1>1, <1>3, Kept DEF WorkerInv
<1> QED BY <1>4, <1>5, <1>7, <1>8, <1>9, WorkerStep DEF WorkerInv

LEMMA WriteReplyStep == ASSUME DownloadInv, NEW w \in Workers, WriteReply(w) PROVE DownloadInv'
<1>1. WorkerInv(w) /\ Types(w) /\ Begun(w) \in Nat /\ data_length \in Nat
  BY Unpacked DEF DownloadInv, TypeOK
<1>2. pc[w] = "next" /\ todo[w] = <<>> /\ packets[w] = <<>>
  BY <1>1 DEF WriteReply, WorkerInv, AtWork
<1>3. /\ disk' = disk /\ todo' = todo /\ size' = size /\ packets' = packets
      /\ data_length' = data_length /\ crossed' = crossed
  BY DEF WriteReply
<1>4. OnlyOf(w)
  BY <1>3, Crossings DEF WriteReply, OnlyOf, Alters
<1>5. pc'[w] = "idle" /\ sendVector'[w] = <<>> /\ asked'[w] = <<>> /\ seen'[w] = <<>>
  BY DEF WriteReply, DownloadInv, TypeOK
<1>6. \A S : <<>> \in Seq(S) /\ Len(<<>>) = 0
  OBVIOUS
<1>7. Types(w)'
  BY <1>1, <1>3, <1>5, <1>6 DEF Types
<1>8. AtWork(w)'
  BY <1>1, <1>2, <1>3, <1>5, <1>6 DEF WorkerInv, AtWork
<1>9. InTurn(w)'
  BY <1>2, <1>3, <1>5, <1>6 DEF InTurn
<1>10. Waiting(w)' /\ Sent(w)'
  BY <1>2, <1>3, <1>5, <1>6 DEF Waiting, Sent
<1> QED BY <1>1, <1>3, <1>4, <1>7, <1>8, <1>9, <1>10, WorkerStep DEF WorkerInv

\* A frame of the file being answered comes after all those sent.
LEMMA SentGrows ==
    ASSUME NEW w, NEW fr, Sent(w), Begun(w) \in Nat, Of(w, fr.body, Begun(w)),
           \A i \in 1 .. Len(sendVector[w]) : sendVector'[w][i] = sendVector[w][i],
           Len(sendVector[w]) \in Nat, Len(sendVector'[w]) = Len(sendVector[w]) + 1,
           sendVector'[w][Len(sendVector[w]) + 1] = fr,
           todo' = todo, asked' = asked
    PROVE  Sent(w)'
<1> DEFINE n == Len(sendVector[w])
           B(i) == sendVector'[w][i].body
<1>1. Begun(w)' = Begun(w)
  BY DEF Begun
<1>2. ASSUME NEW i \in 1 .. n + 1
      PROVE  \E k \in Nat : k <= Begun(w) /\ Of(w, B(i), k)
  <2>1. CASE i \in 1 .. n
    <3>1. B(i) = sendVector[w][i].body
      BY <2>1
    <3> QED BY <2>1, <3>1 DEF Sent
  <2>2. CASE i = n + 1
    <3>1. B(i) = fr.body /\ Begun(w) <= Begun(w)
      BY <2>2
    <3> QED BY <3>1
  <2> QED BY <2>1, <2>2
<1>3. ASSUME NEW i \in 1 .. n + 1, NEW j \in 1 .. n + 1, i < j, B(i) # MapList, B(j) # MapList
      PROVE  \E k, l \in 1 .. Len(asked[w]) :
                 k <= l /\ asked[w][k] = B(i).file /\ asked[w][l] = B(j).file
  <2>1. i \in 1 .. n /\ B(i) = sendVector[w][i].body
    BY <1>3
  <2>2. CASE j \in 1 .. n
    <3>1. B(j) = sendVector[w][j].body
      BY <2>2
    <3>2. sendVector[w][i].body # MapList /\ sendVector[w][j].body # MapList
      BY <1>3, <2>1, <3>1
    <3>3. \E k, l \in 1 .. Len(asked[w]) :
              /\ k <= l
              /\ asked[w][k] = sendVector[w][i].body.file
              /\ asked[w][l] = sendVector[w][j].body.file
      BY <1>3, <2>1, <2>2, <3>2 DEF Sent
    <3> HIDE DEF B
    <3> QED BY <2>1, <3>1, <3>3
  <2>3. CASE j = n + 1
    <3>1. B(j) = fr.body
      BY <2>3
    <3>2. PICK k \in Nat : k <= Begun(w) /\ Of(w, B(i), k)
      BY <1>2
    <3> HIDE DEF B
    <3>3. k \in 1 .. Len(asked[w]) /\ B(i).file = asked[w][k]
      BY <1>3, <3>2 DEF Of
    <3>4. Begun(w) \in 1 .. Len(asked[w]) /\ B(j).file = asked[w][Begun(w)]
      BY <1>3, <3>1 DEF Of
    <3> QED BY <3>2, <3>3, <3>4
  <2>4. j \in 1 .. n \/ j = n + 1
    OBVIOUS
  <2> HIDE DEF B, n
  <2> QED BY <2>2, <2>3, <2>4
<1>4. (\A i \in 1 .. Len(sendVector[w]) :
         \E k \in Nat : k <= Begun(w) /\ Of(w, sendVector[w][i].body, k))'
  BY <1>1, <1>2 DEF Of
<1>5. (\A i, j \in 1 .. Len(sendVector[w]) :
           (i < j /\ sendVector[w][i].body # MapList /\ sendVector[w][j].body # MapList) =>
               \E k, l \in 1 .. Len(asked[w]) :
                   /\ k <= l
                   /\ asked[w][k] = sendVector[w][i].body.file
                   /\ asked[w][l] = sendVector[w][j].body.file)'
  BY <1>3
<1> QED BY <1>4, <1>5 DEF Sent

LEMMA PackHeaderStep == ASSUME DownloadInv, NEW w \in Workers, PackHeader(w) PROVE DownloadInv'
<1>1. WorkerInv(w) /\ Types(w) /\ Begun(w) \in Nat /\ data_length \in Nat
  BY Unpacked DEF DownloadInv, TypeOK
<1>2. pc[w] = "stamp" /\ packets[w] # <<>> /\ packets[w] \in Seq(Bodies)
  BY <1>1 DEF PackHeader, WorkerInv, AtWork
<1>3. disk' = disk /\ todo' = todo /\ size' = size /\ asked' = asked /\ data_length' = data_length
      /\ seen' = seen
  BY DEF PackHeader
<1>4. Head(packets[w]) \in Bodies /\ Head(packets[w]) = packets[w][1] /\ Len(packets[w]) \in Nat \ {0}
  BY <1>2, Tails
<1>5. PICK fr \in Frames : /\ fr.body = Head(packets[w])
                           /\ sendVector' = [sendVector EXCEPT ![w] = Append(@, fr)]
  <2>1. BodySize(Head(packets[w])) \in Nat
    BY <1>4, BodySizeNat
  <2>2. PICK length \in Nat : sendVector' = [sendVector EXCEPT ![w] =
                                  Append(@, Frame(length, Head(packets[w]), crossed[w]))]
    BY <1>1, <2>1 DEF PackHeader
  <2> DEFINE f == Frame(length, Head(packets[w]), crossed[w])
  <2>3. crossed[w] \in BOOLEAN
    BY Crossings
  <2>4. f \in Frames /\ f.body = Head(packets[w])
    BY <1>4, <2>2, <2>3 DEF Frame, Frames
  <2> HIDE DEF f
  <2> QED BY <2>2, <2>4 DEF f
<1>6. sendVector'[w] = Append(sendVector[w], fr) /\ sendVector[w] \in Seq(Frames)
  BY <1>1, <1>5 DEF DownloadInv, InTables, WorkerInv, AtWork
<1>7. packets' = [packets EXCEPT ![w] = Tail(packets[w])]
  BY DEF PackHeader
<1>8. packets'[w] = Tail(packets[w])
  BY <1>7 DEF DownloadInv, InTables
<1>9. pc' = [pc EXCEPT ![w] = IF Len(packets[w]) > 1 THEN "pack" ELSE "next"]
  BY DEF PackHeader
<1>10. pc'[w] = IF Len(packets[w]) > 1 THEN "pack" ELSE "next"
  BY <1>9 DEF DownloadInv, TypeOK
<1>11. OnlyOf(w)
  <2>1. crossed' \in [Workers -> BOOLEAN]
    BY Crossings DEF PackHeader
  <2> QED BY <1>3, <1>5, <1>7, <1>9, <2>1 DEF OnlyOf, Alters
<1>12. Types(w)'
  BY <1>1, <1>3, <1>10 DEF Types
<1>13. AtWork(w)'
  <2>1. packets'[w] \in Seq(Bodies) /\ (packets'[w] # <<>> <=> Len(packets[w]) > 1)
    BY <1>2, <1>8, Tails
  <2>2. sendVector'[w] \in Seq(Frames)
    BY <1>6, Appends
  <2>3. asked'[w] \in Seq(Files)
    BY <1>1, <1>3 DEF WorkerInv, AtWork
  <2>4. pc'[w] \in {"pack", "stamp"} <=> packets'[w] # <<>>
    BY <1>10, <2>1
  <2>5. pc'[w] # "idle" /\ pc'[w] # "read"
    BY <1>10
  <2> QED BY <2>1, <2>2, <2>3, <2>4, <2>5 DEF AtWork
<1>14. Begun(w)' = Begun(w)
  BY <1>3 DEF Begun
<1>15. InTurn(w)'
  BY <1>1, <1>3, <1>14 DEF WorkerInv, InTurn
<1>16. ASSUME NEW i \in 1 .. Len(Tail(packets[w])) PROVE Of(w, Tail(packets[w])[i], Begun(w))
  <2>1. i + 1 \in 1 .. Len(packets[w]) /\ Tail(packets[w])[i] = packets[w][i + 1]
    BY <1>2, <1>4, Tails
  <2> QED BY <1>1, <2>1 DEF WorkerInv, Waiting
<1>17. Waiting(w)'
  BY <1>3, <1>8, <1>14, <1>16 DEF Waiting, Of
<1>18. Sent(w)'
  <2>1. Of(w, fr.body, Begun(w))
    BY <1>1, <1>4, <1>5 DEF WorkerInv, Waiting
  <2>2. /\ \A i \in 1 .. Len(sendVector[w]) : sendVector'[w][i] = sendVector[w][i]
        /\ Len(sendVector[w]) \in Nat /\ Len(sendVector'[w]) = Len(sendVector[w]) + 1
        /\ sendVector'[w][Len(sendVector[w]) + 1] = fr
    BY <1>5, <1>6, Appends
  <2> QED BY <1>1, <1>3, <2>1, <2>2, SentGrows DEF WorkerInv
<1> QED BY <1>1, <1>3, <1>11, <1>12, <1>13, <1>15, <1>17, <1>18, WorkerStep DEF WorkerInv

-----------------------------------------------------------------------------
(* The theorems.                                                           *)

(* What a worker has packed and sent, and what it has still to answer, are *)
(* parts of the request it was asked, whatever the others do (onMessage).  *)
THEOREM DownloadInvariant == Spec => []DownloadInv
<1>1. Init => DownloadInv
  BY DownloadInit
<1>2. DownloadInv /\ [Next]_vars => DownloadInv'
  <2> SUFFICES ASSUME DownloadInv, [Next]_vars PROVE DownloadInv'
    OBVIOUS
  <2>1. CASE Saver
    BY <2>1, SaverStep
  <2>2. ASSUME NEW w \in Workers,
               \/ MapRequest(w)
               \/ \E files \in Requests[w] : DownloadRequest(w, files)
               \/ Answer(w)
        PROVE  DownloadInv'
    BY <2>2, MapRequestStep, DownloadRequestStep, OpenFileStep, ReadFileStep, PackLengthStep,
       PackHeaderStep, WriteReplyStep DEF Answer
  <2>3. CASE UNCHANGED vars
    <3>1. \A w \in Workers : WorkerInv(w)'
      BY <2>3, OtherWorker DEF DownloadInv, Untouched, vars, downloads
    <3> QED BY <2>3, <3>1 DEF DownloadInv, TypeOK, InTables, vars, downloads
  <2> QED BY <2>1, <2>2, <2>3 DEF Next
<1> QED BY <1>1, <1>2, PTL DEF Spec

(* The variables of the request side keep their types, while files change  *)
(* under the workers and lengths race (onMessage, splitToVector).          *)
THEOREM DownloadTypeOK == Spec => []TypeOK
<1>1. DownloadInv => TypeOK
  BY DEF DownloadInv
<1> QED BY <1>1, DownloadInvariant, PTL

(* The frames of an answer follow the order of the files asked for, for    *)
(* any number of workers and whatever uploads rewrite                      *)
(* (onReceiveDownloadMapRequest).                                          *)
THEOREM FramesInOrder == Spec => []InRequestOrder
<1>1. DownloadInv => InRequestOrder
  BY DEF DownloadInv, WorkerInv, Sent, InRequestOrder
<1> QED BY <1>1, DownloadInvariant, PTL

-----------------------------------------------------------------------------
(* Lengths: a worker between the two statements of toBigEndianByteStream   *)
(* finds its own length in data_length unless it was crossed.              *)

Stamped(w) == (pc[w] = "stamp" /\ ~crossed[w]) => data_length = BodySize(Head(packets[w]))

Measured(w) == \A i \in 1 .. Len(sendVector[w]) :
    ~sendVector[w][i].crossed => sendVector[w][i].length = BodySize(sendVector[w][i].body)

Stamping == \A w \in Workers : Stamped(w) /\ Measured(w)

\* A worker that is left alone, or gets through another step of its own.
LEMMA StampKept ==
    ASSUME NEW w, Stamped(w), Measured(w),
           sendVector'[w] = sendVector[w] \/ Len(sendVector'[w]) = 0,
           \/ pc'[w] # "stamp"
           \/ pc'[w] = pc[w] /\ packets'[w] = packets[w] /\ data_length' = data_length /\ crossed'[w] = crossed[w]
    PROVE  Stamped(w)' /\ Measured(w)'
BY DEF Stamped, Measured

\* A step that leaves data_length and the marks alone, and starts no frame.
LEMMA NoLengthStep ==
    ASSUME DownloadInv, Stamping, NEW w \in Workers,
           data_length' = data_length, crossed' = crossed,
           pc' = [pc EXCEPT ![w] = pc'[w]], packets' = [packets EXCEPT ![w] = packets'[w]],
           sendVector' = [sendVector EXCEPT ![w] = sendVector'[w]],
           sendVector'[w] = sendVector[w] \/ Len(sendVector'[w]) = 0,
           pc'[w] # "stamp"
    PROVE  Stamping'
<1>1. ASSUME NEW v \in Workers PROVE Stamped(v)' /\ Measured(v)'
  <2>1. CASE v = w
    BY <2>1, StampKept DEF Stamping
  <2>2. CASE v # w
    <3>1. pc'[v] = pc[v] /\ packets'[v] = packets[v] /\ sendVector'[v] = sendVector[v]
      BY <2>2 DEF DownloadInv, TypeOK
    <3> QED BY <3>1, StampKept DEF Stamping
  <2> QED BY <2>1, <2>2
<1> QED BY <1>1 DEF Stamping

LEMMA LengthStamped ==
    ASSUME DownloadInv, Stamping, NEW w \in Workers, PackLength(w)
    PROVE  Stamping'
<1>1. packets' = packets /\ sendVector' = sendVector /\ data_length' = BodySize(Head(packets[w]))
  BY DEF PackLength, downloads
<1>2. ASSUME NEW v \in Workers PROVE Stamped(v)' /\ Measured(v)'
  <2>1. Measured(v)'
    BY <1>1 DEF Stamping, Measured
  <2>2. CASE v = w
    BY <1>1, <2>1, <2>2 DEF Stamped
  <2>3. CASE v # w
    <3>1. pc'[v] = pc[v] /\ crossed'[v] = (v # w /\ pc[v] = "stamp")
      BY <2>3 DEF PackLength, DownloadInv, TypeOK
    <3> QED BY <2>1, <2>3, <3>1 DEF Stamped
  <2> QED BY <2>2, <2>3
<1> QED BY <1>2 DEF Stamping

LEMMA HeaderStamped ==
    ASSUME DownloadInv, Stamping, NEW w \in Workers, PackHeader(w)
    PROVE  Stamping'
<1> DEFINE n == Len(sendVector[w])
<1>1. pc[w] = "stamp" /\ packets[w] \in Seq(Bodies) /\ packets[w] # <<>> /\ sendVector[w] \in Seq(Frames)
  BY DEF PackHeader, DownloadInv, WorkerInv, AtWork
<1>2. PICK length \in {data_length, BodySize(Head(packets[w]))} :
          sendVector' = [sendVector EXCEPT ![w] =
                            Append(@, Frame(length, Head(packets[w]), crossed[w]))]
  BY DEF PackHeader
<1> DEFINE fr == Frame(length, Head(packets[w]), crossed[w])
<1>3. fr \in Frames
  <2>1. Head(packets[w]) \in Bodies
    BY <1>1, Tails
  <2>2. length \in Nat /\ crossed[w] \in BOOLEAN
    BY <2>1, BodySizeNat DEF DownloadInv, TypeOK
  <2> QED BY <2>1, <2>2 DEF Frame, Frames
<1>4. ~fr.crossed => fr.length = BodySize(fr.body)
  BY <1>1, <1>2 DEF Stamping, Stamped, Frame
<1> HIDE DEF fr
<1>5. sendVector' = [sendVector EXCEPT ![w] = Append(sendVector[w], fr)]
  BY <1>2 DEF fr
<1>6. sendVector'[w] = Append(sendVector[w], fr)
  BY <1>5 DEF DownloadInv, TypeOK
<1>7. /\ Len(sendVector'[w]) = n + 1 /\ n \in Nat
      /\ \A i \in 1 .. n : sendVector'[w][i] = sendVector[w][i]
      /\ sendVector'[w][n + 1] = fr
  BY <1>1, <1>3, <1>6, Appends
<1>8. ASSUME NEW i \in 1 .. n + 1, ~sendVector'[w][i].crossed
      PROVE  sendVector'[w][i].length = BodySize(sendVector'[w][i].body)
  <2>1. CASE i \in 1 .. n
    BY <1>7, <1>8, <2>1 DEF Stamping, Measured
  <2>2. CASE i = n + 1
    BY <1>4, <1>7, <1>8, <2>2
  <2> QED BY <1>7, <2>1, <2>2
<1>9. Measured(w)'
  BY <1>7, <1>8 DEF Measured
<1>10. Stamped(w)'
  <2>1. pc'[w] # "stamp"
    BY DEF PackHeader, DownloadInv, TypeOK
  <2> QED BY <2>1 DEF Stamped
<1>11. ASSUME NEW v \in Workers, v # w PROVE Stamped(v)' /\ Measured(v)'
  <2>1. pc'[v] = pc[v] /\ packets'[v] = packets[v] /\ crossed'[v] = crossed[v] /\ data_length' = data_length
    BY <1>11 DEF PackHeader, DownloadInv, TypeOK
  <2>2. sendVector'[v] = sendVector[v]
    BY <1>5, <1>11 DEF DownloadInv, TypeOK
  <2> QED BY <2>1, <2>2, StampKept DEF Stamping
<1> QED BY <1>9, <1>10, <1>11 DEF Stamping

LEMMA StampInductive ==
    ASSUME DownloadInv, Stamping, [Next]_vars
    PROVE  Stamping'
<1>1. CASE Saver \/ UNCHANGED vars
  <2>1. /\ data_length' = data_length /\ pc' = pc /\ packets' = packets
        /\ sendVector' = sendVector /\ crossed' = crossed
    BY <1>1 DEF Saver, SaveOpen, SaveWrite, vars, downloads
  <2> QED BY <2>1, StampKept DEF Stamping
<1>2. ASSUME NEW w \in Workers,
             \/ MapRequest(w) \/ (\E files \in Requests[w] : DownloadRequest(w, files))
             \/ OpenFile(w) \/ ReadFile(w) \/ WriteReply(w)
      PROVE  Stamping'
  <2>1. data_length' = data_length /\ crossed' = crossed
    BY <1>2 DEF MapRequest, DownloadRequest, OpenFile, ReadFile, WriteReply
  <2>2. pc' = [pc EXCEPT ![w] = pc'[w]] /\ pc'[w] # "stamp"
    BY <1>2 DEF MapRequest, DownloadRequest, OpenFile, ReadFile, WriteReply, DownloadInv, TypeOK
  <2>3. packets' = [packets EXCEPT ![w] = packets'[w]]
    BY <1>2 DEF MapRequest, DownloadRequest, OpenFile, ReadFile, WriteReply, DownloadInv, TypeOK
  <2>4. sendVector' = [sendVector EXCEPT ![w] = sendVector'[w]]
    BY <1>2 DEF MapRequest, DownloadRequest, OpenFile, ReadFile, WriteReply, DownloadInv, TypeOK
  <2>5. sendVector'[w] = sendVector[w] \/ Len(sendVector'[w]) = 0
    BY <1>2 DEF MapRequest, DownloadRequest, OpenFile, ReadFile, WriteReply, DownloadInv, TypeOK
  <2> QED BY <2>1, <2>2, <2>3, <2>4, <2>5, NoLengthStep
<1>3. ASSUME NEW w \in Workers, PackLength(w) PROVE Stamping'
  BY <1>3, LengthStamped
<1>4. ASSUME NEW w \in Workers, PackHeader(w) PROVE Stamping'
  BY <1>4, HeaderStamped
<1> QED BY <1>1, <1>2, <1>3, <1>4 DEF Next, Answer

(* Whatever the other workers do, a frame carries the length of its own    *)
(* body unless another worker stored a length between the two statements   *)
(* of this one (UnPack::toBigEndianByteStream).                            *)
THEOREM LengthsUncrossed == Spec => []LengthsRight
<1>1. Init => Stamping
  <2>1. Len(<<>>) = 0
    OBVIOUS
  <2> QED BY <2>1 DEF Init, Stamping, Stamped, Measured
<1>2. DownloadInv /\ Stamping /\ [Next]_vars => Stamping'
  BY StampInductive
<1>3. Stamping => LengthsRight
  BY DEF Stamping, Measured, LengthsRight
<1> QED BY <1>1, <1>2, <1>3, DownloadInvariant, PTL DEF Spec

=============================================================================
