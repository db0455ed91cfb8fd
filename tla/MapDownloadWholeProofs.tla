------------------------ MODULE MapDownloadWholeProofs ------------------------
(* Proof that a download gives the client the whole file.                  *)
EXTENDS MapDownloadProofs

Once(w, k) == \A j \in 1 .. Len(asked[w]) : asked[w][j] = asked[w][k] => j = k

\* The first m packets of S were sent from first on, and no other frame is
\* of file f.
SentPart(w, f, S, first, m) ==
    /\ FramesOf(w, f) = first .. first + m - 1
    /\ \A i \in 1 .. m : sendVector[w][first + i - 1].body = S[i]

\* The others are those the worker has still to send, after all it has sent.
LeftPart(w, S, first, m) ==
    /\ first + m = Len(sendVector[w]) + 1
    /\ Len(packets[w]) = Len(S) - m
    /\ \A i \in 1 .. Len(packets[w]) : packets[w][i] = S[m + i]

AtIt(w, k) == k = Begun(w) /\ pc[w] \in {"pack", "stamp"}

Sending(w, k) ==
    LET d == seen[w][k].opened
        f == asked[w][k]
        S == Split(f, d.ver, d.len)
    IN  IF d.ver = 0
        THEN FramesOf(w, f) = {} /\ ~AtIt(w, k)
        ELSE \E first \in Nat \ {0}, m \in 0 .. Len(S) :
                /\ SentPart(w, f, S, first, m)
                /\ IF AtIt(w, k) THEN LeftPart(w, S, first, m) ELSE m = Len(S)

LooksAt(w) ==
    /\ seen[w] \in Seq(Looks)
    /\ Len(seen[w]) = IF pc[w] = "read" THEN Begun(w) + 1 ELSE Begun(w)
    /\ pc[w] = "read" =>
          LET d == seen[w][Len(seen[w])].opened IN d.ver > 0 /\ size[w] = d.len

SendsWhole(w) ==
    \A k \in 1 .. Begun(w) :
        Once(w, k) /\ seen[w][k].opened = seen[w][k].read => Sending(w, k)

WholeInv ==
    /\ DOMAIN seen = Workers
    /\ \A w \in Workers : LooksAt(w) /\ SendsWhole(w)

-----------------------------------------------------------------------------
(* The packets of a file cover it.                                         *)

\* Rounded up: enough packets, and not one too many.
LEMMA CountEnough ==
    ASSUME NEW n \in Nat \ {0}, NEW m \in Nat \ {0}
    PROVE  LET c == (n + m - 1) \div m IN c \in Nat \ {0} /\ n <= c * m /\ (c - 1) * m < n
<1> DEFINE c == (n + m - 1) \div m
<1>1. n + m - 1 \in Nat
  OBVIOUS
<1>2. \A x \in Nat : x \div m \in Nat /\ x = m * (x \div m) + (x % m) /\ x % m \in 0 .. (m - 1)
  OBVIOUS
<1>3. c \in Nat /\ n + m - 1 = m * c + ((n + m - 1) % m) /\ (n + m - 1) % m \in 0 .. (m - 1)
  BY <1>1, <1>2
<1> HIDE DEF c
<1>4. n <= m * c /\ m * c <= n + m - 1
  BY <1>3
<1>5. m * c = c * m /\ m * 0 = 0 /\ (c - 1) * m = m * c - m
  BY <1>3
<1>6. c # 0
  BY <1>4, <1>5
<1> QED BY <1>3, <1>4, <1>5, <1>6 DEF c

LEMMA Multiples ==
    ASSUME NEW m \in Nat \ {0}, NEW i \in Nat, NEW j \in Nat
    PROVE  i * m \in Nat /\ (i <= j => i * m <= j * m) /\ (i + 1) * m = i * m + m
OBVIOUS

\* What Delivers asks of packet i of total.
Covers(b, i, total, ver, n) ==
    /\ b.ver = ver
    /\ b.total = total
    /\ b.to - b.from <= MaxPacketSize
    /\ n > 0 => b.num = i - 1 /\ b.to > b.from

\* Packets that follow one another from the first byte to the last.
Covered(S, f, ver, n) ==
    /\ Len(S) \in Nat \ {0}
    /\ \A i \in 1 .. Len(S) : S[i] # MapList /\ S[i].file = f /\ Covers(S[i], i, Len(S), ver, n)
    /\ \A i \in 1 .. Len(S) : i < Len(S) => S[i].to = S[i + 1].from
    /\ S[1].from = 0
    /\ S[Len(S)].to = n

LEMMA SplitCovers ==
    ASSUME NEW f \in Files, NEW ver \in Nat, NEW n \in Nat
    PROVE  Covered(Split(f, ver, n), f, ver, n)
<1> DEFINE S == Split(f, ver, n)
           c == (n + MaxPacketSize - 1) \div MaxPacketSize
           P(i) == Packet(f, ver, i - 1, c, (i - 1) * MaxPacketSize, Min2(i * MaxPacketSize, n))
<1>1. MaxPacketSize \in Nat \ {0}
  BY DownloadAssumption
<1>2. CASE n = 0
  <2>1. S = <<Packet(f, ver, 1, 1, 0, 0)>>
    BY <1>2 DEF Split
  <2> HIDE DEF S
  <2>2. Len(S) = 1 /\ S[1] = Packet(f, ver, 1, 1, 0, 0)
    BY <2>1
  <2>3. S[1] # MapList
    BY <2>2 DEF Packet, MapList
  <2>4. S[1].file = f /\ S[1].ver = ver /\ S[1].total = 1 /\ S[1].from = 0 /\ S[1].to = 0
    BY <2>2 DEF Packet
  <2>5. Covers(S[1], 1, 1, ver, n)
    BY <1>1, <1>2, <2>4 DEF Covers
  <2>6. \A i \in 1 .. Len(S) : i = 1
    BY <2>2
  <2>7. Len(S) \in Nat \ {0} /\ \A i \in 1 .. Len(S) : ~(i < Len(S))
    BY <2>2
  <2>8. S[Len(S)].to = n
    BY <1>2, <2>2, <2>4
  <2> QED BY <2>2, <2>3, <2>4, <2>5, <2>6, <2>7, <2>8 DEF S, Covered
<1>3. CASE n # 0
  <2>1. c \in Nat \ {0} /\ n <= c * MaxPacketSize /\ (c - 1) * MaxPacketSize < n
    BY <1>1, <1>3, CountEnough
  <2>2. S = [i \in 1 .. c |-> P(i)]
    BY <1>3 DEF Split
  <2> HIDE DEF S, c, P
  <2>3. Len(S) = c /\ \A i \in 1 .. c : S[i] = P(i)
    BY <2>1, <2>2
  <2>4. ASSUME NEW i \in 1 .. c
        PROVE  /\ S[i].file = f /\ S[i].ver = ver /\ S[i].total = c /\ S[i].num = i - 1
               /\ S[i].from = (i - 1) * MaxPacketSize /\ S[i].to = Min2(i * MaxPacketSize, n)
               /\ S[i] # MapList
    BY <2>3 DEF P, Packet, MapList
  <2>5. ASSUME NEW i \in 1 .. c
        PROVE  /\ (i - 1) * MaxPacketSize \in Nat /\ i * MaxPacketSize \in Nat
               /\ i * MaxPacketSize = (i - 1) * MaxPacketSize + MaxPacketSize
               /\ (i - 1) * MaxPacketSize < n
               /\ i < c => i * MaxPacketSize < n
    <3>1. i - 1 \in Nat /\ c - 1 \in Nat /\ i \in Nat /\ i - 1 <= c - 1 /\ (i < c => i <= c - 1) /\ i = (i - 1) + 1
      BY <2>1
    <3>2. /\ (i - 1) * MaxPacketSize \in Nat /\ i * MaxPacketSize \in Nat
          /\ (c - 1) * MaxPacketSize \in Nat
          /\ (i - 1) * MaxPacketSize <= (c - 1) * MaxPacketSize
          /\ i < c => i * MaxPacketSize <= (c - 1) * MaxPacketSize
          /\ ((i - 1) + 1) * MaxPacketSize = (i - 1) * MaxPacketSize + MaxPacketSize
      BY <1>1, <3>1, Multiples
    <3> DEFINE x == (i - 1) * MaxPacketSize
               y == i * MaxPacketSize
               z == (c - 1) * MaxPacketSize
    <3>3. x \in Nat /\ y \in Nat /\ z \in Nat /\ x <= z /\ (i < c => y <= z) /\ y = x + MaxPacketSize /\ z < n
      BY <2>1, <3>1, <3>2
    <3> HIDE DEF x, y, z
    <3>4. x < n /\ (i < c => y < n)
      BY <3>3
    <3> QED BY <3>3, <3>4 DEF x, y
  <2>6. ASSUME NEW i \in 1 .. c PROVE Covers(S[i], i, c, ver, n)
    <3> DEFINE x == (i - 1) * MaxPacketSize
               y == i * MaxPacketSize
    <3>1. x \in Nat /\ y \in Nat /\ y = x + MaxPacketSize /\ x < n
      BY <2>5
    <3>2. S[i].from = x /\ S[i].to = Min2(y, n) /\ S[i].num = i - 1 /\ S[i].ver = ver /\ S[i].total = c
      BY <2>4
    <3> HIDE DEF x, y
    <3>3. Min2(y, n) - x <= MaxPacketSize /\ Min2(y, n) > x
      BY <1>1, <3>1 DEF Min2
    <3> QED BY <3>2, <3>3 DEF Covers
  <2>7. ASSUME NEW i \in 1 .. c, i < c PROVE S[i].to = S[i + 1].from
    <3>1. i + 1 \in 1 .. c /\ (i + 1) - 1 = i
      BY <2>1, <2>7
    <3>2. S[i + 1].from = i * MaxPacketSize
      BY <2>4, <3>1
    <3>3. Min2(i * MaxPacketSize, n) = i * MaxPacketSize
      <4> DEFINE y == i * MaxPacketSize
      <4>1. y \in Nat /\ y < n
        BY <2>5, <2>7
      <4> HIDE DEF y
      <4>2. Min2(y, n) = y
        BY <4>1 DEF Min2
      <4> QED BY <4>2 DEF y
    <3> QED BY <2>4, <3>2, <3>3
  <2>8. S[1].from = 0
    <3>1. 1 \in 1 .. c /\ (1 - 1) * MaxPacketSize = 0
      BY <1>1, <2>1
    <3> QED BY <2>4, <3>1
  <2>9. S[c].to = n
    <3> DEFINE y == c * MaxPacketSize
    <3>1. c \in 1 .. c /\ y \in Nat /\ n <= y
      BY <2>1, <2>5
    <3>2. S[c].to = Min2(y, n)
      BY <2>4, <3>1
    <3> HIDE DEF y
    <3>3. Min2(y, n) = n
      BY <3>1 DEF Min2
    <3> QED BY <3>2, <3>3
  <2> QED BY <2>1, <2>3, <2>4, <2>6, <2>7, <2>8, <2>9 DEF S, Covered
<1> QED BY <1>2, <1>3

\* All the packets of a file, in their order, and nothing else of it.
LEMMA AllDelivered ==
    ASSUME NEW w, NEW f \in Files, NEW ver \in Nat, NEW n \in Nat, NEW first \in Nat \ {0},
           SentPart(w, f, Split(f, ver, n), first, Len(Split(f, ver, n)))
    PROVE  Delivers(w, FramesOf(w, f), ver, n)
<1> DEFINE S == Split(f, ver, n)
           last == first + Len(S) - 1
           B(i) == sendVector[w][i].body
<1>1. /\ Len(S) \in Nat \ {0}
      /\ \A i \in 1 .. Len(S) : Covers(S[i], i, Len(S), ver, n)
      /\ \A i \in 1 .. Len(S) : i < Len(S) => S[i].to = S[i + 1].from
      /\ S[1].from = 0 /\ S[Len(S)].to = n
  <2>1. Covered(S, f, ver, n)
    BY SplitCovers
  <2> HIDE DEF S
  <2> QED BY <2>1 DEF Covered
<1>2. FramesOf(w, f) = first .. last /\ \A i \in 1 .. Len(S) : B(first + i - 1) = S[i]
  BY DEF SentPart
<1> HIDE DEF S, B
<1>3. ASSUME NEW i \in first .. last
      PROVE  /\ i - first + 1 \in 1 .. Len(S) /\ B(i) = S[i - first + 1]
             /\ i < last => i - first + 1 < Len(S) /\ B(i + 1) = S[(i - first + 1) + 1]
  <2>1. i - first + 1 \in 1 .. Len(S) /\ first + (i - first + 1) - 1 = i
    BY <1>1
  <2>2. ASSUME i < last
        PROVE  (i - first + 1) + 1 \in 1 .. Len(S) /\ first + ((i - first + 1) + 1) - 1 = i + 1
    BY <1>1, <2>2
  <2>3. i < last => i - first + 1 < Len(S)
    BY <1>1
  <2> QED BY <1>2, <2>1, <2>2, <2>3
<1>4. first \in first .. last /\ last \in first .. last /\ first - first + 1 = 1
      /\ last - first + 1 = Len(S)
  BY <1>1
<1>5. B(first).from = 0 /\ B(last).to = n
  BY <1>1, <1>3, <1>4
<1> HIDE DEF last
<1>6. ASSUME NEW i \in first .. last
      PROVE  /\ B(i).ver = ver
             /\ B(i).total = last - first + 1
             /\ B(i).to - B(i).from <= MaxPacketSize
             /\ n > 0 => B(i).num = i - first /\ B(i).to > B(i).from
             /\ i < last => B(i).to = B(i + 1).from
  <2>1. Covers(B(i), i - first + 1, last - first + 1, ver, n) /\ (i - first + 1) - 1 = i - first
    BY <1>1, <1>3, <1>4
  <2>2. i < last => B(i).to = B(i + 1).from
    BY <1>1, <1>3
  <2> QED BY <2>1, <2>2 DEF Covers
<1>7. first \in FramesOf(w, f) /\ last \in FramesOf(w, f)
  BY <1>2, <1>4
<1>8. ASSUME NEW places, places = first .. last, first \in places, last \in places
      PROVE  Delivers(w, places, ver, n)
  <2> SUFFICES \E a, z \in places :
                  /\ places = a .. z
                  /\ B(a).from = 0
                  /\ B(z).to = n
                  /\ \A i \in places :
                        /\ B(i).ver = ver
                        /\ B(i).total = z - a + 1
                        /\ B(i).to - B(i).from <= MaxPacketSize
                        /\ n > 0 => B(i).num = i - a /\ B(i).to > B(i).from
                        /\ i < z => B(i).to = B(i + 1).from
    BY DEF Delivers, B
  <2> WITNESS first \in places, last \in places
  <2> QED BY <1>5, <1>6, <1>8
<1> QED BY <1>2, <1>7, <1>8

-----------------------------------------------------------------------------
(* The steps.                                                              *)

LEMMA KeepsSending ==
    ASSUME NEW w, NEW k, Sending(w, k), asked'[w] = asked[w], sendVector'[w] = sendVector[w],
           seen'[w][k].opened = seen[w][k].opened,
           AtIt(w, k)' <=> AtIt(w, k), AtIt(w, k) => packets'[w] = packets[w]
    PROVE  Sending(w, k)'
<1> DEFINE d == seen[w][k].opened
           f == asked[w][k]
           S == Split(f, d.ver, d.len)
<1>1. FramesOf(w, f)' = FramesOf(w, f)
  BY DEF FramesOf
<1>2. CASE d.ver = 0
  BY <1>1, <1>2 DEF Sending
<1>3. CASE d.ver # 0
  <2>1. PICK first \in Nat \ {0}, m \in 0 .. Len(S) :
              /\ SentPart(w, f, S, first, m)
              /\ IF AtIt(w, k) THEN LeftPart(w, S, first, m) ELSE m = Len(S)
    BY <1>3 DEF Sending
  <2>2. S' = S /\ d' = d /\ f' = f
    OBVIOUS
  <2>3. SentPart(w, f, S, first, m)'
    BY <1>1, <2>1, <2>2 DEF SentPart
  <2>4. AtIt(w, k) => LeftPart(w, S, first, m)'
    BY <2>1, <2>2 DEF LeftPart
  <2> HIDE DEF S
  <2>5. \E a \in Nat \ {0}, b \in 0 .. Len(S') :
              /\ SentPart(w, f, S, a, b)'
              /\ IF AtIt(w, k)' THEN LeftPart(w, S, a, b)' ELSE b = Len(S')
    BY <2>1, <2>2, <2>3, <2>4
  <2> QED BY <1>3, <2>2, <2>5 DEF Sending, S
<1> QED BY <1>2, <1>3

\* The others' part of the invariant stays.
LEMMA WholeOther ==
    ASSUME NEW w, LooksAt(w), SendsWhole(w), Untouched(w), seen'[w] = seen[w], size'[w] = size[w]
    PROVE  LooksAt(w)' /\ SendsWhole(w)'
<1>1. Begun(w)' = Begun(w) /\ \A k : (AtIt(w, k)' <=> AtIt(w, k)) /\ (Once(w, k)' <=> Once(w, k))
  BY DEF Begun, AtIt, Once, Untouched
<1>2. LooksAt(w)'
  BY <1>1 DEF LooksAt, Untouched
<1>3. ASSUME NEW k \in 1 .. Begun(w), Once(w, k), seen[w][k].opened = seen[w][k].read
      PROVE  Sending(w, k)'
  BY <1>1, <1>3, KeepsSending DEF SendsWhole, Untouched
<1> QED BY <1>1, <1>2, <1>3 DEF SendsWhole

LEMMA WholeStep ==
    ASSUME DownloadInv, WholeInv, NEW w \in Workers, OnlyOf(w), Alters(seen, seen', w),
           LooksAt(w)', SendsWhole(w)'
    PROVE  WholeInv'
<1>1. ASSUME NEW v \in Workers, v # w PROVE LooksAt(v)' /\ SendsWhole(v)'
  <2>1. pc'[v] = pc[v] /\ todo'[v] = todo[v] /\ size'[v] = size[v]
    BY <1>1 DEF OnlyOf, Alters, DownloadInv, TypeOK
  <2>2. packets'[v] = packets[v] /\ sendVector'[v] = sendVector[v] /\ asked'[v] = asked[v]
    BY <1>1 DEF OnlyOf, Alters, DownloadInv, InTables
  <2>3. seen'[v] = seen[v]
    BY <1>1 DEF Alters, WholeInv
  <2> QED BY <2>1, <2>2, <2>3, WholeOther DEF Untouched, WholeInv
<1>2. DOMAIN seen' = Workers
  BY DEF Alters, WholeInv
<1> QED BY <1>1, <1>2 DEF WholeInv

LEMMA WholeInit == Init => WholeInv
<1> SUFFICES ASSUME Init PROVE WholeInv
  OBVIOUS
<1>1. Len(<<>>) = 0 /\ <<>> \in Seq(Looks)
  OBVIOUS
<1>2. ASSUME NEW w \in Workers
      PROVE  /\ seen[w] \in Seq(Looks) /\ Len(seen[w]) = 0
             /\ Begun(w) = 0 /\ pc[w] # "read"
  BY <1>1 DEF Init, Begun
<1>3. \A w \in Workers : LooksAt(w)
  BY <1>2 DEF LooksAt
<1>4. \A w \in Workers : SendsWhole(w)
  BY <1>2 DEF SendsWhole
<1> QED BY <1>3, <1>4 DEF Init, WholeInv

\* A worker with nothing begun.
LEMMA NothingBegun ==
    ASSUME DownloadInv, WholeInv, NEW w \in Workers, OnlyOf(w),
           seen'[w] = <<>>, pc'[w] # "read", Begun(w)' = 0
    PROVE  WholeInv'
<1>1. Len(<<>>) = 0 /\ <<>> \in Seq(Looks)
  OBVIOUS
<1>2. LooksAt(w)' /\ SendsWhole(w)'
  BY <1>1 DEF LooksAt, SendsWhole
<1>3. Alters(seen, seen', w)
  BY DEF OnlyOf
<1> QED BY <1>2, <1>3, WholeStep

LEMMA RequestWhole ==
    ASSUME DownloadInv, WholeInv, NEW w \in Workers,
           MapRequest(w) \/ \E files \in Requests[w] : DownloadRequest(w, files)
    PROVE  WholeInv'
<1>1. OnlyOf(w)
  BY Crossings DEF MapRequest, DownloadRequest, OnlyOf, Alters
<1>2. WorkerInv(w) /\ LooksAt(w) /\ pc[w] = "idle"
  BY DEF DownloadInv, WholeInv, MapRequest, DownloadRequest
<1>3. seen[w] = <<>>
  BY <1>2 DEF WorkerInv, AtWork
<1>4. seen'[w] = <<>> /\ pc'[w] # "read"
  BY <1>3 DEF MapRequest, DownloadRequest, DownloadInv, TypeOK
<1>5. CASE MapRequest(w)
  <2>1. Begun(w) = 0
    <3>1. Len(<<>>) = 0
      OBVIOUS
    <3> QED BY <1>2, <1>3, <3>1 DEF LooksAt
  <2>2. Begun(w)' = Begun(w)
    BY <1>5 DEF MapRequest, Begun
  <2> QED BY <1>1, <1>4, <2>1, <2>2, NothingBegun
<1>6. ASSUME NEW files \in Requests[w], DownloadRequest(w, files) PROVE WholeInv'
  <2>1. \A q \in Seq(Files) : Len(q) - Len(q) = 0
    OBVIOUS
  <2>2. asked'[w] = files /\ todo'[w] = files /\ files \in Seq(Files)
    BY <1>6, DownloadAssumption DEF DownloadRequest, DownloadInv, TypeOK
  <2>3. Begun(w)' = 0
    BY <2>1, <2>2 DEF Begun
  <2> QED BY <1>1, <1>4, <2>3, NothingBegun
<1> QED BY <1>5, <1>6

LEMMA WriteReplyWhole ==
    ASSUME DownloadInv, WholeInv, NEW w \in Workers, WriteReply(w)
    PROVE  WholeInv'
<1>1. OnlyOf(w)
  BY Crossings DEF WriteReply, OnlyOf, Alters
<1>2. seen'[w] = <<>> /\ asked'[w] = <<>> /\ todo'[w] = <<>> /\ pc'[w] # "read"
  BY DEF WriteReply, DownloadInv, TypeOK
<1>3. Len(<<>>) - Len(<<>>) = 0
  OBVIOUS
<1>4. Begun(w)' = 0
  BY <1>2, <1>3 DEF Begun
<1> QED BY <1>1, <1>2, <1>4, NothingBegun

\* No frame was sent of a file whose turn has not come.
LEMMA NoneYet ==
    ASSUME DownloadInv, NEW w \in Workers, NEW k \in 1 .. Len(asked[w]), k > Begun(w), Once(w, k)
    PROVE  FramesOf(w, asked[w][k]) = {}
<1> SUFFICES ASSUME NEW i \in DOMAIN sendVector[w], sendVector[w][i].body # MapList,
                    sendVector[w][i].body.file = asked[w][k]
             PROVE  FALSE
  BY DEF FramesOf
<1>1. Sent(w) /\ sendVector[w] \in Seq(Frames) /\ Begun(w) \in Nat
  BY Unpacked DEF WorkerInv, AtWork
<1>2. i \in 1 .. Len(sendVector[w])
  BY <1>1
<1>3. PICK j \in Nat : j <= Begun(w) /\ Of(w, sendVector[w][i].body, j)
  BY <1>1, <1>2 DEF Sent
<1>4. j \in 1 .. Len(asked[w]) /\ asked[w][j] = asked[w][k]
  BY <1>3 DEF Of
<1> QED BY <1>1, <1>3, <1>4 DEF Once

\* The files begun before stay as they are when nothing is sent.
LEMMA BegunStay ==
    ASSUME NEW w, SendsWhole(w), asked'[w] = asked[w], sendVector'[w] = sendVector[w],
           \A k \in 1 .. Begun(w) :
               /\ seen'[w][k] = seen[w][k]
               /\ AtIt(w, k)' <=> AtIt(w, k)
               /\ AtIt(w, k) => packets'[w] = packets[w]
    PROVE  \A k \in 1 .. Begun(w) :
               (Once(w, k) /\ seen[w][k].opened = seen[w][k].read)' => Sending(w, k)'
<1> SUFFICES ASSUME NEW k \in 1 .. Begun(w), Once(w, k)', (seen[w][k].opened = seen[w][k].read)'
             PROVE  Sending(w, k)'
  OBVIOUS
<1>1. Once(w, k) /\ seen[w][k].opened = seen[w][k].read
  BY DEF Once
<1>2. Sending(w, k)
  BY <1>1 DEF SendsWhole
<1> QED BY <1>2, KeepsSending

LEMMA OpenFileWhole ==
    ASSUME DownloadInv, WholeInv, NEW w \in Workers, OpenFile(w)
    PROVE  WholeInv'
<1> DEFINE d == disk[Head(todo[w])]
           look == [opened |-> d, read |-> d]
<1>1. /\ WorkerInv(w) /\ Types(w) /\ Begun(w) \in Nat
      /\ LooksAt(w) /\ SendsWhole(w) /\ DownloadInv'
  BY Unpacked, OpenFileStep DEF WholeInv
<1>2. /\ disk' = disk /\ packets' = packets /\ sendVector' = sendVector /\ asked' = asked
      /\ pc[w] = "next" /\ todo[w] # <<>>
  BY DEF OpenFile
<1>3. OnlyOf(w) /\ Alters(seen, seen', w)
  BY Crossings DEF OpenFile, OnlyOf, Alters
<1>4. Len(todo[w]) > 0 /\ Head(todo[w]) \in Files
  BY <1>1, <1>2, Tails DEF Types
<1>5. d \in Entries
  BY <1>4 DEF DownloadInv, TypeOK
<1>6. look \in Looks
  BY <1>5 DEF Looks
<1>7. seen'[w] = Append(seen[w], look) /\ seen[w] \in Seq(Looks) /\ Len(seen[w]) = Begun(w)
  BY <1>1, <1>2 DEF OpenFile, WholeInv, LooksAt
<1> HIDE DEF look
<1>8. /\ seen'[w] \in Seq(Looks) /\ Len(seen'[w]) = Begun(w) + 1
      /\ \A k \in 1 .. Begun(w) : seen'[w][k] = seen[w][k]
      /\ seen'[w][Begun(w) + 1] = look
  BY <1>6, <1>7, Appends
<1>9. look.opened = d
  BY DEF look
<1> HIDE DEF d
<1>10. pc'[w] \in {"next", "read"}
  BY <1>2 DEF OpenFile, DownloadInv, TypeOK
<1>11. \A k : ~AtIt(w, k) /\ ~AtIt(w, k)'
  BY <1>2, <1>10 DEF AtIt
<1>12. \A k \in 1 .. Begun(w) :
           (Once(w, k) /\ seen[w][k].opened = seen[w][k].read)' => Sending(w, k)'
  BY <1>1, <1>2, <1>8, <1>11, BegunStay
<1>13. CASE d.ver = 0
  <2>1. pc'[w] = "next" /\ todo'[w] = Tail(todo[w])
    BY <1>2, <1>13 DEF OpenFile, DownloadInv, TypeOK, d
  <2>2. /\ Begun(w)' = Begun(w) + 1 /\ Begun(w)' \in 1 .. Len(asked[w])
    BY <1>2, <1>4, <2>1, NextFile
  <2>3. LooksAt(w)'
    BY <1>8, <2>1, <2>2 DEF LooksAt
  <2>4. PICK n \in Nat : n = Begun(w) + 1
    BY <1>1
  <2>5. ASSUME Once(w, n)' PROVE Sending(w, n)'
    <3>1. Once(w, n) /\ n \in 1 .. Len(asked[w]) /\ n > Begun(w)
      BY <1>1, <1>2, <2>2, <2>4, <2>5 DEF Once
    <3>2. FramesOf(w, asked[w][n]) = {}
      BY <3>1, NoneYet
    <3>3. FramesOf(w, asked[w][n])' = {}
      BY <1>2, <3>2 DEF FramesOf
    <3>4. (seen[w][n].opened.ver = 0)'
      BY <1>8, <1>9, <1>13, <2>4
    <3> QED BY <1>11, <3>3, <3>4 DEF Sending
  <2>6. \A k \in 1 .. Begun(w)' : k \in 1 .. Begun(w) \/ k = n
    BY <1>1, <2>2, <2>4
  <2>7. SendsWhole(w)'
    BY <1>8, <1>12, <2>5, <2>6 DEF SendsWhole
  <2> QED BY <1>3, <2>3, <2>7, WholeStep
<1>14. CASE d.ver # 0
  <2>1. pc'[w] = "read" /\ todo' = todo /\ size'[w] = d.len
    BY <1>2, <1>14 DEF OpenFile, DownloadInv, TypeOK, d
  <2>2. Begun(w)' = Begun(w)
    BY <1>2, <2>1 DEF Begun
  <2>3. d.ver > 0
    BY <1>5, <1>14 DEF Entries
  <2>4. LooksAt(w)'
    BY <1>8, <1>9, <2>1, <2>2, <2>3 DEF LooksAt
  <2>5. SendsWhole(w)'
    BY <1>12, <2>2 DEF SendsWhole
  <2> QED BY <1>3, <2>4, <2>5, WholeStep
<1> QED BY <1>13, <1>14

\* What was read is noted beside what was opened.
LEMMA Noted ==
    ASSUME NEW s \in Seq(Looks), NEW d \in Entries, NEW n, n = Len(s), n \in Nat \ {0}
    PROVE  LET t == [s EXCEPT ![n].read = d] IN
           /\ t \in Seq(Looks) /\ Len(t) = n
           /\ t[n].opened = s[n].opened /\ t[n].read = d
           /\ \A k \in 1 .. n - 1 : t[k] = s[k]
<1> DEFINE e == [s[n] EXCEPT !.read = d]
           t == [s EXCEPT ![n] = e]
<1>1. s[n] \in Looks
  OBVIOUS
<1>2. e \in Looks /\ e.opened = s[n].opened /\ e.read = d
  BY <1>1 DEF Looks
<1>3. [s EXCEPT ![n].read = d] = t
  OBVIOUS
<1> HIDE DEF e
<1>4. t \in Seq(Looks) /\ Len(t) = n /\ t[n] = e /\ \A k \in 1 .. n - 1 : t[k] = s[k]
  BY <1>2
<1> QED BY <1>2, <1>3, <1>4

LEMMA ReadFileWhole ==
    ASSUME DownloadInv, WholeInv, NEW w \in Workers, ReadFile(w)
    PROVE  WholeInv'
<1>1. PICK f, d, n, S : f = Head(todo[w]) /\ d = disk[f] /\ n = Begun(w) + 1 /\ S = Split(f, d.ver, size[w])
  OBVIOUS
<1>2. /\ WorkerInv(w) /\ Types(w) /\ Begun(w) \in Nat
      /\ LooksAt(w) /\ SendsWhole(w)
  BY Unpacked DEF WholeInv
<1>3. /\ disk' = disk /\ sendVector' = sendVector /\ asked' = asked
      /\ pc[w] = "read" /\ todo[w] # <<>>
      /\ todo'[w] = Tail(todo[w])
  BY <1>2 DEF ReadFile, WorkerInv, AtWork, DownloadInv, TypeOK
<1>4. OnlyOf(w) /\ Alters(seen, seen', w)
  BY Crossings DEF ReadFile, OnlyOf, Alters
<1>5. Len(todo[w]) > 0 /\ f \in Files
  BY <1>1, <1>2, <1>3, Tails DEF Types
<1>6. d \in Entries
  BY <1>1, <1>5 DEF DownloadInv, TypeOK
<1>7. Begun(w)' = n /\ n \in 1 .. Len(asked[w]) /\ f = asked[w][n]
  BY <1>1, <1>3, <1>5, NextFile
<1>8. /\ seen[w] \in Seq(Looks) /\ Len(seen[w]) = n /\ n \in Nat \ {0}
      /\ seen[w][n].opened.ver > 0 /\ size[w] = seen[w][n].opened.len
  BY <1>1, <1>2, <1>3 DEF LooksAt
<1>9. seen'[w] = [seen[w] EXCEPT ![n].read = d]
  BY <1>1, <1>8 DEF ReadFile, WholeInv
<1>10. /\ seen'[w] \in Seq(Looks) /\ Len(seen'[w]) = n
      /\ seen'[w][n].opened = seen[w][n].opened /\ seen'[w][n].read = d
      /\ \A k \in 1 .. n - 1 : seen'[w][k] = seen[w][k]
  BY <1>6, <1>8, <1>9, Noted
<1>11. pc'[w] \in {"next", "pack"}
  BY <1>3 DEF ReadFile, DownloadInv, TypeOK
<1>12. LooksAt(w)'
  BY <1>7, <1>10, <1>11 DEF LooksAt
<1>13. \A k \in 1 .. Begun(w) : ~AtIt(w, k) /\ ~AtIt(w, k)' /\ k \in 1 .. n - 1
  BY <1>1, <1>2, <1>3, <1>7 DEF AtIt
<1>14. \A k \in 1 .. Begun(w) :
           (Once(w, k) /\ seen[w][k].opened = seen[w][k].read)' => Sending(w, k)'
  BY <1>2, <1>3, <1>10, <1>13, BegunStay
<1>15. ASSUME Once(w, n)', seen'[w][n].opened = seen'[w][n].read PROVE Sending(w, n)'
  <2>1. seen[w][n].opened = d /\ size[w] = d.len /\ d.ver # 0 /\ ~(d.len < size[w])
    <3>1. d.len \in Nat
      BY <1>6 DEF Entries
    <3> QED BY <1>8, <1>10, <1>15, <3>1
  <2>2. pc'[w] = "pack" /\ packets'[w] = S
    BY <1>1, <2>1 DEF ReadFile, DownloadInv, TypeOK, InTables
  <2>3. Once(w, n) /\ n > Begun(w)
    BY <1>1, <1>2, <1>3, <1>15 DEF Once
  <2>4. FramesOf(w, f) = {}
    BY <1>7, <2>3, NoneYet
  <2>5. FramesOf(w, f)' = {}
    BY <1>3, <2>4 DEF FramesOf
  <2>6. PICK first : first = Len(sendVector[w]) + 1
    OBVIOUS
  <2>7. first \in Nat \ {0} /\ first .. first + 0 - 1 = {} /\ 1 .. 0 = {} /\ first + 0 = Len(sendVector[w]) + 1
    <3>1. Len(sendVector[w]) \in Nat
      BY <1>2 DEF WorkerInv, AtWork
    <3> QED BY <2>6, <3>1
  <2>8. Len(S) \in Nat /\ 0 \in 0 .. Len(S) /\ Len(S) = Len(S) - 0 /\ \A i \in 1 .. Len(S) : 0 + i = i
    <3>1. d.ver \in Nat /\ size[w] \in Nat
      BY <1>2, <1>6 DEF Entries, Types
    <3>2. Len(S) \in Nat
      BY <1>1, <1>5, <2>1, <3>1, SplitCovers DEF Covered
    <3> QED BY <3>2
  <2>9. AtIt(w, n)'
    BY <1>7, <2>2 DEF AtIt
  <2>10. S = Split(asked'[w][n], seen'[w][n].opened.ver, seen'[w][n].opened.len) /\ f = asked'[w][n]
    BY <1>1, <1>3, <1>7, <1>10, <2>1
  <2>11. seen'[w][n].opened.ver # 0
    BY <1>10, <2>1
  <2>12. FramesOf(w, f)' = first .. first + 0 - 1 /\ \A i \in 1 .. 0 : sendVector'[w][first + i - 1].body = S[i]
    BY <2>5, <2>7
  <2>13. /\ first + 0 = Len(sendVector'[w]) + 1
         /\ Len(packets'[w]) = Len(S) - 0
         /\ \A i \in 1 .. Len(packets'[w]) : packets'[w][i] = S[0 + i]
    BY <1>3, <2>2, <2>7, <2>8
  <2> DEFINE Part(a, b) ==
               /\ FramesOf(w, f)' = a .. a + b - 1 /\ \A i \in 1 .. b : sendVector'[w][a + i - 1].body = S[i]
               /\ a + b = Len(sendVector'[w]) + 1
               /\ Len(packets'[w]) = Len(S) - b
               /\ \A i \in 1 .. Len(packets'[w]) : packets'[w][i] = S[b + i]
  <2>14. \E a \in Nat \ {0}, b \in 0 .. Len(S) : Part(a, b)
    <3>1. Part(first, 0)
      BY <2>12, <2>13
    <3> HIDE DEF Part
    <3> QED BY <2>7, <2>8, <3>1
  <2> QED BY <2>9, <2>10, <2>11, <2>14 DEF Sending, SentPart, LeftPart
<1>16. \A k \in 1 .. Begun(w)' : k \in 1 .. Begun(w) \/ k = n
  BY <1>1, <1>2, <1>7
<1>17. SendsWhole(w)'
  BY <1>14, <1>15, <1>16 DEF SendsWhole
<1> QED BY <1>4, <1>12, <1>17, WholeStep

\* Between the two statements of toBigEndianByteStream nothing is sent.
LEMMA PackLengthWhole ==
    ASSUME DownloadInv, WholeInv, NEW w \in Workers, PackLength(w)
    PROVE  WholeInv'
<1>1. LooksAt(w) /\ SendsWhole(w)
  BY DEF WholeInv
<1>2. /\ todo' = todo /\ size' = size /\ packets' = packets /\ sendVector' = sendVector
      /\ asked' = asked /\ seen' = seen
      /\ pc[w] \in {"pack", "stamp"} <=> pc'[w] \in {"pack", "stamp"}
      /\ pc[w] # "read" /\ pc'[w] # "read"
  BY DEF PackLength, downloads, DownloadInv, TypeOK
<1>3. OnlyOf(w) /\ Alters(seen, seen', w)
  BY <1>2, PackLengthCrosses DEF PackLength, OnlyOf, Alters
<1>4. Begun(w)' = Begun(w) /\ \A k : AtIt(w, k)' <=> AtIt(w, k)
  BY <1>2 DEF Begun, AtIt
<1>5. LooksAt(w)'
  BY <1>1, <1>2, <1>4 DEF LooksAt
<1>6. SendsWhole(w)'
  BY <1>1, <1>2, <1>4, BegunStay DEF SendsWhole
<1> QED BY <1>3, <1>5, <1>6, WholeStep

\* A frame of another file.
LEMMA OtherFrame ==
    ASSUME NEW w, NEW k, NEW fr, Sending(w, k), ~AtIt(w, k), ~AtIt(w, k)',
           sendVector[w] \in Seq(Frames), fr \in Frames, sendVector'[w] = Append(sendVector[w], fr),
           fr.body # MapList => fr.body.file # asked[w][k],
           asked'[w] = asked[w], seen'[w][k] = seen[w][k]
    PROVE  Sending(w, k)'
<1>1. PICK d, f, S : d = seen[w][k].opened /\ f = asked[w][k] /\ S = Split(f, d.ver, d.len)
  OBVIOUS
<1>2. /\ Len(sendVector'[w]) = Len(sendVector[w]) + 1 /\ Len(sendVector[w]) \in Nat
      /\ \A i \in 1 .. Len(sendVector[w]) : sendVector'[w][i] = sendVector[w][i]
      /\ sendVector'[w][Len(sendVector[w]) + 1] = fr
      /\ DOMAIN sendVector[w] = 1 .. Len(sendVector[w]) /\ DOMAIN sendVector'[w] = 1 .. Len(sendVector'[w])
  <2>1. sendVector'[w] \in Seq(Frames)
    BY Appends
  <2> QED BY <2>1, Appends
<1>3. DOMAIN sendVector'[w] = DOMAIN sendVector[w] \cup {Len(sendVector[w]) + 1}
  BY <1>2
<1>4. FramesOf(w, f)' = FramesOf(w, f)
  BY <1>1, <1>2, <1>3 DEF FramesOf
<1>5. CASE d.ver = 0
  BY <1>1, <1>4, <1>5 DEF Sending
<1>6. CASE d.ver # 0
  <2>1. PICK first \in Nat \ {0}, m \in 0 .. Len(S) : SentPart(w, f, S, first, m) /\ m = Len(S)
    BY <1>1, <1>6 DEF Sending
  <2>2. ASSUME NEW i \in 1 .. m PROVE sendVector'[w][first + i - 1].body = S[i]
    <3>1. m \in Nat
      BY <2>1
    <3>2. first + i - 1 \in first .. first + m - 1
      BY <3>1
    <3>3. first + i - 1 \in DOMAIN sendVector[w]
      BY <2>1, <3>2 DEF SentPart, FramesOf
    <3> QED BY <1>2, <2>1, <3>3 DEF SentPart
  <2>3. SentPart(w, f, S, first, m)'
    BY <1>4, <2>1, <2>2 DEF SentPart
  <2> QED BY <1>1, <1>6, <2>1, <2>3 DEF Sending
<1> QED BY <1>5, <1>6

\* A frame of the file itself.
LEMMA NextFrame ==
    ASSUME DownloadInv, NEW w \in Workers, NEW k, NEW fr, Sending(w, k), pc[w] = "stamp", k = Begun(w),
           asked[w][k] \in Files,
           seen[w][k].opened \in Entries, Begun(w)' = Begun(w),
           sendVector[w] \in Seq(Frames), fr \in Frames, sendVector'[w] = Append(sendVector[w], fr),
           packets[w] \in Seq(Bodies), Len(packets[w]) > 0,
           fr.body = packets[w][1], packets'[w] = Tail(packets[w]),
           pc'[w] = IF Len(packets[w]) > 1 THEN "pack" ELSE "next",
           asked'[w] = asked[w], seen'[w][k] = seen[w][k]
    PROVE  Sending(w, k)'
<1>1. PICK d, f, S, n : d = seen[w][k].opened /\ f = asked[w][k] /\ S = Split(f, d.ver, d.len)
                        /\ n = Len(sendVector[w])
  OBVIOUS
<1>2. AtIt(w, k)
  BY DEF AtIt
<1>3. d.ver # 0
  BY <1>1, <1>2 DEF Sending
<1>4. PICK first \in Nat \ {0}, m \in 0 .. Len(S) : SentPart(w, f, S, first, m) /\ LeftPart(w, S, first, m)
  BY <1>1, <1>2, <1>3 DEF Sending
<1>5. Len(S) \in Nat /\ \A i \in 1 .. Len(S) : S[i] # MapList /\ S[i].file = f
  <2>1. d.ver \in Nat /\ d.len \in Nat
    BY <1>1 DEF Entries
  <2>2. Covered(S, f, d.ver, d.len)
    BY <1>1, <2>1, SplitCovers
  <2> QED BY <2>2 DEF Covered
<1>6. PICK l : l = Len(packets[w]) /\ l \in Nat \ {0}
  OBVIOUS
<1>7. /\ m \in Nat /\ l = Len(S) - m /\ first + m = n + 1 /\ m + 1 \in 0 .. Len(S) /\ m + 1 \in 1 .. Len(S)
      /\ fr.body = S[m + 1]
      /\ \A i \in 1 .. l : packets[w][i] = S[m + i]
  <2>1. /\ m \in Nat /\ l = Len(S) - m /\ first + m = n + 1
        /\ \A i \in 1 .. l : packets[w][i] = S[m + i]
    <3>1. m \in Nat
      BY <1>4, <1>5
    <3>2. /\ first + m = Len(sendVector[w]) + 1
          /\ Len(packets[w]) = Len(S) - m
          /\ \A i \in 1 .. Len(packets[w]) : packets[w][i] = S[m + i]
      BY <1>4 DEF LeftPart
    <3> QED BY ONLY <1>1, <1>6, <3>1, <3>2
  <2>2. m + 1 \in 0 .. Len(S) /\ m + 1 \in 1 .. Len(S) /\ 1 \in 1 .. l
    BY <1>5, <1>6, <2>1
  <2> QED BY <2>1, <2>2
<1>8. /\ Len(sendVector'[w]) = n + 1 /\ n \in Nat
      /\ \A i \in 1 .. n : sendVector'[w][i] = sendVector[w][i]
      /\ sendVector'[w][n + 1] = fr
      /\ DOMAIN sendVector[w] = 1 .. n /\ DOMAIN sendVector'[w] = 1 .. n + 1
  <2>1. sendVector'[w] \in Seq(Frames)
    BY Appends
  <2> QED BY <1>1, <2>1, Appends
<1>9. FramesOf(w, f) = first .. first + m - 1 /\ \A i \in 1 .. m : sendVector[w][first + i - 1].body = S[i]
  BY <1>4 DEF SentPart
<1>10. FramesOf(w, f)' = first .. first + (m + 1) - 1
  <2>1. FramesOf(w, f)' = FramesOf(w, f) \cup {n + 1}
    <3>1. DOMAIN sendVector'[w] = DOMAIN sendVector[w] \cup {n + 1} /\ n + 1 \notin DOMAIN sendVector[w]
      BY <1>8
    <3>2. sendVector'[w][n + 1].body # MapList /\ sendVector'[w][n + 1].body.file = f
      BY <1>5, <1>7, <1>8
    <3>3. \A i \in DOMAIN sendVector[w] : sendVector'[w][i] = sendVector[w][i]
      BY <1>8
    <3> QED BY <3>1, <3>2, <3>3 DEF FramesOf
  <2>2. first .. first + (m + 1) - 1 = (first .. first + m - 1) \cup {n + 1}
    BY <1>7, <1>8
  <2> QED BY <1>9, <2>1, <2>2
<1>11. ASSUME NEW i \in 1 .. m + 1 PROVE sendVector'[w][first + i - 1].body = S[i]
  <2>1. CASE i \in 1 .. m
    <3>1. first + i - 1 \in 1 .. n
      BY <1>7, <1>8, <2>1
    <3> QED BY <1>8, <1>9, <2>1, <3>1
  <2>2. CASE i = m + 1
    <3>1. first + i - 1 = n + 1
      BY <1>7, <1>8, <2>2
    <3> QED BY <1>7, <1>8, <2>2, <3>1
  <2>3. i \in 1 .. m \/ i = m + 1
    <3>1. m \in Nat
      BY <1>7
    <3> QED BY ONLY <3>1, i \in 1 .. m + 1
  <2> QED BY <2>1, <2>2, <2>3
<1>12. SentPart(w, f, S, first, m + 1)'
  BY <1>10, <1>11 DEF SentPart
<1>13. Len(packets'[w]) = l - 1 /\ \A i \in 1 .. l - 1 : packets'[w][i] = packets[w][i + 1]
  <2>1. packets[w] # <<>>
    OBVIOUS
  <2> QED BY <1>6, <2>1, Tails
<1>14. LeftPart(w, S, first, m + 1)'
  <2>1. first + (m + 1) = Len(sendVector'[w]) + 1 /\ Len(packets'[w]) = Len(S) - (m + 1)
    BY <1>5, <1>7, <1>8, <1>13
  <2>2. ASSUME NEW i \in 1 .. l - 1 PROVE packets'[w][i] = S[(m + 1) + i]
    <3>1. i + 1 \in 1 .. l /\ m + (i + 1) = (m + 1) + i
      BY <1>6, <1>7
    <3> QED BY <1>7, <1>13, <3>1
  <2> QED BY <1>13, <2>1, <2>2 DEF LeftPart
<1>15. ~AtIt(w, k)' => m + 1 = Len(S)
  <2>1. ~AtIt(w, k)' => ~(l > 1)
    BY <1>6 DEF AtIt
  <2> QED BY <1>5, <1>6, <1>7, <2>1
<1>16. \E a \in Nat \ {0}, b \in 0 .. Len(S) :
          /\ SentPart(w, f, S, a, b)'
          /\ IF AtIt(w, k)' THEN LeftPart(w, S, a, b)' ELSE b = Len(S)
  BY <1>7, <1>12, <1>14, <1>15
<1>17. (LET d_1 == seen[w][k].opened IN d_1 = d /\ asked[w][k] = f)'
  BY <1>1
<1> QED BY <1>1, <1>3, <1>16, <1>17 DEF Sending

LEMMA PackHeaderWhole ==
    ASSUME DownloadInv, WholeInv, NEW w \in Workers, PackHeader(w)
    PROVE  WholeInv'
<1>1. /\ WorkerInv(w) /\ Types(w) /\ Begun(w) \in Nat /\ data_length \in Nat
      /\ LooksAt(w) /\ SendsWhole(w) /\ Begun(w) + Len(todo[w]) = Len(asked[w])
  BY Unpacked DEF DownloadInv, TypeOK, WholeInv
<1>2. /\ pc[w] = "stamp" /\ packets[w] # <<>> /\ packets[w] \in Seq(Bodies) /\ sendVector[w] \in Seq(Frames)
      /\ asked[w] \in Seq(Files)
  BY <1>1 DEF PackHeader, WorkerInv, AtWork
<1>3. disk' = disk /\ todo' = todo /\ size' = size /\ asked' = asked /\ seen' = seen
  BY DEF PackHeader
<1>4. /\ Head(packets[w]) \in Bodies /\ Head(packets[w]) = packets[w][1] /\ Len(packets[w]) > 0
      /\ 1 \in 1 .. Len(packets[w])
  BY <1>2, Tails
<1>5. PICK fr \in Frames : /\ fr.body = Head(packets[w])
                           /\ sendVector' = [sendVector EXCEPT ![w] = Append(@, fr)]
  <2>1. BodySize(Head(packets[w])) \in Nat
    BY <1>4, BodySizeNat
  <2>2. PICK length \in Nat : sendVector' = [sendVector EXCEPT ![w] =
                                  Append(@, Frame(length, Head(packets[w]), crossed[w]))]
    BY <1>1, <2>1 DEF PackHeader
  <2> DEFINE f == Frame(length, Head(packets[w]), crossed[w])
  <2>3. crossed[w] \in BOOLEAN
    BY Crossings
  <2>4. f \in Frames /\ f.body = Head(packets[w])
    BY <1>4, <2>2, <2>3 DEF Frame, Frames
  <2> HIDE DEF f
  <2> QED BY <2>2, <2>4 DEF f
<1>6. /\ sendVector'[w] = Append(sendVector[w], fr)
      /\ packets'[w] = Tail(packets[w])
      /\ pc'[w] = IF Len(packets[w]) > 1 THEN "pack" ELSE "next"
  BY <1>5 DEF PackHeader, DownloadInv, InTables, TypeOK
<1>7. OnlyOf(w) /\ Alters(seen, seen', w)
  BY <1>5, Crossings DEF PackHeader, OnlyOf, Alters
<1>8. Begun(w)' = Begun(w) /\ \A k : Once(w, k)' <=> Once(w, k)
  BY <1>3 DEF Begun, Once
<1>9. LooksAt(w)'
  BY <1>1, <1>2, <1>3, <1>6, <1>8 DEF LooksAt
<1>10. Of(w, fr.body, Begun(w))
  BY <1>1, <1>4, <1>5 DEF WorkerInv, Waiting
<1>11. ASSUME NEW k \in 1 .. Begun(w), Once(w, k), seen[w][k].opened = seen[w][k].read
       PROVE  Sending(w, k)'
  <2>1. Sending(w, k) /\ k \in 1 .. Len(asked[w])
    <3>1. Len(asked[w]) \in Nat /\ Len(todo[w]) \in Nat
      BY <1>1, <1>2 DEF Types
    <3> QED BY <1>1, <1>11, <3>1 DEF SendsWhole
  <2>2. CASE k = Begun(w)
    <3>1. asked[w][k] \in Files
      BY <1>2, <2>1
    <3>2. seen[w][k].opened \in Entries
      <4>1. seen[w] \in Seq(Looks) /\ k \in 1 .. Len(seen[w])
        BY <1>1, <1>2 DEF LooksAt
      <4>2. seen[w][k] \in Looks
        BY <4>1
      <4> QED BY <4>2 DEF Looks
    <3> QED BY <1>2, <1>3, <1>4, <1>5, <1>6, <1>8, <2>1, <2>2, <3>1, <3>2, NextFrame
  <2>3. CASE k # Begun(w)
    <3>1. ~AtIt(w, k) /\ ~AtIt(w, k)'
      BY <1>8, <2>3 DEF AtIt
    <3>2. fr.body # MapList => fr.body.file # asked[w][k]
      BY <1>10, <1>11, <2>3 DEF Of, Once
    <3> QED BY <1>2, <1>3, <1>5, <1>6, <2>1, <3>1, <3>2, OtherFrame
  <2> QED BY <2>2, <2>3
<1>12. SendsWhole(w)'
  BY <1>3, <1>8, <1>11 DEF SendsWhole
<1> QED BY <1>7, <1>9, <1>12, WholeStep

LEMMA WholeInductive == DownloadInv /\ WholeInv /\ [Next]_vars => WholeInv'
<1> SUFFICES ASSUME DownloadInv, WholeInv, [Next]_vars PROVE WholeInv'
  OBVIOUS
<1>1. CASE Saver \/ UNCHANGED vars
  <2>1. pc' = pc /\ todo' = todo /\ size' = size /\ packets' = packets /\ sendVector' = sendVector
        /\ asked' = asked /\ seen' = seen
    BY <1>1 DEF Saver, SaveOpen, SaveWrite, vars, downloads
  <2>2. \A w \in Workers : LooksAt(w)' /\ SendsWhole(w)'
    BY <2>1, WholeOther DEF WholeInv, Untouched
  <2> QED BY <2>1, <2>2 DEF WholeInv
<1>2. ASSUME NEW w \in Workers,
             \/ MapRequest(w)
             \/ \E files \in Requests[w] : DownloadRequest(w, files)
             \/ Answer(w)
      PROVE  WholeInv'
  BY <1>2, RequestWhole, OpenFileWhole, ReadFileWhole, PackLengthWhole, PackHeaderWhole,
     WriteReplyWhole DEF Answer
<1> QED BY <1>1, <1>2 DEF Next

(* What was noted of the files at their opening and reading decides which  *)
(* frames an answer holds: an inductive invariant (splitToVector).         *)
THEOREM WholeInvariant == Spec => [](DownloadInv /\ WholeInv)
<1> QED BY WholeInit, WholeInductive, DownloadInvariant, PTL DEF Spec

(* A file that no upload rewrote while it was read reaches the client      *)
(* whole, of any size and for any number of workers; one that is not there *)
(* has no frame (hxFile::splitToVector, onReceiveDownloadMapRequest).      *)
THEOREM FilesArriveWhole == Spec => []DownloadsWhole
<1>1. ASSUME DownloadInv, WholeInv PROVE DownloadsWhole
  <2> SUFFICES ASSUME NEW w \in Workers, NEW i \in 1 .. Len(asked[w]), Answered(w, i), Once(w, i),
                      seen[w][i].opened = seen[w][i].read
               PROVE  LET d == seen[w][i].opened
                          places == FramesOf(w, asked[w][i])
                      IN  IF d.ver = 0 THEN places = {} ELSE Delivers(w, places, d.ver, d.len)
    BY DEF DownloadsWhole, Once
  <2>1. LooksAt(w) /\ SendsWhole(w) /\ Types(w) /\ Begun(w) \in Nat /\ asked[w] \in Seq(Files)
    BY <1>1, Unpacked DEF WholeInv, WorkerInv, AtWork
  <2>2. i \in 1 .. Begun(w) /\ ~AtIt(w, i)
    <3>1. CASE pc[w] = "read"
      BY <2>1, <3>1 DEF LooksAt, Answered, AtIt
    <3>2. CASE pc[w] # "read"
      BY <2>1, <3>2 DEF LooksAt, Answered, AtIt
    <3> QED BY <3>1, <3>2
  <2>3. Sending(w, i) /\ asked[w][i] \in Files
    BY <2>1, <2>2 DEF SendsWhole
  <2>4. CASE seen[w][i].opened.ver = 0
    BY <2>3, <2>4 DEF Sending
  <2>5. CASE seen[w][i].opened.ver # 0
    <3>1. PICK d, f : d = seen[w][i].opened /\ f = asked[w][i]
      OBVIOUS
    <3>2. \E first \in Nat \ {0} : SentPart(w, f, Split(f, d.ver, d.len), first, Len(Split(f, d.ver, d.len)))
      BY <2>2, <2>3, <2>5, <3>1 DEF Sending
    <3>3. d.ver \in Nat /\ d.len \in Nat
      <4>1. seen[w] \in Seq(Looks) /\ i \in 1 .. Len(seen[w])
        BY <2>1, <2>2 DEF LooksAt
      <4>2. seen[w][i] \in Looks
        BY <4>1
      <4> QED BY <3>1, <4>2 DEF Looks, Entries
    <3>4. Delivers(w, FramesOf(w, f), d.ver, d.len)
      BY <2>3, <3>1, <3>2, <3>3, AllDelivered
    <3> QED BY <2>5, <3>1, <3>4
  <2> QED BY <2>4, <2>5
<1> QED BY <1>1, WholeInvariant, PTL
=============================================================================
