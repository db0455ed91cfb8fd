--------------------------- MODULE MapUploadProofs ---------------------------
(* Proofs about the upload path: the inductive invariant UploadInv, and    *)
(* from it what is on disk and what stays in memory.                       *)
EXTENDS MapUpload, FiniteSetTheorems, TLAPS

-----------------------------------------------------------------------------
(* Lemmas about the packets of one upload.                                 *)

LEMMA TotalType ==
    ASSUME NEW u \in Uploads
    PROVE  Total(u) \in Nat /\ Total(u) > 0
BY UploadAssumption DEF Total

LEMMA ReceivedDomain ==
    ASSUME NEW u \in Uploads, NEW k \in Nat, k <= Total(u)
    PROVE  DOMAIN Received(u, k) =
               IF Chunks[u] = 0 /\ k > 0 THEN {1} ELSE 0 .. k - 1
<1>1. CASE Chunks[u] = 0
  BY <1>1, UploadAssumption DEF Received, PacketNum, Total
<1>2. CASE Chunks[u] # 0
  BY <1>2, UploadAssumption DEF Received, PacketNum, Total
<1> QED BY <1>1, <1>2

LEMMA ReceivedSize ==
    ASSUME NEW u \in Uploads, NEW k \in Nat, k <= Total(u)
    PROVE  Cardinality(DOMAIN Received(u, k)) = k
<1>1. CASE Chunks[u] = 0 /\ k > 0
  <2>1. k = 1
    BY <1>1, UploadAssumption DEF Total
  <2>2. DOMAIN Received(u, k) = {1}
    BY <1>1, ReceivedDomain
  <2>3. Cardinality({1}) = 1
    BY FS_Singleton
  <2> QED BY <2>1, <2>2, <2>3
<1>2. CASE ~(Chunks[u] = 0 /\ k > 0)
  <2>1. DOMAIN Received(u, k) = 0 .. k - 1
    BY <1>2, ReceivedDomain
  <2>2. Cardinality(0 .. k - 1) = k
    BY FS_Interval
  <2> QED BY <2>1, <2>2
<1> QED BY <1>1, <1>2

LEMMA ReceivedStep ==
    ASSUME NEW u \in Uploads, NEW k \in Nat, k < Total(u)
    PROVE  StorePacket(Received(u, k), PacketNum(u, k), Content(u, k))
               = Received(u, k + 1)
<1> DEFINE A == StorePacket(Received(u, k), PacketNum(u, k), Content(u, k))
           B == Received(u, k + 1)
<1>1. DOMAIN A = DOMAIN B
  <2>1. DOMAIN A = DOMAIN Received(u, k) \cup {PacketNum(u, k)}
    BY DEF StorePacket
  <2>2. DOMAIN Received(u, k) = IF Chunks[u] = 0 /\ k > 0 THEN {1} ELSE 0 .. k - 1
    BY ReceivedDomain, TotalType
  <2>3. DOMAIN B = IF Chunks[u] = 0 THEN {1} ELSE 0 .. k
    BY ReceivedDomain, TotalType
  <2>4. CASE Chunks[u] = 0
    <3>1. k = 0
      BY <2>4 DEF Total
    <3>2. 0 .. k - 1 = {}
      BY <3>1
    <3> QED BY <2>1, <2>2, <2>3, <2>4, <3>1, <3>2 DEF PacketNum
  <2>5. CASE Chunks[u] # 0
    <3>1. DOMAIN A = (0 .. k - 1) \cup {k}
      BY <2>1, <2>2, <2>5 DEF PacketNum
    <3>2. (0 .. k - 1) \cup {k} = 0 .. k
      OBVIOUS
    <3> QED BY <3>1, <3>2, <2>3, <2>5
  <2> QED BY <2>4, <2>5
<1>2. \A i \in DOMAIN B : A[i] = B[i]
  BY <1>1, UploadAssumption DEF StorePacket, Received, PacketNum, Content
<1>3. A = [i \in DOMAIN A |-> A[i]] /\ B = [i \in DOMAIN B |-> B[i]]
  BY DEF StorePacket, Received
<1> QED BY <1>1, <1>2, <1>3

LEMMA AssembledIsBytes ==
    ASSUME NEW u \in Uploads, NEW r,
           r.file_packet_total = Total(u),
           r.file_packets = Received(u, Total(u))
    PROVE  Assembled(r) = Bytes(u)
<1>1. ASSUME NEW i \in 0 .. Total(u) - 1
      PROVE  (IF i \in DOMAIN r.file_packets THEN r.file_packets[i] ELSE Empty)
                 = Content(u, i)
  <2>1. DOMAIN Received(u, Total(u)) =
            IF Chunks[u] = 0 THEN {1} ELSE 0 .. Total(u) - 1
    BY ReceivedDomain, TotalType
  <2>2. CASE Chunks[u] = 0
    BY <2>1, <2>2 DEF Content, Received, Total
  <2>3. CASE Chunks[u] # 0
    BY <2>1, <2>3 DEF Content, Received
  <2> QED BY <2>2, <2>3
<1> QED BY <1>1 DEF Assembled, Bytes

LEMMA ReceivedPieces ==
    ASSUME NEW u \in Uploads, NEW k \in Nat
    PROVE  /\ Received(u, k) \in [DOMAIN Received(u, k) -> Pieces]
           /\ DOMAIN Received(u, k) \subseteq Nat
BY UploadAssumption DEF Received, PacketNum, Pieces, Empty

-----------------------------------------------------------------------------
(* Types, and which worker is busy with what.                              *)

LEMMA SameReceiver ==
    ASSUME NEW f \in Files, HxFileOK(f),
           filesReceiver'[f] = filesReceiver[f], f \in keys' <=> f \in keys
    PROVE  HxFileOK(f)'
BY DEF HxFileOK

LEMMA RacedType ==
    ASSUME raced \in BOOLEAN, NoteRace
    PROVE  raced' \in BOOLEAN
BY Zenon DEF NoteRace

LEMMA NamesType ==
    ASSUME NEW u \in Uploads
    PROVE  MapOf[u] \in Maps /\ FileOf[u] \in Files /\ PathOf(u) \in Paths
BY UploadAssumption DEF PathOf, Paths

LEMMA TypeStep ==
    TypeOK /\ JobsOK /\ [Next]_vars => TypeOK' /\ JobsOK'
<1> SUFFICES ASSUME TypeOK, JobsOK, [Next]_vars
             PROVE  TypeOK' /\ JobsOK'
  OBVIOUS
<1>1. ASSUME NEW u \in Uploads, Deliver(u)
      PROVE  TypeOK' /\ JobsOK'
  <2>1. raced' \in BOOLEAN
    BY <1>1, RacedType DEF TypeOK, Deliver
  <2>2. \A f \in Files : HxFileOK(f)'
    BY <1>1, SameReceiver DEF TypeOK, Deliver, server
  <2>3. TypeOK'
    BY <1>1, <2>1, <2>2, NamesType DEF TypeOK, Deliver, server
  <2>4. JobsOK'
    BY <1>1, TotalType, UploadAssumption DEF TypeOK, JobsOK, Deliver, server
  <2> QED BY <2>3, <2>4
<1>2. ASSUME NEW u \in Uploads, Disconnect(u)
      PROVE  TypeOK' /\ JobsOK'
  <2>1. \A f \in Files : HxFileOK(f)'
    BY <1>2, SameReceiver DEF TypeOK, Disconnect, server
  <2>2. TypeOK'
    BY <1>2, <2>1, NamesType DEF TypeOK, Disconnect, server, threads
  <2>3. JobsOK'
    BY <1>2 DEF TypeOK, JobsOK, Disconnect, server, threads
  <2> QED BY <2>2, <2>3
<1>3. ASSUME NEW u \in Uploads, Reconnect(u)
      PROVE  TypeOK' /\ JobsOK'
  <2>1. \A f \in Files : HxFileOK(f)'
    BY <1>3, SameReceiver DEF TypeOK, Reconnect, server
  <2>2. TypeOK'
    BY <1>3, <2>1 DEF TypeOK, Reconnect, server, threads
  <2>3. JobsOK'
    BY <1>3, TotalType DEF TypeOK, JobsOK, Reconnect, server, threads
  <2> QED BY <2>2, <2>3
<1>4. ASSUME NEW w \in Workers, pc[w] # "idle"
      PROVE  /\ job[w] \in Uploads
             /\ worker[job[w]] = w
             /\ status[job[w]] = "sending"
             /\ FileAt(w) \in Files
             /\ next[job[w]] \in Nat
             /\ next[job[w]] < Total(job[w])
  BY <1>4, NamesType DEF TypeOK, JobsOK, FileAt
<1>5. ASSUME NEW w \in Workers, pc[w] # "idle", Return(w)
      PROVE  /\ pc' \in [Workers -> {"idle", "set", "recv", "open", "write", "erase"}]
             /\ job' \in [Workers -> Uploads \cup {None}]
             /\ status' \in [Uploads -> {"waiting", "sending", "done", "lost"}]
             /\ worker' \in [Uploads -> Workers]
             /\ next' \in [Uploads -> Nat]
             /\ latest' \in [Paths -> Uploads \cup {None}]
             /\ JobsOK'
  <2> DEFINE u == job[w]
  <2>1. u \in Uploads /\ PathOf(u) \in Paths
    BY <1>4, <1>5, NamesType
  <2>2. next' \in [Uploads -> Nat] /\ worker' \in [Uploads -> Workers]
    BY <1>4, <1>5, <2>1 DEF Return, TypeOK
  <2>3. /\ pc' \in [Workers -> {"idle", "set", "recv", "open", "write", "erase"}]
        /\ job' \in [Workers -> Uploads \cup {None}]
    BY <1>5 DEF Return, TypeOK
  <2>4. /\ status' \in [Uploads -> {"waiting", "sending", "done", "lost"}]
        /\ latest' \in [Paths -> Uploads \cup {None}]
    BY <1>5, <2>1 DEF Return, TypeOK
  <2>5. JobsOK'
    <3>1. /\ worker[u] = w /\ status[u] = "sending" /\ None \notin Uploads
          /\ next[u] \in Nat /\ next[u] < Total(u) /\ Total(u) \in Nat
      BY <1>4, <1>5, <2>1, TotalType, UploadAssumption
    <3>2. \A v \in Workers : /\ pc'[v] = IF v = w THEN "idle" ELSE pc[v]
                             /\ job'[v] = IF v = w THEN None ELSE job[v]
      BY <1>5 DEF Return, TypeOK
    <3>3. \A v \in Uploads : next'[v] = IF v = u THEN next[u] + 1 ELSE next[v]
      BY <1>5 DEF Return, TypeOK
    <3>4. \A v \in Uploads : v # u => status'[v] = status[v]
      BY <1>5 DEF Return, TypeOK
    <3>5. status'[u] = IF next[u] + 1 = Total(u) THEN "done" ELSE "sending"
      BY <1>5, <2>1, <3>1 DEF Return, TypeOK
    <3>6. worker' = worker
      BY <1>5 DEF Return
    <3>7. ASSUME NEW v \in Workers
          PROVE  IF pc'[v] = "idle"
                 THEN job'[v] = None
                 ELSE /\ job'[v] \in Uploads
                      /\ worker'[job'[v]] = v
                      /\ status'[job'[v]] = "sending"
      <4>1. CASE v = w
        BY <3>2, <4>1
      <4>2. CASE v # w
        <5>1. pc'[v] = pc[v] /\ job'[v] = job[v]
          BY <3>2, <4>2
        <5>2. IF pc[v] = "idle"
              THEN job[v] = None
              ELSE /\ job[v] \in Uploads
                   /\ worker[job[v]] = v
                   /\ status[job[v]] = "sending"
          BY DEF JobsOK
        <5>3. pc[v] # "idle" => job[v] # u
          BY <3>1, <4>2, <5>2
        <5> QED BY <3>4, <3>6, <5>1, <5>2, <5>3
      <4> QED BY <4>1, <4>2
    <3>8. ASSUME NEW v \in Uploads
          PROVE  /\ status'[v] = "waiting" => next'[v] = 0
                 /\ status'[v] = "sending" => next'[v] < Total(v)
      <4>1. CASE v = u
        BY <3>1, <3>3, <3>5, <4>1
      <4>2. CASE v # u
        <5>1. next'[v] = next[v] /\ status'[v] = status[v]
          BY <3>3, <3>4, <4>2
        <5> QED BY <5>1 DEF JobsOK
      <4> QED BY <4>1, <4>2
    <3> QED BY <3>7, <3>8 DEF JobsOK
  <2> QED BY <2>2, <2>3, <2>4, <2>5
<1>6. ASSUME NEW w \in Workers, SetFileInfo(w)
      PROVE  TypeOK' /\ JobsOK'
  <2>0. PICK u \in Uploads, f \in Files : u = job[w] /\ f = FileAt(w)
    BY <1>4, <1>6 DEF SetFileInfo
  <2>1. f = FileOf[u] /\ pc[w] # "idle"
    BY <1>6, <2>0 DEF SetFileInfo, FileAt
  <2>2. raced' \in BOOLEAN
    BY <1>6, RacedType DEF TypeOK, SetFileInfo
  <2>3. HxFileOK(f)'
    <3>1. filesReceiver'[f] = setFileInfo(filesReceiver[f], u) /\ f \in keys'
      BY <1>6, <2>0 DEF SetFileInfo, TypeOK
    <3>2. HxFileOK(f)
      BY DEF TypeOK
    <3>3. MapOf[u] \in Maps /\ Total(u) \in Nat
      BY NamesType, TotalType
    <3> QED BY <2>1, <3>1, <3>2, <3>3 DEF HxFileOK, setFileInfo
  <2>4. ASSUME NEW g \in Files, g # f
        PROVE  HxFileOK(g)'
    BY <1>6, <2>0, <2>4, SameReceiver DEF SetFileInfo, TypeOK
  <2>5. TypeOK'
    BY <1>6, <2>0, <2>2, <2>3, <2>4 DEF TypeOK, SetFileInfo, clients
  <2>6. JobsOK'
    BY <1>6, <2>1 DEF TypeOK, JobsOK, SetFileInfo, clients
  <2> QED BY <2>5, <2>6
<1>7. ASSUME NEW w \in Workers, Receive(w)
      PROVE  TypeOK' /\ JobsOK'
  <2>0. PICK u \in Uploads, f \in Files : u = job[w] /\ f = FileAt(w)
    BY <1>4, <1>7 DEF Receive
  <2>1. f = FileOf[u] /\ pc[w] # "idle" /\ next[u] \in Nat
    BY <1>4, <1>7, <2>0 DEF Receive, FileAt
  <2> DEFINE r == [filesReceiver[f] EXCEPT !.file_packets =
                     StorePacket(@, PacketNum(u, next[u]), Content(u, next[u]))]
  <2>2. raced' \in BOOLEAN
    BY <1>7, RacedType DEF TypeOK, Receive
  <2>3. HxFileOK(f)'
    <3>1. filesReceiver'[f] = r /\ f \in keys'
      BY <1>7, <2>0 DEF Receive, TypeOK
    <3>2. HxFileOK(f)
      BY DEF TypeOK
    <3>3. PacketNum(u, next[u]) \in Nat /\ Content(u, next[u]) \in Pieces
      BY <2>1 DEF PacketNum, Content, Pieces
    <3>4. DOMAIN filesReceiver[f].file_packets \subseteq Nat
      BY <3>2 DEF HxFileOK
    <3> DEFINE P == StorePacket(filesReceiver[f].file_packets,
                                PacketNum(u, next[u]), Content(u, next[u]))
    <3>5. P \in [DOMAIN P -> Pieces] /\ DOMAIN P \subseteq Nat
      BY <3>2, <3>3, <3>4 DEF HxFileOK, StorePacket
    <3>6. r = [map_name |-> filesReceiver[f].map_name,
               file_name |-> filesReceiver[f].file_name,
               file_packet_total |-> filesReceiver[f].file_packet_total,
               file_packets |-> P]
      <4> HIDE DEF P
      <4>1. r = [filesReceiver[f] EXCEPT !.file_packets = P]
        BY DEF P
      <4> QED BY <4>1, <3>2 DEF HxFileOK
    <3> QED
      <4> HIDE DEF P, r
      <4> QED BY <3>1, <3>2, <3>5, <3>6 DEF HxFileOK
  <2>4. ASSUME NEW g \in Files, g # f
        PROVE  HxFileOK(g)'
    <3>1. filesReceiver'[g] = filesReceiver[g] /\ (g \in keys' <=> g \in keys)
      BY <1>7, <2>0, <2>4 DEF Receive, TypeOK
    <3> QED BY <3>1, SameReceiver DEF TypeOK
  <2>5. /\ DOMAIN filesReceiver' = Files
        /\ keys' \subseteq Files
        /\ DOMAIN disk' = Paths
        /\ up' \in BOOLEAN
        /\ spoiled' \subseteq Files
        /\ cut' \subseteq Paths
    BY <1>7, <2>0 DEF Receive, TypeOK
  <2>6. CASE Return(w)
    BY <2>1, <2>2, <2>3, <2>4, <2>5, <2>6, <1>5 DEF TypeOK
  <2>7. CASE pc' = [pc EXCEPT ![w] = "open"] /\ UNCHANGED <<job, clients, latest>>
    <3>1. TypeOK'
      BY <2>2, <2>3, <2>4, <2>5, <2>7 DEF TypeOK, clients
    <3>2. JobsOK'
      BY <2>1, <2>7 DEF TypeOK, JobsOK, clients
    <3> QED BY <3>1, <3>2
  <2>8. \/ Return(w)
        \/ pc' = [pc EXCEPT ![w] = "open"] /\ UNCHANGED <<job, clients, latest>>
    BY <1>7 DEF Receive
  <2> QED BY <2>6, <2>7, <2>8
<1>8. ASSUME NEW w \in Workers, OpenFile(w)
      PROVE  TypeOK' /\ JobsOK'
  <2>1. pc[w] # "idle"
    BY <1>8 DEF OpenFile
  <2>2. raced' \in BOOLEAN
    BY <1>8, RacedType DEF TypeOK, OpenFile
  <2>3. \A f \in Files : HxFileOK(f)'
    BY <1>8, SameReceiver DEF TypeOK, OpenFile
  <2>4. TypeOK'
    BY <1>8, <2>2, <2>3 DEF TypeOK, OpenFile, clients
  <2>5. JobsOK'
    BY <1>8, <2>1 DEF TypeOK, JobsOK, OpenFile, clients
  <2> QED BY <2>4, <2>5
<1>9. ASSUME NEW w \in Workers, OpenFails(w)
      PROVE  TypeOK' /\ JobsOK'
  <2>1. pc[w] # "idle" /\ FileAt(w) \in Files
    BY <1>9, <1>4 DEF OpenFails
  <2>2. raced' \in BOOLEAN
    BY <1>9, RacedType DEF TypeOK, OpenFails
  <2>3. \A f \in Files : HxFileOK(f)'
    BY <1>9, SameReceiver DEF TypeOK, OpenFails, server
  <2> QED BY <1>9, <1>5, <2>1, <2>2, <2>3 DEF TypeOK, OpenFails, server
<1>10. ASSUME NEW w \in Workers, WriteFile(w) \/ WriteFails(w)
       PROVE  TypeOK' /\ JobsOK'
  <2>1. PICK f \in Files : pc[w] # "idle" /\ f = FileAt(w)
    BY <1>10, <1>4 DEF WriteFile, WriteFails
  <2>2. raced' \in BOOLEAN
    BY <1>10, RacedType DEF TypeOK, WriteFile, WriteFails
  <2>3. HxFileOK(f)'
    <3>1. filesReceiver'[f] = [filesReceiver[f] EXCEPT !.file_packets = NoPackets]
      BY <1>10, <2>1 DEF WriteFile, WriteFails, TypeOK
    <3>2. NoPackets \in [DOMAIN NoPackets -> Pieces] /\ DOMAIN NoPackets \subseteq Nat
      BY DEF NoPackets
    <3>3. keys' = keys /\ filesReceiver[f].file_name # NoName
      BY <1>10, <2>1 DEF WriteFile, WriteFails
    <3>4. f \in keys
      BY <2>1, <3>3 DEF TypeOK, HxFileOK, NewFile
    <3>5. HxFileOK(f)
      BY <2>1 DEF TypeOK
    <3> QED BY <3>1, <3>2, <3>3, <3>4, <3>5 DEF HxFileOK
  <2>4. ASSUME NEW g \in Files, g # f
        PROVE  HxFileOK(g)'
    BY <1>10, <2>1, <2>4, SameReceiver DEF WriteFile, WriteFails, TypeOK
  <2>5. cut' \subseteq Paths
    <3>1. HxFileOK(f) /\ filesReceiver[f].file_name # NoName
      BY <1>10, <2>1 DEF WriteFile, WriteFails, TypeOK
    <3>2. <<filesReceiver[f].map_name, filesReceiver[f].file_name>> \in Paths
      BY <3>1 DEF HxFileOK, Paths
    <3> QED BY <1>10, <2>1, <3>2 DEF WriteFile, WriteFails, TypeOK
  <2>6. /\ keys' \subseteq Files /\ DOMAIN filesReceiver' = Files /\ DOMAIN disk' = Paths
        /\ UNCHANGED <<job, clients, up, spoiled, latest>>
        /\ pc' = [pc EXCEPT ![w] = "erase"]
    BY <1>10 DEF WriteFile, WriteFails, TypeOK
  <2>7. TypeOK'
    BY <2>1, <2>2, <2>3, <2>4, <2>5, <2>6 DEF TypeOK, clients
  <2>8. JobsOK'
    BY <2>1, <2>6 DEF TypeOK, JobsOK, clients
  <2> QED BY <2>7, <2>8
<1>11. ASSUME NEW w \in Workers, Erase(w)
       PROVE  TypeOK' /\ JobsOK'
  <2>1. PICK f \in Files : pc[w] # "idle" /\ f = FileAt(w)
    BY <1>11, <1>4 DEF Erase
  <2>2. raced' \in BOOLEAN
    BY <1>11, RacedType DEF TypeOK, Erase
  <2>3. HxFileOK(f)'
    <3>1. filesReceiver'[f] = NewFile /\ f \notin keys'
      BY <1>11, <2>1 DEF Erase, TypeOK
    <3> QED BY <3>1 DEF HxFileOK, NewFile, NoPackets
  <2>4. ASSUME NEW g \in Files, g # f
        PROVE  HxFileOK(g)'
    BY <1>11, <2>1, <2>4, SameReceiver DEF Erase, TypeOK
  <2> QED BY <1>11, <1>5, <2>1, <2>2, <2>3, <2>4 DEF TypeOK, Erase
<1>12. ASSUME NEW w \in Workers, LostInsertion(w)
       PROVE  TypeOK' /\ JobsOK'
  <2>1. pc[w] # "idle"
    BY <1>12 DEF LostInsertion
  <2>2. raced' \in BOOLEAN
    BY <1>12, RacedType DEF TypeOK, LostInsertion
  <2>3. \A f \in Files : HxFileOK(f)'
    BY <1>12, SameReceiver DEF TypeOK, LostInsertion, server
  <2>4. CASE Return(w)
    BY <1>12, <1>5, <2>1, <2>2, <2>3, <2>4 DEF TypeOK, LostInsertion, server
  <2>5. CASE pc' = [pc EXCEPT ![w] = "recv"] /\ UNCHANGED <<job, clients, latest>>
    <3>1. TypeOK'
      BY <1>12, <2>2, <2>3, <2>5 DEF TypeOK, LostInsertion, server, clients
    <3>2. JobsOK'
      BY <2>1, <2>5 DEF TypeOK, JobsOK, clients
    <3> QED BY <3>1, <3>2
  <2> QED BY <1>12, <2>4, <2>5 DEF LostInsertion
<1>13. CASE Crash \/ UNCHANGED vars
  <2>1. \A f \in Files : HxFileOK(f)'
    BY <1>13, SameReceiver DEF TypeOK, Crash, server, vars
  <2>2. TypeOK'
    BY <1>13, <2>1 DEF TypeOK, Crash, vars, server, threads, clients
  <2>3. JobsOK'
    BY <1>13 DEF JobsOK, Crash, vars, server, threads, clients
  <2> QED BY <2>2, <2>3
<1> QED
  BY <1>1, <1>2, <1>3, <1>6, <1>7, <1>8, <1>9, <1>10, <1>11, <1>12, <1>13
  DEF Next, Handler

-----------------------------------------------------------------------------
(* The history variable raced remembers every race.                        *)

LEMMA RaceStep ==
    (Race => raced) /\ [Next]_vars => (Race => raced)' /\ (raced => raced')
<1> SUFFICES ASSUME Race => raced, [Next]_vars
             PROVE  (Race => raced)' /\ (raced => raced')
  OBVIOUS
<1>1. CASE NoteRace
  BY <1>1, Zenon DEF NoteRace
<1>2. CASE UNCHANGED <<keys, filesReceiver, pc, job, raced>>
  <2>1. Race' = Race
    BY <1>2 DEF Race, Racing, Conflict, Reads, Writes, FileAt
  <2> QED BY <1>2, <2>1
<1>3. NoteRace \/ UNCHANGED <<keys, filesReceiver, pc, job, raced>>
  BY DEF Next, Handler, Deliver, Disconnect, Reconnect, SetFileInfo, Receive,
         OpenFile, OpenFails, WriteFile, WriteFails, Erase, LostInsertion, Crash, vars,
         server, threads
<1> QED BY <1>1, <1>2, <1>3

-----------------------------------------------------------------------------
(* A step that leaves the receiver, the paths and the uploads of a file    *)
(* name alone leaves that file clean.                                      *)

LEMMA Frame ==
    ASSUME NEW f \in Files, CleanFile(f),
           f \in keys' <=> f \in keys,
           filesReceiver'[f] = filesReceiver[f],
           \A m \in Maps : /\ disk'[<<m, f>>] = disk[<<m, f>>]
                           /\ latest'[<<m, f>>] = latest[<<m, f>>]
                           /\ <<m, f>> \in cut' <=> <<m, f>> \in cut,
           \A v \in Uploads : FileOf[v] = f =>
               /\ status'[v] = "sending" <=> status[v] = "sending"
               /\ status[v] = "sending" =>
                      /\ next'[v] = next[v]
                      /\ worker'[v] = worker[v]
                      /\ job'[worker[v]] = v <=> job[worker[v]] = v
                      /\ job[worker[v]] = v => pc'[worker[v]] = pc[worker[v]]
    PROVE  CleanFile(f)'
<1>1. ASSUME NEW v \in Uploads, FileOf[v] = f, status'[v] = "sending"
      PROVE  Progress(v)'
  <2>1. Progress(v) /\ status[v] = "sending"
    BY <1>1 DEF CleanFile
  <2>2. \A k : Holds(v, k) => Holds(v, k)'
    BY <1>1 DEF Holds
  <2>3. job'[worker'[v]] = v <=> job[worker[v]] = v
    BY <1>1, <2>1
  <2>4. next'[v] = next[v]
    BY <1>1, <2>1
  <2>5. disk'[PathOf(v)] = disk[PathOf(v)] /\ (PathOf(v) \in cut' <=> PathOf(v) \in cut)
    BY <1>1, NamesType DEF PathOf
  <2>6. CASE job[worker[v]] = v
    <3>1. pc'[worker'[v]] = pc[worker[v]]
      BY <1>1, <2>1, <2>6
    <3>2. HandlerProgress(v, pc[worker[v]])
      BY <2>1, <2>6 DEF Progress
    <3>3. \A t : HandlerProgress(v, t) => HandlerProgress(v, t)'
      BY <1>1, <2>2, <2>4, <2>5 DEF HandlerProgress
    <3> QED BY <2>3, <2>6, <3>1, <3>2, <3>3 DEF Progress
  <2>7. CASE job[worker[v]] # v
    BY <2>1, <2>2, <2>3, <2>4, <2>7 DEF Progress
  <2> QED BY <2>6, <2>7
<1>2. ASSUME NEW m \in Maps
      PROVE  DiskOK(<<m, f>>)'
  <2>1. DiskOK(<<m, f>>)
    BY DEF CleanFile
  <2>2. CASE \/ <<m, f>> \in cut
             \/ disk[<<m, f>>] = IF latest[<<m, f>>] = None THEN <<>>
                                 ELSE Bytes(latest[<<m, f>>])
    BY <2>2 DEF DiskOK
  <2>3. ASSUME NEW v \in Uploads, PathOf(v) = <<m, f>>, status[v] = "sending",
               job[worker[v]] = v, pc[worker[v]] \in {"write", "erase"}
        PROVE  DiskOK(<<m, f>>)'
    <3>1. FileOf[v] = f
      BY <2>3 DEF PathOf
    <3> QED BY <2>3, <3>1 DEF DiskOK
  <2> QED BY <2>1, <2>2, <2>3 DEF DiskOK
<1>3. f \in keys' => \E v \in Uploads : FileOf[v] = f /\ status'[v] = "sending"
  BY DEF CleanFile
<1>4. \A u, v \in Uploads :
        (FileOf[u] = f /\ FileOf[v] = f /\ status'[u] = "sending"
          /\ status'[v] = "sending") => u = v
  BY DEF CleanFile
<1> QED BY <1>1, <1>2, <1>3, <1>4 DEF CleanFile

-----------------------------------------------------------------------------
(* Every step keeps a file name clean that it does not spoil.              *)

LEMMA BusyWorker ==
    ASSUME TypeOK, JobsOK, NEW w \in Workers, pc[w] # "idle"
    PROVE  /\ job[w] \in Uploads
           /\ worker[job[w]] = w
           /\ status[job[w]] = "sending"
           /\ FileAt(w) \in Files
           /\ FileAt(w) = FileOf[job[w]]
           /\ next[job[w]] \in Nat
           /\ next[job[w]] < Total(job[w])
BY NamesType DEF TypeOK, JobsOK, FileAt

LEMMA CleanDeliver ==
    ASSUME TypeOK, JobsOK, NEW u \in Uploads, Deliver(u),
           NEW f \in Files, f \notin spoiled', CleanFile(f)
    PROVE  CleanFile(f)'
<1> DEFINE w == worker[u]
<1>1. /\ w \in Workers /\ pc[w] = "idle" /\ job[w] = None
      /\ pc' = [pc EXCEPT ![w] = "set"] /\ job' = [job EXCEPT ![w] = u]
      /\ status' = [status EXCEPT ![u] = "sending"]
      /\ UNCHANGED <<keys, filesReceiver, disk, worker, next, latest, cut>>
  BY DEF Deliver, TypeOK, JobsOK, server
<1>2. None \notin Uploads
  BY UploadAssumption
<1>3. \A v \in Uploads : v # u =>
        /\ status'[v] = status[v]
        /\ job'[worker[v]] = v <=> job[worker[v]] = v
        /\ job[worker[v]] = v => pc'[worker[v]] = pc[worker[v]]
  BY <1>1, <1>2 DEF TypeOK
<1>4. CASE FileOf[u] # f
  BY <1>1, <1>3, <1>4, Frame
<1>5. CASE FileOf[u] = f
  <2>1. \A v \in Uploads : (FileOf[v] = f /\ v # u) => status[v] # "sending"
    BY <1>5 DEF Deliver, Overlaps
  <2>2. \A v \in Uploads : (FileOf[v] = f /\ status'[v] = "sending") => v = u
    BY <1>3, <2>1
  <2>3. Progress(u)'
    <3>1. job'[worker'[u]] = u /\ pc'[worker'[u]] = "set" /\ next'[u] = next[u]
      BY <1>1 DEF TypeOK
    <3>2. CASE status[u] = "sending"
      <4>1. next[u] > 0 /\ Holds(u, next[u])
        BY <1>1, <1>2, <1>5, <3>2 DEF CleanFile, Progress
      <4>2. Holds(u, next[u])'
        BY <4>1, <1>1 DEF Holds
      <4> QED BY <3>1, <4>1, <4>2, <1>1 DEF Progress, HandlerProgress
    <3>3. CASE status[u] = "waiting"
      <4>1. next[u] = 0
        BY <3>3 DEF JobsOK
      <4>2. f \notin keys
        BY <2>1, <3>3 DEF CleanFile
      <4> QED BY <3>1, <4>1, <4>2, <1>1, <1>5 DEF Progress, HandlerProgress
    <3> QED BY <3>2, <3>3 DEF Deliver
  <2>4. f \in keys' => \E v \in Uploads : FileOf[v] = f /\ status'[v] = "sending"
    BY <1>1, <1>5 DEF TypeOK
  <2>5. ASSUME NEW m \in Maps
        PROVE  DiskOK(<<m, f>>)'
    <3>1. DiskOK(<<m, f>>)
      BY DEF CleanFile
    <3>2. ASSUME NEW v \in Uploads, PathOf(v) = <<m, f>>, status[v] = "sending",
                 job[worker[v]] = v, pc[worker[v]] \in {"write", "erase"}
          PROVE  FALSE
      BY <3>2, <1>1, <1>2, <2>1 DEF PathOf
    <3> QED BY <1>1, <3>1, <3>2 DEF DiskOK
  <2> QED BY <2>2, <2>3, <2>4, <2>5 DEF CleanFile
<1> QED BY <1>4, <1>5

LEMMA CleanDisconnect ==
    ASSUME TypeOK, NEW u \in Uploads, Disconnect(u),
           NEW f \in Files, f \notin spoiled', CleanFile(f)
    PROVE  CleanFile(f)'
<1>1. FileOf[u] # f
  BY DEF Disconnect
<1> QED BY <1>1, Frame DEF Disconnect, TypeOK, server, threads

LEMMA CleanReconnect ==
    ASSUME TypeOK, NEW u \in Uploads, Reconnect(u),
           NEW f \in Files, CleanFile(f)
    PROVE  CleanFile(f)'
BY Frame DEF Reconnect, TypeOK, server, threads

\* A handler step of another file name.
LEMMA CleanOther ==
    ASSUME TypeOK, JobsOK, NEW w \in Workers, pc[w] # "idle", Handler(w),
           NEW f \in Files, f # FileAt(w), CleanFile(f)
    PROVE  CleanFile(f)'
<1> DEFINE u == job[w]
<1>1. /\ u \in Uploads /\ worker[u] = w /\ FileOf[u] # f
      /\ FileAt(w) \in Files
  BY BusyWorker
<1>2. f \in keys' <=> f \in keys
  BY DEF Handler, SetFileInfo, Receive, OpenFile, OpenFails, WriteFile, WriteFails, Erase, server
<1>3. filesReceiver'[f] = filesReceiver[f]
  BY DEF Handler, SetFileInfo, Receive, OpenFile, OpenFails, WriteFile, WriteFails, Erase, server, TypeOK
<1>4. \A m \in Maps : disk'[<<m, f>>] = disk[<<m, f>>] /\ (<<m, f>> \in cut' <=> <<m, f>> \in cut)
  <2>1. filesReceiver[FileAt(w)].file_name # NoName =>
            filesReceiver[FileAt(w)].file_name = FileAt(w)
    BY <1>1 DEF TypeOK, HxFileOK
  <2>2. CASE UNCHANGED <<disk, cut>>
    BY <2>2
  <2>3. ASSUME NEW x, LET r == filesReceiver[FileAt(w)]
                          p == <<r.map_name, r.file_name>>
                      IN
                      /\ r.file_name # NoName
                      /\ disk' = [disk EXCEPT ![p] = x]
                      /\ cut' \in {cut, cut \ {p}, cut \cup {p}}
        PROVE  \A m \in Maps : disk'[<<m, f>>] = disk[<<m, f>>] /\ (<<m, f>> \in cut' <=> <<m, f>> \in cut)
    BY <2>1, <2>3 DEF TypeOK, Paths
  <2> QED BY <2>2, <2>3
    DEF Handler, SetFileInfo, Receive, OpenFile, OpenFails, WriteFile, WriteFails, Erase, server
<1>5. /\ worker' = worker
      /\ \A v \in Uploads : v # u => next'[v] = next[v] /\ status'[v] = status[v]
      /\ \A x \in Workers : x # w => job'[x] = job[x] /\ pc'[x] = pc[x]
      /\ job'[w] \in {u, None}
      /\ \A m \in Maps : latest'[<<m, f>>] = latest[<<m, f>>]
  <2>1. CASE Return(w)
    BY <1>1, <2>1 DEF Return, TypeOK, PathOf, Paths
  <2>2. CASE /\ \A x \in Workers : x # w => pc'[x] = pc[x]
             /\ UNCHANGED <<job, clients, latest>>
    BY <2>2 DEF clients
  <2>3. \/ Return(w)
        \/ /\ \A x \in Workers : x # w => pc'[x] = pc[x]
           /\ UNCHANGED <<job, clients, latest>>
    BY DEF Handler, SetFileInfo, Receive, OpenFile, OpenFails, WriteFile, WriteFails, Erase,
           clients, TypeOK
  <2> QED BY <2>1, <2>2, <2>3
<1>6. \A v \in Uploads : FileOf[v] = f =>
        /\ v # u
        /\ job'[worker[v]] = v <=> job[worker[v]] = v
        /\ job[worker[v]] = v => pc'[worker[v]] = pc[worker[v]]
  BY <1>1, <1>5, UploadAssumption DEF TypeOK
<1> QED BY <1>2, <1>3, <1>4, <1>5, <1>6, Frame

\* The handler is busy with the only upload of its file name.
LEMMA OnlySender ==
    ASSUME TypeOK, JobsOK, NEW w \in Workers, pc[w] # "idle",
           CleanFile(FileAt(w))
    PROVE  /\ HandlerProgress(job[w], pc[w])
           /\ \A v \in Uploads :
                 (FileOf[v] = FileAt(w) /\ status[v] = "sending") => v = job[w]
<1>1. /\ job[w] \in Uploads /\ worker[job[w]] = w /\ status[job[w]] = "sending"
      /\ FileOf[job[w]] = FileAt(w)
  BY BusyWorker
<1>2. Progress(job[w])
  BY <1>1 DEF CleanFile
<1> QED BY <1>1, <1>2 DEF CleanFile, Progress

LEMMA CleanSetFileInfo ==
    ASSUME TypeOK, JobsOK, NEW w \in Workers, SetFileInfo(w),
           NEW f \in Files, f = FileAt(w), CleanFile(f)
    PROVE  CleanFile(f)'
<1>1. PICK u \in Uploads, k \in Nat :
        /\ u = job[w] /\ worker[u] = w /\ FileOf[u] = f
        /\ status[u] = "sending" /\ next[u] = k
  BY BusyWorker DEF SetFileInfo
<1>2. /\ HandlerProgress(u, "set")
      /\ \A v \in Uploads : (FileOf[v] = f /\ status[v] = "sending") => v = u
  BY <1>1, OnlySender DEF SetFileInfo
<1>3. /\ keys' = keys \cup {f}
      /\ filesReceiver'[f] = setFileInfo(filesReceiver[f], u)
      /\ pc'[w] = "recv"
      /\ UNCHANGED <<disk, job, status, worker, latest, cut>>
      /\ next'[u] = k
  BY <1>1 DEF SetFileInfo, TypeOK, clients
<1>4. Holds(u, k)'
  <2>1. CASE k = 0 /\ f \notin keys
    <3>1. filesReceiver[f] = NewFile
      BY <2>1 DEF TypeOK, HxFileOK
    <3>2. Received(u, 0) = NoPackets
      <4>1. DOMAIN Received(u, 0) = {}
        BY DEF Received
      <4> QED BY <4>1 DEF Received, NoPackets
    <3>3. setFileInfo(NewFile, u) =
              [map_name          |-> MapOf[u],
               file_name         |-> FileOf[u],
               file_packet_total |-> Total(u),
               file_packets      |-> NoPackets]
      BY DEF setFileInfo, NewFile
    <3> QED BY <1>1, <1>3, <2>1, <3>1, <3>2, <3>3 DEF Holds
  <2>2. CASE Holds(u, k)
    <3>1. f # NoName
      BY UploadAssumption
    <3> QED BY <1>1, <1>3, <2>2, <3>1 DEF Holds, setFileInfo
  <2> QED BY <1>1, <1>2, <2>1, <2>2 DEF HandlerProgress
<1>5. Progress(u)'
  BY <1>1, <1>3, <1>4 DEF Progress, HandlerProgress
<1>6. ASSUME NEW m \in Maps
      PROVE  DiskOK(<<m, f>>)'
  <2>1. DiskOK(<<m, f>>)
    BY DEF CleanFile
  <2>2. ASSUME NEW v \in Uploads, PathOf(v) = <<m, f>>, status[v] = "sending",
               job[worker[v]] = v, pc[worker[v]] \in {"write", "erase"}
        PROVE  FALSE
    BY <1>1, <1>2, <2>2 DEF PathOf, SetFileInfo
  <2> QED BY <1>3, <2>1, <2>2 DEF DiskOK
<1> QED BY <1>1, <1>2, <1>3, <1>5, <1>6 DEF CleanFile

LEMMA CleanReceive ==
    ASSUME TypeOK, JobsOK, NEW w \in Workers, Receive(w),
           NEW f \in Files, f = FileAt(w), CleanFile(f)
    PROVE  CleanFile(f)'
<1>1. PICK u \in Uploads, k \in Nat :
        /\ u = job[w] /\ worker[u] = w /\ FileOf[u] = f
        /\ status[u] = "sending" /\ next[u] = k /\ k < Total(u)
  BY BusyWorker DEF Receive
<1>2. /\ Holds(u, k)
      /\ \A v \in Uploads : (FileOf[v] = f /\ status[v] = "sending") => v = u
  BY <1>1, OnlySender DEF Receive, HandlerProgress
<1> DEFINE r == [map_name          |-> MapOf[u],
                 file_name         |-> f,
                 file_packet_total |-> Total(u),
                 file_packets      |-> Received(u, k + 1)]
<1>3. [filesReceiver[f] EXCEPT !.file_packets =
           StorePacket(@, PacketNum(u, k), Content(u, k))] = r
  BY <1>1, <1>2, ReceivedStep DEF Holds
<1>4. Incomplete(r) <=> k + 1 < Total(u)
  <2>1. k + 1 <= Total(u) /\ k + 1 \in Nat
    BY <1>1, TotalType
  <2>2. Cardinality(DOMAIN Received(u, k + 1)) = k + 1
    BY <2>1, ReceivedSize
  <2> QED BY <2>2 DEF Incomplete
<1>5. /\ keys' = keys \cup {f}
      /\ filesReceiver'[f] = r
      /\ IF Incomplete(r)
         THEN Return(w)
         ELSE pc' = [pc EXCEPT ![w] = "open"] /\ UNCHANGED <<job, clients, latest>>
      /\ disk' = disk /\ cut' = cut
  <2> HIDE DEF r
  <2> QED BY <1>1, <1>3 DEF Receive, TypeOK
<1>6. /\ UNCHANGED <<status, worker, latest>>
      /\ Progress(u)'
  <2>1. CASE k + 1 < Total(u)
    <3>1. Return(w)
      BY <1>4, <1>5, <2>1
    <3>2. UNCHANGED <<status, worker, latest>> /\ next'[u] = k + 1 /\ job'[w] = None
      BY <1>1, <2>1, <3>1, TotalType DEF Return, TypeOK
    <3>3. Holds(u, k + 1)'
      BY <1>1, <1>5, <3>2 DEF Holds
    <3> QED BY <1>1, <3>2, <3>3, UploadAssumption DEF Progress
  <2>2. CASE ~(k + 1 < Total(u))
    <3>1. k + 1 = Total(u)
      BY <1>1, <2>2, TotalType
    <3>2. pc'[w] = "open" /\ UNCHANGED <<job, status, worker, latest>> /\ next'[u] = k
      BY <1>1, <1>4, <1>5, <2>2 DEF clients, TypeOK
    <3>3. Holds(u, Total(u))'
      BY <1>1, <1>5, <3>1 DEF Holds
    <3> QED BY <1>1, <3>1, <3>2, <3>3 DEF Progress, HandlerProgress
  <2> QED BY <2>1, <2>2
<1>7. ASSUME NEW m \in Maps
      PROVE  DiskOK(<<m, f>>)'
  <2>1. DiskOK(<<m, f>>)
    BY DEF CleanFile
  <2>2. ASSUME NEW v \in Uploads, PathOf(v) = <<m, f>>, status[v] = "sending",
               job[worker[v]] = v, pc[worker[v]] \in {"write", "erase"}
        PROVE  FALSE
    BY <1>1, <1>2, <2>2 DEF PathOf, Receive
  <2> QED BY <1>5, <1>6, <2>1, <2>2 DEF DiskOK
<1> QED BY <1>1, <1>2, <1>5, <1>6, <1>7 DEF CleanFile

LEMMA CleanOpenFile ==
    ASSUME TypeOK, JobsOK, NEW w \in Workers, OpenFile(w),
           NEW f \in Files, f = FileAt(w), CleanFile(f)
    PROVE  CleanFile(f)'
<1>1. PICK u \in Uploads : u = job[w] /\ worker[u] = w /\ FileOf[u] = f
                           /\ status[u] = "sending" /\ next[u] \in Nat
  BY BusyWorker DEF OpenFile
<1>2. /\ Holds(u, Total(u)) /\ next[u] + 1 = Total(u)
      /\ \A v \in Uploads : (FileOf[v] = f /\ status[v] = "sending") => v = u
  BY <1>1, OnlySender DEF OpenFile, HandlerProgress
<1>3. /\ disk' = [disk EXCEPT ![PathOf(u)] = <<>>]
      /\ pc'[w] = "write"
      /\ UNCHANGED <<keys, filesReceiver, job, status, worker, next, latest, cut>>
  BY <1>1, <1>2 DEF OpenFile, TypeOK, clients, Holds, PathOf
<1>4. Progress(u)'
  BY <1>1, <1>2, <1>3 DEF Progress, HandlerProgress, Holds
<1>5. ASSUME NEW m \in Maps
      PROVE  DiskOK(<<m, f>>)'
  <2>1. DiskOK(<<m, f>>)
    BY DEF CleanFile
  <2>2. CASE PathOf(u) = <<m, f>>
    BY <1>1, <1>3, <2>2 DEF DiskOK
  <2>3. CASE PathOf(u) # <<m, f>>
    <3>1. ASSUME NEW v \in Uploads, PathOf(v) = <<m, f>>, status[v] = "sending"
          PROVE  FALSE
      BY <1>2, <2>3, <3>1 DEF PathOf
    <3>2. disk'[<<m, f>>] = disk[<<m, f>>]
      BY <1>3, <2>3 DEF TypeOK, Paths
    <3> QED BY <1>3, <2>1, <3>1, <3>2 DEF DiskOK
  <2> QED BY <2>2, <2>3
<1> QED BY <1>1, <1>2, <1>3, <1>4, <1>5 DEF CleanFile

LEMMA CleanWriteFile ==
    ASSUME TypeOK, JobsOK, NEW w \in Workers, WriteFile(w),
           NEW f \in Files, f = FileAt(w), CleanFile(f)
    PROVE  CleanFile(f)'
<1>1. PICK u \in Uploads : u = job[w] /\ worker[u] = w /\ FileOf[u] = f
                           /\ status[u] = "sending" /\ next[u] \in Nat
  BY BusyWorker DEF WriteFile
<1>2. /\ Holds(u, Total(u)) /\ next[u] + 1 = Total(u)
      /\ \A v \in Uploads : (FileOf[v] = f /\ status[v] = "sending") => v = u
  BY <1>1, OnlySender DEF WriteFile, HandlerProgress
<1>3. Assembled(filesReceiver[f]) = Bytes(u)
  BY <1>1, <1>2, AssembledIsBytes DEF Holds
<1>4. /\ disk' = [disk EXCEPT ![PathOf(u)] = Bytes(u)]
      /\ pc'[w] = "erase"
      /\ UNCHANGED <<keys, job, status, worker, next, latest>>
      /\ cut' = cut \ {PathOf(u)}
  <2>1. <<filesReceiver[f].map_name, filesReceiver[f].file_name>> = PathOf(u)
    BY <1>1, <1>2 DEF Holds, PathOf
  <2>2. disk' = [disk EXCEPT ![PathOf(u)] = Bytes(u)] /\ cut' = cut \ {PathOf(u)}
    BY <1>1, <1>3, <2>1 DEF WriteFile
  <2> QED BY <2>2 DEF WriteFile, TypeOK, clients
<1>5. disk'[PathOf(u)] = Bytes(u)
  BY <1>4, NamesType DEF TypeOK
<1>6. Progress(u)'
  BY <1>1, <1>2, <1>4, <1>5 DEF Progress, HandlerProgress
<1>7. ASSUME NEW m \in Maps
      PROVE  DiskOK(<<m, f>>)'
  <2>1. DiskOK(<<m, f>>)
    BY DEF CleanFile
  <2>2. CASE PathOf(u) = <<m, f>>
    BY <1>1, <1>4, <2>2 DEF DiskOK
  <2>3. CASE PathOf(u) # <<m, f>>
    <3>1. ASSUME NEW v \in Uploads, PathOf(v) = <<m, f>>, status[v] = "sending"
          PROVE  FALSE
      BY <1>2, <2>3, <3>1 DEF PathOf
    <3>2. disk'[<<m, f>>] = disk[<<m, f>>]
      BY <1>4, <2>3 DEF TypeOK, Paths
    <3> QED BY <1>4, <2>1, <2>3, <3>1, <3>2 DEF DiskOK
  <2> QED BY <2>2, <2>3
<1> QED BY <1>1, <1>2, <1>4, <1>6, <1>7 DEF CleanFile

LEMMA CleanWriteFails ==
    ASSUME TypeOK, JobsOK, NEW w \in Workers, WriteFails(w),
           NEW f \in Files, f = FileAt(w), CleanFile(f)
    PROVE  CleanFile(f)'
<1>1. PICK u \in Uploads : u = job[w] /\ worker[u] = w /\ FileOf[u] = f
                           /\ status[u] = "sending" /\ next[u] \in Nat
  BY BusyWorker DEF WriteFails
<1>2. /\ Holds(u, Total(u)) /\ next[u] + 1 = Total(u)
      /\ \A v \in Uploads : (FileOf[v] = f /\ status[v] = "sending") => v = u
  BY <1>1, OnlySender DEF WriteFails, HandlerProgress
<1>3. /\ \E x : disk' = [disk EXCEPT ![PathOf(u)] = x]
      /\ pc'[w] = "erase"
      /\ UNCHANGED <<keys, job, status, worker, next, latest>>
      /\ cut' = cut \cup {PathOf(u)}
  <2>1. <<filesReceiver[f].map_name, filesReceiver[f].file_name>> = PathOf(u)
    BY <1>1, <1>2 DEF Holds, PathOf
  <2>2. (\E x : disk' = [disk EXCEPT ![PathOf(u)] = x]) /\ cut' = cut \cup {PathOf(u)}
    BY <1>1, <2>1 DEF WriteFails
  <2> QED BY <2>2 DEF WriteFails, TypeOK, clients
<1>4. Progress(u)'
  BY <1>1, <1>2, <1>3 DEF Progress, HandlerProgress
<1>5. ASSUME NEW m \in Maps
      PROVE  DiskOK(<<m, f>>)'
  <2>1. DiskOK(<<m, f>>)
    BY DEF CleanFile
  <2>2. CASE PathOf(u) = <<m, f>>
    BY <1>3, <2>2 DEF DiskOK
  <2>3. CASE PathOf(u) # <<m, f>>
    <3>1. ASSUME NEW v \in Uploads, PathOf(v) = <<m, f>>, status[v] = "sending"
          PROVE  FALSE
      BY <1>2, <2>3, <3>1 DEF PathOf
    <3>2. disk'[<<m, f>>] = disk[<<m, f>>]
      BY <1>3, <2>3 DEF TypeOK, Paths
    <3> QED BY <1>3, <2>1, <2>3, <3>1, <3>2 DEF DiskOK
  <2> QED BY <2>2, <2>3
<1> QED BY <1>1, <1>2, <1>3, <1>4, <1>5 DEF CleanFile

LEMMA CleanErase ==
    ASSUME TypeOK, JobsOK, NEW w \in Workers, Erase(w),
           NEW f \in Files, f = FileAt(w), CleanFile(f)
    PROVE  CleanFile(f)'
<1>1. PICK u \in Uploads : u = job[w] /\ worker[u] = w /\ FileOf[u] = f
                           /\ status[u] = "sending"
  BY BusyWorker DEF Erase
<1>2. /\ disk[PathOf(u)] = Bytes(u) \/ PathOf(u) \in cut
      /\ next[u] + 1 = Total(u)
      /\ \A v \in Uploads : (FileOf[v] = f /\ status[v] = "sending") => v = u
  BY <1>1, OnlySender DEF Erase, HandlerProgress
<1>3. /\ f \notin keys'
      /\ disk' = disk /\ cut' = cut
      /\ status' = [status EXCEPT ![u] = "done"]
      /\ latest' = [latest EXCEPT ![PathOf(u)] = u]
  BY <1>1, <1>2 DEF Erase, Return
<1>4. \A v \in Uploads : FileOf[v] = f => status'[v] # "sending"
  BY <1>2, <1>3 DEF TypeOK
<1>5. ASSUME NEW m \in Maps
      PROVE  DiskOK(<<m, f>>)'
  <2>1. DiskOK(<<m, f>>)
    BY DEF CleanFile
  <2>2. CASE PathOf(u) = <<m, f>>
    <3>1. latest'[<<m, f>>] = u /\ u # None
      BY <1>3, <2>2, NamesType, UploadAssumption DEF TypeOK
    <3> QED BY <1>2, <1>3, <2>2, <3>1 DEF DiskOK
  <2>3. CASE PathOf(u) # <<m, f>>
    <3>1. ASSUME NEW v \in Uploads, PathOf(v) = <<m, f>>, status[v] = "sending"
          PROVE  FALSE
      BY <1>2, <2>3, <3>1 DEF PathOf
    <3>2. latest'[<<m, f>>] = latest[<<m, f>>]
      BY <1>3, <2>3 DEF TypeOK, Paths
    <3> QED BY <1>3, <2>1, <3>1, <3>2 DEF DiskOK
  <2> QED BY <2>2, <2>3
<1> QED BY <1>3, <1>4, <1>5 DEF CleanFile

-----------------------------------------------------------------------------
(* The theorems.                                                           *)

LEMMA InvInit == Init => UploadInv
<1> SUFFICES ASSUME Init PROVE UploadInv
  OBVIOUS
<1>1. TypeOK
  <2>1. \A f \in Files : HxFileOK(f)
    BY DEF Init, HxFileOK, NewFile, NoPackets
  <2> QED BY <2>1 DEF Init, TypeOK
<1>2. JobsOK
  BY DEF Init, JobsOK
<1>3. ~Race
  BY DEF Init, Race, Racing, Conflict, Writes
<1>4. \A f \in Files : CleanFile(f)
  BY DEF Init, CleanFile, DiskOK, Paths
<1> QED BY <1>1, <1>2, <1>3, <1>4 DEF UploadInv

LEMMA InvStep == UploadInv /\ [Next]_vars => UploadInv'
<1> SUFFICES ASSUME UploadInv, [Next]_vars
             PROVE  UploadInv'
  OBVIOUS
<1>1. TypeOK /\ JobsOK /\ (Race => raced)
  BY DEF UploadInv
<1>2. TypeOK' /\ JobsOK'
  BY <1>1, TypeStep
<1>3. (Race => raced)' /\ (raced => raced')
  BY <1>1, RaceStep
<1>4. spoiled \subseteq spoiled'
  BY DEF Next, Handler, Deliver, Disconnect, Reconnect, SetFileInfo, Receive,
         OpenFile, OpenFails, WriteFile, WriteFails, Erase, LostInsertion, Crash, vars
<1>5. ASSUME ~raced', NEW f \in Files, f \notin spoiled'
      PROVE  CleanFile(f)'
  <2>1. CleanFile(f) /\ ~Race
    BY <1>3, <1>4, <1>5 DEF UploadInv
  <2>2. ASSUME NEW u \in Uploads, Deliver(u) \/ Disconnect(u) \/ Reconnect(u)
        PROVE  CleanFile(f)'
    BY <1>1, <1>5, <2>1, <2>2, CleanDeliver, CleanDisconnect, CleanReconnect
  <2>3. ASSUME NEW w \in Workers, Handler(w)
        PROVE  CleanFile(f)'
    <3>1. pc[w] # "idle"
      BY <2>3 DEF Handler, SetFileInfo, Receive, OpenFile, OpenFails, WriteFile, WriteFails, Erase
    <3>2. CASE f # FileAt(w)
      BY <1>1, <2>1, <2>3, <3>1, <3>2, CleanOther
    <3>3. CASE f = FileAt(w)
      <4>1. ~OpenFails(w)
        BY <1>5, <3>3 DEF OpenFails
      <4> QED BY <1>1, <2>1, <2>3, <3>3, <4>1, CleanSetFileInfo, CleanReceive,
                 CleanOpenFile, CleanWriteFile, CleanWriteFails, CleanErase DEF Handler
    <3> QED BY <3>2, <3>3
  <2>4. ASSUME NEW w \in Workers, LostInsertion(w)
        PROVE  FALSE
    BY <2>1, <2>4 DEF LostInsertion, Race
  <2>5. CASE Crash \/ UNCHANGED vars
    <3>1. UNCHANGED <<keys, filesReceiver, disk, pc, job, status, worker, next, latest, cut>>
      BY <2>5 DEF Crash, vars, server, threads, clients
    <3> QED BY <2>1, <3>1, Frame
  <2> QED BY <2>2, <2>3, <2>4, <2>5 DEF Next
<1> QED BY <1>2, <1>3, <1>5 DEF UploadInv

(* The invariant holds in every reachable state, for any number of workers *)
(* and any set of uploads.                                                 *)
THEOREM UploadInvariant == Spec => []UploadInv
<1> QED BY InvInit, InvStep, PTL DEF Spec

(* The types of the server's state.                                        *)
THEOREM TypeCorrect == Spec => []TypeOK
<1>1. UploadInv => TypeOK
  BY DEF UploadInv
<1> QED BY <1>1, UploadInvariant, PTL

(* A file name uploaded one connection at a time, with no broken           *)
(* connection, failed open or race, is on disk exactly as last sent, but   *)
(* for an upload whose write failed.                                       *)
THEOREM UploadsSavedExactly == Spec => []SavedExactly
<1>1. UploadInv => SavedExactly
  <2> SUFFICES ASSUME UploadInv, ~raced, NEW m \in Maps, NEW f \in Files,
                      f \notin spoiled, Quiet(f), <<m, f>> \notin cut
               PROVE  disk[<<m, f>>] =
                        IF latest[<<m, f>>] = None THEN <<>> ELSE Bytes(latest[<<m, f>>])
    BY DEF SavedExactly
  <2>1. DiskOK(<<m, f>>)
    BY DEF UploadInv, CleanFile
  <2>2. ASSUME NEW u \in Uploads, PathOf(u) = <<m, f>>, status[u] = "sending"
        PROVE  FALSE
    BY <2>2 DEF PathOf, Quiet
  <2> QED BY <2>1, <2>2 DEF DiskOK
<1> QED BY <1>1, UploadInvariant, PTL

(* Nothing of such a file stays in filesReceiver between its uploads.      *)
THEOREM UploadsLeaveNoResidue == Spec => []NoResidue
<1>1. UploadInv => NoResidue
  BY DEF UploadInv, NoResidue, CleanFile, Quiet
<1> QED BY <1>1, UploadInvariant, PTL

-----------------------------------------------------------------------------
(* Where pieces come from, races or not.                                   *)

\* A piece that belongs to file f, at position i.
Belongs(piece, f, i) == piece # Empty => FileOf[piece[1]] = f /\ piece[2] = i

PacketsBelong ==
    \A f \in Files : \A i \in DOMAIN filesReceiver[f].file_packets :
        Belongs(filesReceiver[f].file_packets[i], f, i)

DiskBelongs ==
    \A p \in Paths : \A i \in DOMAIN disk[p] : Belongs(disk[p][i], p[2], i)

LEMMA BusyFile ==
    ASSUME TypeOK, JobsOK, NEW w \in Workers, pc[w] # "idle"
    PROVE  job[w] \in Uploads /\ FileAt(w) \in Files
BY NamesType DEF JobsOK, FileAt

\* The steps that leave packets and files as they are.
LEMMA BelongSame ==
    ASSUME PacketsBelong, DiskBelongs, disk' = disk,
           \A f \in Files : \/ filesReceiver'[f] = filesReceiver[f]
                            \/ filesReceiver'[f].file_packets = filesReceiver[f].file_packets
                            \/ filesReceiver'[f] = NewFile
    PROVE  PacketsBelong' /\ DiskBelongs'
<1>1. DOMAIN NewFile.file_packets = {}
  BY DEF NewFile, NoPackets
<1> QED BY <1>1 DEF PacketsBelong, DiskBelongs, Belongs

LEMMA BelongStep ==
    ASSUME TypeOK, JobsOK, [Next]_vars, PacketsBelong, DiskBelongs
    PROVE  PacketsBelong' /\ DiskBelongs'
<1>1. ASSUME UNCHANGED <<filesReceiver, disk>> PROVE PacketsBelong' /\ DiskBelongs'
  BY <1>1, BelongSame
<1>2. ASSUME NEW u \in Uploads, Deliver(u) \/ Disconnect(u) \/ Reconnect(u)
      PROVE  PacketsBelong' /\ DiskBelongs'
  BY <1>1, <1>2 DEF Deliver, Disconnect, Reconnect, server
<1>3. ASSUME NEW w \in Workers, SetFileInfo(w) PROVE PacketsBelong' /\ DiskBelongs'
  <2>1. pc[w] # "idle"
    BY <1>3 DEF SetFileInfo
  <2>2. FileAt(w) \in Files /\ DOMAIN filesReceiver = Files
    BY <2>1, BusyFile DEF TypeOK
  <2>3. \A f \in Files : filesReceiver'[f] = IF f = FileAt(w)
                              THEN setFileInfo(filesReceiver[f], job[w]) ELSE filesReceiver[f]
    BY <1>3, <2>2 DEF SetFileInfo
  <2>4. \A f \in Files : setFileInfo(filesReceiver[f], job[w]).file_packets = filesReceiver[f].file_packets
    <3> SUFFICES ASSUME NEW f \in Files
                 PROVE  setFileInfo(filesReceiver[f], job[w]).file_packets = filesReceiver[f].file_packets
      OBVIOUS
    <3>1. HxFileOK(f)
      BY DEF TypeOK
    <3> QED BY <3>1 DEF setFileInfo, HxFileOK
  <2> QED BY <1>3, <2>3, <2>4, BelongSame DEF SetFileInfo
<1>4. ASSUME NEW w \in Workers, Receive(w) PROVE PacketsBelong' /\ DiskBelongs'
  <2> DEFINE f == FileAt(w)
             u == job[w]
             r == [filesReceiver[f] EXCEPT !.file_packets =
                      StorePacket(@, PacketNum(u, next[u]), Content(u, next[u]))]
  <2>1. pc[w] # "idle"
    BY <1>4 DEF Receive
  <2>2. f \in Files /\ u \in Uploads /\ DOMAIN filesReceiver = Files /\ HxFileOK(f)
    BY <2>1, BusyFile DEF TypeOK
  <2>3. filesReceiver' = [filesReceiver EXCEPT ![f] = r] /\ disk' = disk
    BY <1>4 DEF Receive
  <2>4. r.file_packets = StorePacket(filesReceiver[f].file_packets, PacketNum(u, next[u]), Content(u, next[u]))
    BY <2>2 DEF HxFileOK
  <2>5. \A i \in DOMAIN r.file_packets : Belongs(r.file_packets[i], f, i)
    <3>1. Belongs(Content(u, next[u]), f, PacketNum(u, next[u]))
      BY DEF Belongs, Content, PacketNum, FileAt
    <3>2. \A i \in DOMAIN filesReceiver[f].file_packets : Belongs(filesReceiver[f].file_packets[i], f, i)
      BY <2>2 DEF PacketsBelong
    <3> HIDE DEF r, u, f
    <3> QED BY <2>4, <3>1, <3>2 DEF StorePacket
  <2> HIDE DEF r, f, u
  <2> QED BY <2>2, <2>3, <2>5 DEF PacketsBelong, DiskBelongs
<1>5. ASSUME NEW w \in Workers, OpenFile(w) PROVE PacketsBelong' /\ DiskBelongs'
  <2>1. filesReceiver' = filesReceiver
    BY <1>5 DEF OpenFile
  <2>2. DOMAIN disk = Paths /\ \A p \in Paths : disk'[p] = disk[p] \/ disk'[p] = <<>>
    BY <1>5 DEF OpenFile, TypeOK
  <2>3. DOMAIN <<>> = {}
    OBVIOUS
  <2> QED BY <2>1, <2>2, <2>3 DEF PacketsBelong, DiskBelongs
<1>6. ASSUME NEW w \in Workers, WriteFile(w) \/ WriteFails(w)
      PROVE  PacketsBelong' /\ DiskBelongs'
  <2> DEFINE f == FileAt(w)
             r == filesReceiver[f]
  <2>1. pc[w] # "idle" /\ r.file_name # NoName
    BY <1>6 DEF WriteFile, WriteFails
  <2>2. f \in Files /\ DOMAIN filesReceiver = Files /\ DOMAIN disk = Paths
    BY <2>1, BusyFile DEF TypeOK
  <2>3. HxFileOK(f)
    BY <2>2 DEF TypeOK
  <2>4. r.file_name = f
    BY <2>1, <2>3 DEF HxFileOK
  <2>5. PICK x : /\ disk' = [disk EXCEPT ![<<r.map_name, f>>] = x]
                 /\ \A i \in DOMAIN x : i \in DOMAIN Assembled(r) /\ x[i] = Assembled(r)[i]
                 /\ filesReceiver' = [filesReceiver EXCEPT ![f].file_packets = NoPackets]
    <3>1. CASE WriteFile(w)
      BY <2>4, <3>1 DEF WriteFile
    <3>2. CASE WriteFails(w)
      <4>1. PICK n \in 0 .. r.file_packet_total - 1 :
               disk' = [disk EXCEPT ![<<r.map_name, f>>] = [i \in 0 .. n - 1 |-> Assembled(r)[i]]]
        BY <2>4, <3>2 DEF WriteFails
      <4>2. \A i \in 0 .. n - 1 : i \in DOMAIN Assembled(r)
        BY <2>3 DEF HxFileOK, Assembled
      <4>3. filesReceiver' = [filesReceiver EXCEPT ![f].file_packets = NoPackets]
        BY <3>2 DEF WriteFails
      <4> DEFINE x == [i \in 0 .. n - 1 |-> Assembled(r)[i]]
      <4>4. \A i \in DOMAIN x : i \in DOMAIN Assembled(r) /\ x[i] = Assembled(r)[i]
        <5> HIDE DEF r, f
        <5> QED BY <4>2
      <4>5. disk' = [disk EXCEPT ![<<r.map_name, f>>] = x]
        BY <4>1
      <4> HIDE DEF r, f, x
      <4> QED BY <4>3, <4>4, <4>5
    <3> QED BY <1>6, <3>1, <3>2
  <2>6. \A i \in DOMAIN x : Belongs(x[i], f, i)
    <3>1. \A i \in DOMAIN r.file_packets : Belongs(r.file_packets[i], f, i)
      BY <2>2 DEF PacketsBelong
    <3>2. \A i : Belongs(Empty, f, i)
      BY DEF Belongs
    <3>3. \A i \in DOMAIN Assembled(r) : Belongs(Assembled(r)[i], f, i)
      <4> HIDE DEF r, f
      <4> QED BY <3>1, <3>2 DEF Assembled
    <3> HIDE DEF r, f
    <3> QED BY <2>5, <3>3
  <2>7. DiskBelongs'
    <3> HIDE DEF r, f
    <3> QED BY <2>2, <2>5, <2>6 DEF DiskBelongs
  <2>8. PacketsBelong'
    <3>1. DOMAIN NoPackets = {}
      BY DEF NoPackets
    <3>2. filesReceiver'[f].file_packets = NoPackets
      BY <2>2, <2>3, <2>5 DEF HxFileOK
    <3>3. \A g \in Files \ {f} : filesReceiver'[g] = filesReceiver[g]
      BY <2>2, <2>5
    <3> HIDE DEF r, f
    <3> QED BY <3>1, <3>2, <3>3 DEF PacketsBelong
  <2> QED BY <2>7, <2>8
<1>7. ASSUME NEW w \in Workers, Erase(w) PROVE PacketsBelong' /\ DiskBelongs'
  <2>1. \A f \in Files : filesReceiver'[f] = filesReceiver[f] \/ filesReceiver'[f] = NewFile
    BY <1>7 DEF Erase, TypeOK
  <2> QED BY <1>7, <2>1, BelongSame DEF Erase
<1>8. ASSUME NEW w \in Workers, OpenFails(w) \/ LostInsertion(w)
      PROVE  PacketsBelong' /\ DiskBelongs'
  BY <1>1, <1>8 DEF OpenFails, LostInsertion, server
<1>9. CASE Crash \/ UNCHANGED vars
  BY <1>1, <1>9 DEF Crash, vars, server
<1> QED BY <1>2, <1>3, <1>4, <1>5, <1>6, <1>7, <1>8, <1>9 DEF Next, Handler

(* Until two workers race, a piece on disk is where its sender's numbering *)
(* puts it, in a file of the name it was sent for, whatever uploads were   *)
(* broken, repeated or mixed.                                              *)
THEOREM PiecesWhereSent == Spec => []PieceProvenance
<1>1. Init => PacketsBelong /\ DiskBelongs
  <2>1. DOMAIN NoPackets = {} /\ DOMAIN <<>> = {}
    BY DEF NoPackets
  <2> QED BY <2>1 DEF Init, NewFile, PacketsBelong, DiskBelongs
<1>2. UploadInv /\ [Next]_vars /\ PacketsBelong /\ DiskBelongs => PacketsBelong' /\ DiskBelongs'
  BY BelongStep DEF UploadInv
<1>3. DiskBelongs => PieceProvenance
  BY DEF DiskBelongs, PieceProvenance, Belongs
<1> QED BY <1>1, <1>2, <1>3, UploadInvariant, PTL DEF Spec

-----------------------------------------------------------------------------
(* The races are the only cause of what run upload_race finds.             *)

(* A finished upload of a file name whose uploads went cleanly is on disk  *)
(* unless two workers raced: nothing else in the handler loses it.         *)
THEOREM OnlyRacesLoseUploads == Spec => [](SavedUnlessSpoiled \/ raced)
<1>1. ASSUME TypeOK, SavedExactly, ~raced PROVE SavedUnlessSpoiled
  <2> SUFFICES ASSUME NEW u \in Uploads,
                      latest[PathOf(u)] = u, FileOf[u] \notin spoiled,
                      PathOf(u) \notin cut, Quiet(FileOf[u])
               PROVE  disk[PathOf(u)] = Bytes(u)
    BY DEF SavedUnlessSpoiled
  <2>1. MapOf[u] \in Maps /\ FileOf[u] \in Files /\ u # None
    BY NamesType, UploadAssumption
  <2> QED BY <1>1, <2>1 DEF SavedExactly, PathOf
<1>2. TypeOK /\ SavedExactly => SavedUnlessSpoiled \/ raced
  BY <1>1
<1> QED BY <1>2, TypeCorrect, UploadsSavedExactly, PTL
=============================================================================
