-------------------------- MODULE FrameUnpackProofs --------------------------
(* Proofs about the unpacking of a connection's byte stream: there is      *)
(* always room to read, the loop is always at the start of a message, and  *)
(* the connection implements MessageStream, for every sequence of messages *)
(* and every way the network cuts it.                                      *)
EXTENDS FrameUnpack, TLAPS

LEMMA CountType == Count \in Nat /\ \A i \in 1 .. Count : Body[i] \in Nat
BY UnpackAssumption DEF Count

LEMMA StartBound ==
    ASSUME NEW i \in 1 .. Count + 1
    PROVE  Start[i] \in Nat /\ Start[i] <= Start[Count + 1]
<1>1. Count + 1 \in 1 .. Count + 1
  BY CountType
<1>2. Start[i] \in Nat /\ Start[Count + 1] \in Nat
  BY <1>1, StartAssumption
<1>3. CASE i = Count + 1
  BY <1>2, <1>3
<1>4. CASE i < Count + 1
  <2>1. Start[i] < Start[Count + 1]
    BY <1>1, <1>4, StartAssumption
  <2> QED BY <1>2, <2>1
<1> QED BY <1>3, <1>4, CountType

\* At the start of a message, the length field is that message's.
LEMMA LengthAtStart ==
    ASSUME NEW i \in 1 .. Count
    PROVE  LengthAt(Start[i]) = Body[i]
<1>1. \A j \in 1 .. Count : Start[j] = Start[i] => j = i
  <2> SUFFICES ASSUME NEW j \in 1 .. Count, j # i
               PROVE  Start[j] # Start[i]
    OBVIOUS
  <2>1. i \in 1 .. Count + 1 /\ j \in 1 .. Count + 1
    BY CountType
  <2>2. j < i \/ i < j
    BY CountType
  <2>3. Start[j] < Start[i] \/ Start[i] < Start[j]
    BY <2>1, <2>2, StartAssumption
  <2> QED BY <2>1, <2>3, StartBound
<1>2. (CHOOSE j \in 1 .. Count : Start[j] = Start[i]) = i
  BY <1>1
<1> QED BY <1>2 DEF LengthAt

\* With a whole header in the buffer there is a message left to hand out.
LEMMA NextMessage ==
    ASSUME UnpackInv, HeaderThere
    PROVE  /\ out + 1 \in 1 .. Count
           /\ NextPackageLen = PackageLen(out + 1)
           /\ NextPackageLen \in Nat
           /\ Start[out + 2] = base + p + NextPackageLen
<1>1. /\ out \in 0 .. Count /\ base \in Nat /\ p \in Nat /\ tail \in Nat /\ wire \in Nat
      /\ wire <= Start[Count + 1] /\ base + p = Start[out + 1] /\ base + tail <= wire
  BY StartBound, CountType DEF UnpackInv, TypeOK, Aligned
<1>2. tail - p >= body_offset /\ body_offset \in Nat \ {0}
  BY UnpackAssumption DEF HeaderThere, remain
<1>3. Start[Count + 1] \in Nat
  BY StartBound, CountType
<1>4. out # Count
  BY <1>1, <1>2, <1>3
<1>5. out + 1 \in 1 .. Count
  BY <1>1, <1>4, CountType
<1>6. LengthAt(base + p) = Body[out + 1]
  BY <1>1, <1>5, LengthAtStart
<1>7. Start[(out + 1) + 1] = Start[out + 1] + PackageLen(out + 1)
  BY <1>5, StartAssumption
<1>8. (out + 1) + 1 = out + 2
  BY <1>1
<1>9. Body[out + 1] \in Nat
  BY <1>5, CountType
<1>10. NextPackageLen = PackageLen(out + 1)
  <2>1. PackageLen(out + 1) \in Nat /\ PackageLen(out + 1) < UintModulus /\ UintModulus \in Nat
    BY <1>2, <1>5, <1>9, UnpackAssumption DEF PackageLen
  <2>2. \A a, m \in Nat : a < m => a % m = a
    OBVIOUS
  <2>3. NextPackageLen = PackageLen(out + 1) % UintModulus
    BY <1>6 DEF NextPackageLen, PackageLen
  <2> QED BY <2>1, <2>2, <2>3
<1> QED BY <1>1, <1>2, <1>5, <1>7, <1>8, <1>9, <1>10 DEF PackageLen

LEMMA InitInv == Init => UnpackInv
<1> SUFFICES ASSUME Init PROVE UnpackInv
  OBVIOUS
<1>1. Start[Count + 1] \in Nat /\ Start[1] = 0
  BY StartBound, StartAssumption, CountType
<1> QED BY <1>1, UnpackAssumption, CountType
     DEF Init, UnpackInv, TypeOK, Aligned, RoomToRead

LEMMA ReadInv == UnpackInv /\ Read => UnpackInv'
BY UnpackAssumption DEF UnpackInv, TypeOK, Aligned, RoomToRead, Read

LEMMA PackageInv == UnpackInv /\ UnpackPackage => UnpackInv'
<1> SUFFICES ASSUME UnpackInv, UnpackPackage PROVE UnpackInv'
  OBVIOUS
<1>1. /\ out + 1 \in 1 .. Count
      /\ NextPackageLen \in Nat
      /\ Start[out + 2] = base + p + NextPackageLen
  BY NextMessage DEF UnpackPackage, PackageThere
<1>2. p + NextPackageLen <= tail /\ p + NextPackageLen \in Nat
  BY <1>1 DEF UnpackPackage, PackageThere, remain, UnpackInv, TypeOK
<1>3. small' \in Nat /\ (small' > 0 => len > HighWater)
  BY UnpackAssumption DEF UnpackPackage, SmallCount, UnpackInv, TypeOK
<1>4. out' + 1 = out + 2
  BY <1>1, CountType DEF UnpackPackage, UnpackInv, TypeOK
<1>5. Aligned'
  BY <1>1, <1>4 DEF UnpackPackage, Aligned, UnpackInv, TypeOK
<1>6. TypeOK'
  BY <1>1, <1>2, <1>3, CountType DEF UnpackPackage, UnpackInv, TypeOK
<1>7. package_len' <= len
  BY <1>1, <1>2 DEF UnpackPackage, PackageThere, remain, UnpackInv, TypeOK
<1> QED BY <1>3, <1>5, <1>6, <1>7 DEF UnpackPackage, UnpackInv, RoomToRead

\* What the end of the loop leaves unread never fills the buffer: with the
\* header there, room was made for the package it announces, and without it
\* a buffer is longer than a header.
LEMMA DoneRoom ==
    ASSUME UnpackInv, UnpackDone, ~OverLimit(Wanted)
    PROVE  /\ Grown(Wanted) \in 1 .. package_max_length
           /\ len <= Grown(Wanted)
           /\ remain \in Nat
           /\ remain < Grown(Wanted)
<1>1. /\ len \in 1 .. package_max_length /\ remain \in Nat /\ remain <= len
      /\ body_offset <= len /\ package_len \in Nat /\ body_offset \in Nat \ {0}
      /\ package_max_length \in Nat
  BY UnpackAssumption DEF UnpackInv, TypeOK, remain
<1>2. Wanted \in Nat /\ (HeaderThere => remain < Wanted)
  <2>1. CASE HeaderThere
    BY <1>1, <2>1, NextMessage DEF UnpackDone, PackageThere, Wanted
  <2>2. CASE ~HeaderThere
    BY <1>1, <2>2 DEF Wanted
  <2> QED BY <2>1, <2>2
<1>3. CASE remain > 0 /\ Wanted > len
  <2>1. Wanted <= package_max_length
    BY <1>1, <1>2, <1>3 DEF OverLimit
  <2>2. Grown(Wanted) = LIMIT(Wanted, len * 2, package_max_length)
    BY <1>3 DEF Grown
  <2>3. Grown(Wanted) \in 1 .. package_max_length /\ len <= Grown(Wanted) /\ len < Grown(Wanted)
    BY <1>1, <1>2, <1>3, <2>1, <2>2 DEF LIMIT
  <2> QED BY <1>1, <2>3
<1>4. CASE ~(remain > 0 /\ Wanted > len)
  <2>1. Grown(Wanted) = len
    BY <1>4 DEF Grown
  <2>2. remain < len
    BY <1>1, <1>2, <1>4 DEF HeaderThere
  <2> QED BY <1>1, <2>1, <2>2
<1> QED BY <1>3, <1>4

LEMMA DoneInv == UnpackInv /\ UnpackDone => UnpackInv'
<1> SUFFICES ASSUME UnpackInv, UnpackDone PROVE UnpackInv'
  OBVIOUS
<1>1. /\ base \in Nat /\ tail \in Nat /\ p \in 0 .. tail /\ remain \in Nat /\ small \in Nat
      /\ len \in 1 .. package_max_length /\ remain <= len /\ body_offset <= len
      /\ base + p + remain = base + tail /\ base + tail <= wire
      /\ small > 0 => len > HighWater
  BY UnpackAssumption DEF UnpackInv, TypeOK, remain
<1>2. package_len' \in Nat
  <2>1. CASE HeaderThere
    BY <2>1, NextMessage DEF UnpackDone, Wanted
  <2>2. CASE ~HeaderThere
    BY <2>2 DEF UnpackDone, Wanted, UnpackInv, TypeOK
  <2> QED BY <2>1, <2>2
<1>3. /\ base' = base + p /\ tail' = remain /\ p' = 0 /\ pc' = "wait"
      /\ wire' = wire /\ out' = out
  BY DEF UnpackDone
<1>4. base' \in Nat /\ tail' \in Nat /\ base' + tail' <= wire
  BY <1>1, <1>3
<1>5. Aligned'
  BY <1>1, <1>3 DEF UnpackInv, Aligned
<1>6. /\ len' \in 1 .. package_max_length /\ small' \in Nat /\ open' \in BOOLEAN
      /\ tail' <= len' /\ body_offset <= len'
      /\ small' > 0 => len' > HighWater
      /\ open' => tail' < len'
  <2>1. CASE OverLimit(Wanted)
    <3>1. open' = FALSE /\ len' = len /\ small' = small
      BY <2>1 DEF UnpackDone
    <3> QED BY <1>1, <1>3, <3>1
  <2>2. CASE ~OverLimit(Wanted)
    <3> DEFINE cap == Grown(Wanted)
               cnt == IF cap # len THEN 0 ELSE small
               r == Resized(remain, cap, cnt)
    <3>1. len' = r.len /\ small' = r.small /\ open' = r.open
      BY <2>2 DEF UnpackDone
    <3>2. cap \in 1 .. package_max_length /\ len <= cap /\ remain < cap
      BY <2>2, DoneRoom
    <3>3. cnt \in Nat /\ (cnt > 0 => cap = len /\ len > HighWater)
      BY <1>1
    <3>4. HighWater \in Nat /\ body_offset \in Nat \ {0} /\ 2 * body_offset <= HighWater
          /\ package_max_length \in Nat
      BY UnpackAssumption
    <3>5. CASE remain < cap \div 2 /\ cnt >= 3
      <4>1. r = [len |-> cap \div 2, small |-> 0, open |-> TRUE]
        BY <1>1, <3>2, <3>5 DEF Resized
      <4> HIDE DEF r, cap, cnt
      <4>2. cap \div 2 \in 1 .. package_max_length /\ body_offset <= cap \div 2
        BY <1>1, <3>2, <3>3, <3>4, <3>5
      <4>3. len' = cap \div 2 /\ small' = 0 /\ open' = TRUE
        BY <3>1, <4>1
      <4> QED BY <1>1, <1>3, <3>5, <4>2, <4>3
    <3>6. CASE ~(remain < cap \div 2 /\ cnt >= 3)
      <4>1. r = [len |-> cap, small |-> cnt, open |-> TRUE]
        BY <1>1, <3>2, <3>6 DEF Resized
      <4> HIDE DEF r, cap, cnt
      <4>2. len' = cap /\ small' = cnt /\ open' = TRUE
        BY <3>1, <4>1
      <4> QED BY <1>1, <1>3, <3>2, <3>3, <3>4, <4>2
    <3> QED BY <3>5, <3>6
  <2> QED BY <2>1, <2>2
<1>7. TypeOK'
  BY <1>2, <1>3, <1>4, <1>6 DEF UnpackInv, TypeOK
<1>8. RoomToRead'
  <2>1. len' \in Nat /\ tail' \in Nat
    BY <1>4, <1>6, UnpackAssumption
  <2>2. CASE open'
    <3>1. tail' < len'
      BY <1>6, <2>2
    <3>2. \A a, b \in Nat : a < b => b - a > 0
      OBVIOUS
    <3>3. len' - tail' > 0
      BY <2>1, <3>1, <3>2, Zenon
    <3> QED BY <3>3 DEF RoomToRead
  <2>3. CASE ~open'
    BY <2>3 DEF RoomToRead
  <2> QED BY <2>2, <2>3
<1> QED BY <1>3, <1>4, <1>5, <1>6, <1>7, <1>8 DEF UnpackInv

LEMMA StepInv == UnpackInv /\ [Next]_vars => UnpackInv'
<1> SUFFICES ASSUME UnpackInv, [Next]_vars PROVE UnpackInv'
  OBVIOUS
<1>1. CASE ClientSend
  <2>1. wire' \in 0 .. Start[Count + 1] /\ wire <= wire'
    BY <1>1, StartBound, CountType DEF ClientSend, UnpackInv, TypeOK
  <2>2. base + tail <= wire'
    BY <2>1, StartBound, CountType DEF UnpackInv, TypeOK
  <2> QED BY <1>1, <2>1, <2>2 DEF ClientSend, UnpackInv, TypeOK, Aligned, RoomToRead
<1>2. CASE Disconnect
  BY <1>2 DEF Disconnect, UnpackInv, TypeOK, Aligned, RoomToRead
<1>3. CASE UNCHANGED vars
  BY <1>3 DEF vars, UnpackInv, TypeOK, Aligned, RoomToRead
<1> QED BY <1>1, <1>2, <1>3, ReadInv, PackageInv, DoneInv DEF Next

(* However the network cuts a client's messages, the unpacker stays in a   *)
(* consistent state: UnpackInv is an inductive invariant.                  *)
THEOREM UnpackInvariant == Spec => []UnpackInv
<1> QED BY InitInv, StepInv, PTL DEF Spec

(* The types of the unpacker's state.                                      *)
THEOREM UnpackTypeOK == Spec => []TypeOK
<1>1. UnpackInv => TypeOK
  BY DEF UnpackInv
<1> QED BY <1>1, UnpackInvariant, PTL

(* nio_read's assertion (nio.c:311) never fails: a connection that waits   *)
(* for bytes always has room for one in its read buffer.                   *)
THEOREM AlwaysRoom == Spec => []RoomToRead
<1>1. UnpackInv => RoomToRead
  BY DEF UnpackInv
<1> QED BY <1>1, UnpackInvariant, PTL

(* hio_unpack_by_length_field never takes the middle of a message for a    *)
(* header.                                                                 *)
THEOREM AlwaysAligned == Spec => []Aligned
<1>1. UnpackInv => Aligned
  BY DEF UnpackInv
<1> QED BY <1>1, UnpackInvariant, PTL

(* Once the loop ends, the server has given up the connection when the     *)
(* header of a package above package_max_length has come, and only then.   *)
THEOREM ClosesForCause == Spec => ClosedForCause
<1>1. ASSUME UnpackInv, [Next]_vars
      PROVE  [ (pc = "unpack" /\ pc' = "wait") =>
                  (~open' <=> HeaderThere /\ PackageLen(out + 1) > package_max_length) ]_vars
  <2> SUFFICES ASSUME pc = "unpack", pc' = "wait"
               PROVE  ~open' <=> HeaderThere /\ PackageLen(out + 1) > package_max_length
    OBVIOUS
  <2>1. UnpackDone
    BY <1>1 DEF Next, ClientSend, Disconnect, Read, UnpackPackage, vars
  <2>2. OverLimit(Wanted) => open' = FALSE
    BY <2>1 DEF UnpackDone
  <2>3. ~OverLimit(Wanted) => open' = TRUE
    <3> SUFFICES ASSUME ~OverLimit(Wanted) PROVE open' = TRUE
      OBVIOUS
    <3> DEFINE cap == Grown(Wanted)
               cnt == IF cap # len THEN 0 ELSE small
    <3>1. open' = Resized(remain, cap, cnt).open
      BY <2>1 DEF UnpackDone
    <3>2. remain # cap
      BY <1>1, <2>1, DoneRoom
    <3> HIDE DEF cap, cnt
    <3>3. Resized(remain, cap, cnt).open = TRUE
      BY <3>2 DEF Resized
    <3> QED BY <3>1, <3>3
  <2>4. CASE HeaderThere
    <3>1. /\ Wanted = PackageLen(out + 1) /\ Wanted \in Nat
      BY <1>1, <2>4, NextMessage DEF Wanted
    <3>2. remain > 0 /\ len \in 1 .. package_max_length /\ package_max_length \in Nat
      BY <1>1, <2>4, UnpackAssumption DEF HeaderThere, remain, UnpackInv, TypeOK
    <3>3. OverLimit(Wanted) <=> Wanted > package_max_length
      BY <3>1, <3>2 DEF OverLimit
    <3> QED BY <2>2, <2>3, <2>4, <3>1, <3>3
  <2>5. CASE ~HeaderThere
    <3>1. ~OverLimit(Wanted)
      BY <1>1, <2>5, UnpackAssumption DEF Wanted, OverLimit, UnpackInv, TypeOK
    <3> QED BY <2>3, <2>5, <3>1
  <2> QED BY <2>4, <2>5
<1> QED BY <1>1, UnpackInvariant, PTL DEF Spec, ClosedForCause

(* The refinement: a connection's buffer, its resizing and the cutting of  *)
(* the stream stay hidden; what onMessage sees is a MessageStream.         *)
THEOREM UnpackImplements == Spec => Implements
<1>1. Init => Stream!StreamInit
  BY DEF Init, Stream!StreamInit
<1>2. ASSUME UnpackInv, [Next]_vars
      PROVE  [Stream!Hand \/ Stream!Close]_<<out, open>>
  <2>1. CASE UnpackPackage
    <3>1. out + 1 \in 1 .. Count
      BY <1>2, <2>1, NextMessage DEF UnpackPackage, PackageThere
    <3> QED BY <1>2, <2>1, <3>1, CountType
         DEF UnpackPackage, UnpackInv, TypeOK, Stream!Hand
  <2>2. CASE UnpackDone
    <3>1. out' = out /\ open' \in BOOLEAN /\ open \in BOOLEAN
      BY <1>2, <2>2, StepInv DEF UnpackDone, UnpackInv, TypeOK
    <3>2. open
      BY <1>2, <2>2 DEF UnpackDone, UnpackInv
    <3>3. CASE open'
      <4>1. open' = open
        BY <3>1, <3>2, <3>3
      <4> QED BY <3>1, <4>1
    <3>4. CASE ~open'
      BY <3>1, <3>2, <3>4 DEF Stream!Close
    <3> QED BY <3>3, <3>4
  <2>3. CASE Disconnect
    BY <2>3 DEF Disconnect, Stream!Close
  <2>4. CASE ClientSend \/ Read \/ UNCHANGED vars
    BY <2>4 DEF ClientSend, Read, vars
  <2> QED BY <1>2, <2>1, <2>2, <2>3, <2>4 DEF Next
<1> QED BY <1>1, <1>2, UnpackInvariant, PTL
     DEF Spec, Implements, Stream!StreamSpec
=============================================================================
