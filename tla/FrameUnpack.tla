----------------------------- MODULE FrameUnpack -----------------------------
(***************************************************************************)
(* How the TCP server cuts a connection's byte stream into messages: the   *)
(* unpack_setting of hxMapServer.cpp (an 8 byte header that ends in the    *)
(* length of the body) as libhv 1.3.2 carries it out (nio_read,            *)
(* hio_handle_read, hio_unpack_by_length_field), with its read buffer that *)
(* grows and shrinks.  recv may return any non-empty part of what is on    *)
(* the wire.                                                               *)
(*                                                                         *)
(* Bytes are counted, not represented: message i is Body[i] bytes behind a *)
(* header, and a position in the stream is a number.                       *)
(***************************************************************************)
EXTENDS Integers, Sequences

CONSTANTS
    Body,         \* the lengths of the messages the client sends
    Start,        \* where in the stream each of them begins, and the end
    body_offset,  \* the bytes of a header, UnPack::head_body_length
    BufSize,      \* HLOOP_READ_BUFSIZE
    HighWater,    \* READ_BUFSIZE_HIGH_WATER
    package_max_length,
    UintModulus   \* 2^32, the lengths are unsigned int

Count == Len(Body)

PackageLen(i) == body_offset + Body[i]

ASSUME UnpackAssumption ==
    /\ Body \in Seq(Nat)
    /\ body_offset \in Nat \ {0}
    /\ BufSize \in Nat
    /\ HighWater \in Nat
    /\ package_max_length \in Nat
    /\ body_offset <= BufSize
    /\ 2 * body_offset <= HighWater
    /\ BufSize <= package_max_length
    /\ UintModulus \in Nat
    \* No sum of a header's and a body's length wraps.
    /\ \A i \in 1 .. Count : PackageLen(i) < UintModulus

\* The messages follow each other without a gap.
ASSUME StartAssumption ==
    /\ Start \in [1 .. Count + 1 -> Nat]
    /\ Start[1] = 0
    /\ \A i \in 1 .. Count : Start[i + 1] = Start[i] + PackageLen(i)
    /\ \A i, j \in 1 .. Count + 1 : i < j => Start[i] < Start[j]

VARIABLES
    wire,         \* bytes the client has sent
    base,         \* position in the stream of the first byte in readbuf
    tail,         \* readbuf.tail, the bytes in it (readbuf.head is 0)
    len,          \* readbuf.len, its capacity
    small,        \* io->small_readbytes_cnt
    p,            \* the unpack loop's pointer, relative to base
    package_len,  \* its package_len
    pc,           \* "wait" for a readable socket, "unpack" in the loop
    out,          \* messages handed to onMessage
    open          \* the connection is open

vars == <<wire, base, tail, len, small, p, package_len, pc, out, open>>

\* The length field of a header at a position in the stream; anything else
\* is read as a length too.
LengthAt(q) ==
    IF \E i \in 1 .. Count : Start[i] = q
    THEN Body[CHOOSE i \in 1 .. Count : Start[i] = q]
    ELSE 0

LIMIT(lower, v, upper) == IF v < lower THEN lower ELSE IF v > upper THEN upper ELSE v

-----------------------------------------------------------------------------
\* hio_set_unpack gives the connection a buffer of its own.
Init ==
    /\ wire = 0
    /\ base = 0
    /\ tail = 0
    /\ len = BufSize
    /\ small = 0
    /\ p = 0
    /\ package_len = body_offset
    /\ pc = "wait"
    /\ out = 0
    /\ open = TRUE

ClientSend ==
    /\ open
    /\ \E n \in wire + 1 .. Start[Count + 1] : wire' = n
    /\ UNCHANGED <<base, tail, len, small, p, package_len, pc, out, open>>

\* The client goes away, or the connection is reset.
Disconnect ==
    /\ open
    /\ pc = "wait"
    /\ open' = FALSE
    /\ UNCHANGED <<wire, base, tail, len, small, p, package_len, pc, out>>

\* nio_read: recv fills some of the room left in readbuf.
Read ==
    /\ open
    /\ pc = "wait"
    /\ \E n \in 1 .. len - tail :
          /\ base + tail + n <= wire
          /\ tail' = tail + n
    /\ p' = 0
    /\ package_len' = body_offset
    /\ pc' = "unpack"
    /\ UNCHANGED <<wire, base, len, small, out, open>>

remain == tail - p

\* The package the loop looks at, once its header is there; a sum of
\* unsigned ints.
NextPackageLen == (body_offset + LengthAt(base + p)) % UintModulus

HeaderThere == remain >= body_offset

PackageThere == HeaderThere /\ remain >= NextPackageLen

\* After onMessage, hio_read_cb counts the packages in a row that were small
\* for a buffer above HighWater.
SmallCount(n) ==
    IF len <= HighWater THEN small ELSE IF n < len \div 2 THEN small + 1 ELSE 0

\* Mutant: the pointer moves on by the body alone.
UnpackPackageBody ==
    /\ pc = "unpack"
    /\ PackageThere
    /\ package_len' = NextPackageLen
    /\ p' = p + LengthAt(base + p)
    /\ out' = out + 1
    /\ small' = small
    /\ UNCHANGED <<wire, base, tail, len, pc, open>>

\* One turn of the loop: a complete package goes to onMessage.
UnpackPackage ==
    /\ pc = "unpack"
    /\ PackageThere
    /\ package_len' = NextPackageLen
    /\ p' = p + NextPackageLen
    /\ out' = out + 1
    /\ small' = SmallCount(NextPackageLen)
    /\ UNCHANGED <<wire, base, tail, len, pc, open>>

\* Mutant: only doubled, however long the package that is arriving.
GrownTwice(wanted) == IF remain > 0 /\ wanted > len THEN 2 * len ELSE len

\* readbuf.len after room was made for a package of wanted bytes.
Grown(wanted) ==
    IF remain > 0 /\ wanted > len
    THEN LIMIT(wanted, len * 2, package_max_length)
    ELSE len

\* Mutant: a package of exactly the limit is refused.
OverLimitInclusive(wanted) == remain > 0 /\ wanted > len /\ wanted >= package_max_length

OverLimit(wanted) == remain > 0 /\ wanted > len /\ wanted > package_max_length

\* Mutant: a half full buffer is halved too.
ResizedHalfFull(r, cap, cnt) ==
    IF r <= cap \div 2 /\ cnt >= 3
    THEN [len |-> cap \div 2, small |-> 0, open |-> TRUE]
    ELSE [len |-> cap, small |-> cnt, open |-> TRUE]

\* hio_handle_read's resizing of a buffer of cap bytes with r in it: double
\* a full one (within the limit, else close), halve one that is mostly empty
\* after three small packages.
Resized(r, cap, cnt) ==
    IF r = cap
    THEN IF cap * 2 > package_max_length
         THEN [len |-> cap, small |-> cnt, open |-> FALSE]
         ELSE [len |-> cap * 2, small |-> 0, open |-> TRUE]
    ELSE IF r < cap \div 2 /\ cnt >= 3
         THEN [len |-> cap \div 2, small |-> 0, open |-> TRUE]
         ELSE [len |-> cap, small |-> cnt, open |-> TRUE]

\* The package_len the loop ends with: that of the package that is arriving
\* once its header is there, else what the last turn left.
Wanted == IF HeaderThere THEN NextPackageLen ELSE package_len

\* The loop ends: what is left moves to the front of the buffer, which is
\* grown for a longer package, or the connection is closed for one too long.
UnpackDone ==
    /\ pc = "unpack"
    /\ ~PackageThere
    /\ package_len' = Wanted
    /\ \/ /\ OverLimit(Wanted)
          /\ open' = FALSE
          /\ UNCHANGED <<len, small>>
       \/ /\ ~OverLimit(Wanted)
          /\ LET cap == Grown(Wanted)
                 r == Resized(remain, cap, IF cap # len THEN 0 ELSE small)
             IN  len' = r.len /\ small' = r.small /\ open' = r.open
    /\ base' = base + p
    /\ tail' = remain
    /\ p' = 0
    /\ pc' = "wait"
    /\ UNCHANGED <<wire, out>>

Next == ClientSend \/ Disconnect \/ Read \/ UnpackPackage \/ UnpackDone

Spec == Init /\ [][Next]_vars

\* The client sends all it has to say; the event loop serves the connection.
Fairness == WF_vars(ClientSend) /\ WF_vars(Read) /\ WF_vars(UnpackPackage \/ UnpackDone)

FairSpec == Spec /\ Fairness

-----------------------------------------------------------------------------
(* The types of the variables.                                             *)
TypeOK ==
    /\ wire \in 0 .. Start[Count + 1]
    /\ base \in Nat
    /\ tail \in Nat
    /\ len \in 1 .. package_max_length
    /\ small \in Nat
    /\ p \in 0 .. tail
    /\ package_len \in Nat
    /\ pc \in {"wait", "unpack"}
    /\ out \in 0 .. Count
    /\ open \in BOOLEAN

(* The assertion of nio_read (nio.c:311): whenever the connection waits    *)
(* for bytes there is room to put them, however the stream was cut and the *)
(* buffer grown and shrunk before.                                         *)
RoomToRead == (open /\ pc = "wait") => len - tail > 0

(* The loop only ever takes for a header what is one: it stands at the     *)
(* start of the message after the last one handed out.                     *)
Aligned == base + p = Start[out + 1]

(* Of the ways the loop can end, the server closes the connection in just   *)
(* one: the header of a package longer than package_max_length has come;   *)
(* whatever the buffer's size is by then, it closes no other stream and    *)
(* waits for the rest of no such package.                                  *)
ClosedForCause ==
    [][ (pc = "unpack" /\ pc' = "wait") =>
            (~open' <=> HeaderThere /\ PackageLen(out + 1) > package_max_length) ]_vars

(* The connection is a MessageStream.                                      *)
Stream == INSTANCE MessageStream WITH Count <- Count, out <- out, open <- open

Implements == Stream!StreamSpec

(* The inductive invariant behind RoomToRead, Aligned and Implements: the  *)
(* buffer holds what was received and not yet handed out, it is never full *)
(* between two reads, never too small for a header, and a count of small   *)
(* packages is kept only for a buffer above HighWater.                     *)
UnpackInv ==
    /\ TypeOK
    /\ Aligned
    /\ base + tail <= wire
    /\ tail <= len
    /\ body_offset <= len
    /\ small > 0 => len > HighWater
    /\ RoomToRead
    /\ pc = "wait" => p = 0
    /\ pc = "unpack" => open /\ package_len <= len

(* A client that stays gets every message through, unless one is too long. *)
AllHanded ==
    <>(out = Count \/ ~open)
=============================================================================
