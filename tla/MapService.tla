----------------------------- MODULE MapService -----------------------------
(* What a client may expect of a server with one listening socket: it is   *)
(* opened at most once and shut for good, a client is taken only while it  *)
(* is open, served only once it is taken, and never again when it is over. *)
CONSTANT Clients

VARIABLES
    phase,   \* of the listening socket
    taken,   \* the clients accepted so far
    served,  \* those with a session
    over     \* those whose session, or hope of one, has ended

service == <<phase, taken, served, over>>

ServiceInit == phase = "new" /\ taken = {} /\ served = {} /\ over = {}

Open == phase = "new" /\ phase' = "open" /\ UNCHANGED <<taken, served, over>>

Shut == phase # "shut" /\ phase' = "shut" /\ UNCHANGED <<taken, served, over>>

Take(c) ==
    /\ phase = "open"
    /\ c \notin taken
    /\ taken' = taken \cup {c}
    /\ UNCHANGED <<phase, served, over>>

Serve(c) ==
    /\ c \in taken \ (served \cup over)
    /\ served' = served \cup {c}
    /\ UNCHANGED <<phase, taken, over>>

\* One client leaves, or a worker stops and abandons all it has.
Leave(C) ==
    /\ C \subseteq taken \ over
    /\ over' = over \cup C
    /\ served' = served \ C
    /\ UNCHANGED <<phase, taken>>

ServiceNext ==
    \/ Open \/ Shut
    \/ \E c \in Clients : Take(c) \/ Serve(c)
    \/ \E C \in SUBSET Clients : Leave(C)

ServiceSpec == ServiceInit /\ [][ServiceNext]_service
=============================================================================
