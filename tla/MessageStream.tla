---------------------------- MODULE MessageStream ----------------------------
(* What the map server's handlers rely on: a connection hands the messages *)
(* of its client to onMessage one at a time, each once, in the order sent, *)
(* until it is closed.                                                     *)
EXTENDS Naturals

CONSTANT Count  \* the number of messages the client sends

VARIABLES
    out,   \* the number of messages handed to onMessage
    open   \* the connection is open

StreamInit == out = 0 /\ open = TRUE

Hand == open /\ out < Count /\ out' = out + 1 /\ open' = open

Close == open /\ open' = FALSE /\ out' = out

StreamSpec == StreamInit /\ [][Hand \/ Close]_<<out, open>>
=============================================================================
