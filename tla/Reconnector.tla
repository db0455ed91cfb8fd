----------------------------- MODULE Reconnector -----------------------------
(* A client that keeps up one link: it tries, and after every failure waits *)
(* before it tries again, MinDelay at first, then twice as long each time   *)
(* up to MaxDelay, and MinDelay again once a link has been up.              *)
EXTENDS Integers

CONSTANTS MinDelay, MaxDelay

VARIABLES
    link,   \* "idle", "trying", "up", "waiting" or "off"
    wait,   \* the last wait, 0 when there is none to double
    left    \* what is left of it

Longer(d) ==
    CASE 2 * d < MinDelay -> MinDelay
      [] 2 * d > MaxDelay -> MaxDelay
      [] OTHER -> 2 * d

ReconnectorInit == link = "idle" /\ wait = 0 /\ left = 0

Try ==
    /\ \/ link = "idle"
       \/ link = "waiting" /\ left = 0
    /\ link' = "trying"
    /\ UNCHANGED <<wait, left>>

Up ==
    /\ link = "trying"
    /\ link' = "up"
    /\ wait' = 0
    /\ UNCHANGED left

Down ==
    /\ link \in {"trying", "up"}
    /\ link' = "waiting"
    /\ wait' = Longer(wait)
    /\ left' = wait'

Second ==
    /\ link = "waiting"
    /\ left > 0
    /\ left' = left - 1
    /\ UNCHANGED <<link, wait>>

\* Stopped, or out of sockets.
GoOff == link # "off" /\ link' = "off" /\ wait' = 0 /\ left' = 0

ReconnectorNext == Try \/ Up \/ Down \/ Second \/ GoOff

ReconnectorSpec == ReconnectorInit /\ [][ReconnectorNext]_<<link, wait, left>>
=============================================================================
