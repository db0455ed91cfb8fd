------------------------ MODULE MCMapServerLifecycle ------------------------
(* Instances of MapServerLifecycle: one or two workers, one client, and a  *)
(* bounded number of calls of start and stop between construction and      *)
(* destruction.                                                            *)
EXTENDS MapServerLifecycle

CONSTANTS w1, w2, c1
=============================================================================
