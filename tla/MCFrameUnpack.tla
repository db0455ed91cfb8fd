---------------------------- MODULE MCFrameUnpack ----------------------------
(* Instances of FrameUnpack: empty bodies, bodies that fit the initial     *)
(* buffer and bodies it must grow for, packages of exactly the limit and   *)
(* one byte longer, small packages after a long one.                       *)
EXTENDS FrameUnpack

MCBody == <<0, 1, 11, 2, 0, 1, 1, 8, 2, 12, 1>>

\* Start as a sum.
MCStart ==
    LET at[i \in 1 .. Count + 1] == IF i = 1 THEN 0 ELSE at[i - 1] + PackageLen(i - 1)
    IN  at
=============================================================================
