----------------------------- MODULE MCMapUpload -----------------------------
(* Instances of MapUpload: a file uploaded for two maps with different     *)
(* contents, a second file, files of no content and of one to three        *)
(* packets.                                                                *)
EXTENDS MapUpload, TLC

CONSTANTS a, b, c, f1, f2, m1, m2

\* a, b: the same file name for two maps, of different lengths; c: another
\* file.
MCMapOf == [u \in Uploads |-> IF u = b THEN m2 ELSE m1]
OneMapOf == [u \in Uploads |-> m1]
MCFileOf == [u \in Uploads |-> IF u = c THEN f2 ELSE f1]
MCChunks == [u \in Uploads |-> CASE u = a -> 1 [] u = b -> 3 [] u = c -> 0]
ShortChunks == [u \in Uploads |-> CASE u = a -> 1 [] u = b -> 2 [] u = c -> 0]
=============================================================================
