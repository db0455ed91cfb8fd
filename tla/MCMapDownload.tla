---------------------------- MODULE MCMapDownload ----------------------------
(* An instance of MapDownload: one client asks for both files, the other   *)
(* for the one that is uploaded once; the first file asked for may be      *)
(* missing or growing, the second is rewritten during the download.        *)
EXTENDS MapDownload, TLC

CONSTANTS g, h, w1, w2

MCRequests == (w1 :> {<<h, g>>}) @@ (w2 :> {<<h>>})
MCSizes == (g :> {0, 2, 3}) @@ (h :> {2})
MCMaxVersion == (g :> 2) @@ (h :> 1)
=============================================================================
