--------------------------- MODULE MCBlockDownload ---------------------------
(***************************************************************************)
(* BlockDownload with two peers.  The second is prompt and has the chain   *)
(* b1 .. b4; the first may send anything of a chain that leaves that one   *)
(* at b1, and whose blocks x, y and z are refused by ConnectBlock, by      *)
(* ContextualCheckBlock and by CheckBlock.                                 *)
(***************************************************************************)
EXTENDS BlockDownload, TLC

CONSTANTS g, b1, b2, b3, b4, x, y, z

MCParent == (b1 :> g) @@ (b2 :> b1) @@ (b3 :> b2) @@ (b4 :> b3)
            @@ (x :> b1) @@ (y :> x) @@ (z :> y)
MCnHeight == (g :> 0) @@ (b1 :> 1) @@ (b2 :> 2) @@ (b3 :> 3) @@ (b4 :> 4)
             @@ (x :> 2) @@ (y :> 3) @@ (z :> 4)
MCPeerTip == <<z, b4>>
=============================================================================
