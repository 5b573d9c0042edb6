------------------------------- MODULE MCChain -------------------------------
(***************************************************************************)
(* ChainState where crashes stop the process, on the larger tree of        *)
(* MCChainState, and where they also lose what was written but not synced, *)
(* from an empty data directory on the smaller one; scene says which.      *)
(***************************************************************************)
EXTENDS MCChainState

VARIABLE scene

Power == INSTANCE ChainState
    WITH Block <- SmallBlock, Parent <- SmallParent, Height <- SmallHeight,
         Vtx <- SmallVtx,
         PowerLoss <- TRUE, Fresh <- TRUE

MCInit == \/ scene = "crash" /\ Init
          \/ scene = "power" /\ Power!Init

MCNext == /\ \/ scene = "crash" /\ Next
             \/ scene = "power" /\ Power!Next
          /\ UNCHANGED scene

MCSpec == MCInit /\ [][MCNext]_<<scene, vars>>

-----------------------------------------------------------------------------
InEach(crash, power) == IF scene = "crash" THEN crash ELSE power

(* The state of the node, in memory and on disk, keeps its type.           *)
NodeTypeOK == InEach(TypeOK, Power!TypeOK)
=============================================================================
