----------------------------- MODULE MCMempool -----------------------------
(***************************************************************************)
(* The memory pool of a node where two transactions issue the same asset   *)
(* from different coins, and a third one spends an output of the first.    *)
(***************************************************************************)
EXTENDS Mempool, TLC

CONSTANTS first, second, child, base, X

MCConfirmed == {<<base, 0>>, <<base, 1>>}
MCTx == {first, second, child}
MCIns == (first :> {<<base, 0>>}) @@ (second :> {<<base, 1>>}) @@ (child :> {<<first, 0>>})
MCFee == [t \in MCTx |-> 1]
MCLock == [t \in MCTx |-> 0]
MCIssue == (first :> X) @@ (second :> X) @@ (child :> Null)
MCNone == [t \in MCTx |-> Null]
=============================================================================
