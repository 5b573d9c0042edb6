------------------------------- MODULE MCIndex -------------------------------
(***************************************************************************)
(* What the node keeps about blocks and about the transactions that wait   *)
(* for one: the block tree, the index with its skip pointers and the       *)
(* active chain, the Merkle tree of a block, the deployment states of the  *)
(* chain, the memory pool.  Each has an instance of its own; they share no *)
(* state, and scene says which of them moves.                              *)
(***************************************************************************)
EXTENDS MCBlockTree

CONSTANTS hash1, hash2, hash3, hash4,           \* leaves of Merkle trees
          hash5, hash6, hash7, hash8,
          p1, p2, p3, p4, p5, p6, p7, cb, base, \* pool transactions
          X, Y, tag, addr                       \* assets, a mark, an address

VARIABLES scene,
          top, pskip, vChain,
          leaves, branchpos, count, inner, matchlevel, branch, mutated, root,
          bits, stateCache, deployed, reorgs,
          poolChain, pool, disc, phase

indexVars == <<top, pskip, vChain>>
merkleVars == <<leaves, branchpos, count, inner, matchlevel, branch, mutated, root>>
bitsVars == <<bits, stateCache, deployed, reorgs>>
poolVars == <<poolChain, pool, disc, phase>>

-----------------------------------------------------------------------------
Index == INSTANCE ChainIndex WITH ForkHeight <- 9, MaxHeight <- 22

(* Up to the names of the hashes, all lists of at most six transactions,   *)
(* and up to eight that all differ or of which the last ones repeat those  *)
(* before them.                                                            *)
Hashes == <<hash1, hash2, hash3, hash4, hash5, hash6, hash7, hash8>>
Patterns[n \in 1 .. 6] ==
    IF n = 1 THEN {<<1>>}
    ELSE UNION {{Append(f, k) : k \in 1 .. Max(ToSet(f)) + 1} : f \in Patterns[n - 1]}
TxLists ==
    {[i \in DOMAIN f |-> Hashes[f[i]]] : f \in UNION {Patterns[n] : n \in 1 .. 6}}
    \cup {SubSeq(Hashes, 1, n) \o SubSeq(Hashes, n - m + 1, n) :
             <<n, m>> \in {x \in (1 .. 8) \X (0 .. 4) : x[2] <= x[1] /\ x[1] + x[2] <= 8}}

MerkleTree == INSTANCE Merkle
    WITH Leaf <- ToSet(Hashes), Lists <- TxLists, MaxLeaves <- 8

(* Periods of two blocks, both of which must signal.                       *)
Bits == INSTANCE VersionBits
    WITH nPeriod <- 2, nThreshold <- 2, nTimeStart <- 1, nTimeTimeout <- 2,
         MaxHeight <- 5, MaxTime <- 2, MaxReorgs <- 2,
         chain <- bits, cache <- stateCache

(* A package p1, p2, p6, p3 in which p1 can be replaced by p4; p5 spends a *)
(* coinbase; p7 must wait until an output of p1 is in the chain.  p1       *)
(* issues X and p6 reissues it.  The package can overtake p7: p6 freezes   *)
(* the address p7 moves an asset from, p3 issues and freezes what p7 does. *)
PoolTx == {p1, p2, p3, p4, p5, p6, p7}
PoolIns == (p1 :> {<<base, 0>>}) @@ (p2 :> {<<p1, 0>>}) @@ (p3 :> {<<p2, 0>>, <<p6, 0>>})
           @@ (p4 :> {<<base, 0>>}) @@ (p5 :> {<<cb, 0>>}) @@ (p6 :> {<<p2, 1>>})
           @@ (p7 :> {<<p1, 1>>})
Pool == INSTANCE Mempool
    WITH Tx <- PoolTx, Coinbase <- {cb}, Ins <- PoolIns, Confirmed <- {<<base, 0>>},
         Fee <- [t \in PoolTx |-> IF t = p4 THEN 5 ELSE 1],
         nLockTime <- [t \in PoolTx |-> IF t = p3 THEN 1 ELSE 0],
         nSequence <- [t \in PoolTx |-> IF t = p7 THEN 1 ELSE 0],
         OptIn <- {p1}, fEnableReplacement <- TRUE,
         Issue <- [t \in PoolTx |-> IF t = p1 THEN X ELSE IF t \in {p3, p4, p5, p7} THEN Y ELSE Null],
         Reissue <- [t \in PoolTx |-> IF t = p6 THEN X ELSE Null],
         Mark <- [t \in PoolTx |-> IF t \in {p3, p5, p7} THEN tag ELSE Null], Freeze <- {tag},
         Frozen <- [t \in PoolTx |-> IF t = p6 THEN addr ELSE Null],
         From <- [t \in PoolTx |-> IF t = p7 THEN addr ELSE Null],
         COINBASE_MATURITY <- 2, limitAncestorCount <- 3, limitDescendantCount <- 4,
         maxDescendantsToVisit <- 3, MAX_DISCONNECTED_TX_POOL_SIZE <- 3,
         MaxHeight <- 2, MaxTxs <- 2, MaxVictims <- 2, chain <- poolChain

ASSUME Pool!MempoolAssumption /\ MerkleTree!MerkleAssumption

-----------------------------------------------------------------------------
MCInit ==
    /\ scene \in {"tree", "index", "merkle", "bits", "pool"}
    /\ Init /\ Index!Init /\ MerkleTree!Init /\ Bits!Init /\ Pool!Init
    /\ scene # "merkle" => leaves = <<hash1>>

MCNext ==
    /\ \/ scene = "tree" /\ Next /\ UNCHANGED <<indexVars, merkleVars, bitsVars, poolVars>>
       \/ scene = "index" /\ Index!Next /\ UNCHANGED <<vars, merkleVars, bitsVars, poolVars>>
       \/ scene = "merkle" /\ MerkleTree!Next /\ UNCHANGED <<vars, indexVars, bitsVars, poolVars>>
       \/ scene = "bits" /\ Bits!Next /\ UNCHANGED <<vars, indexVars, merkleVars, poolVars>>
       \/ scene = "pool" /\ Pool!Next /\ UNCHANGED <<vars, indexVars, merkleVars, bitsVars>>
    /\ UNCHANGED scene

MCSpec == MCInit /\ [][MCNext]_<<scene, vars, indexVars, merkleVars, bitsVars, poolVars>>

-----------------------------------------------------------------------------
(* The state of every part keeps its type.                                 *)
TypesOK ==
    CASE scene = "tree" -> TypeOK
      [] scene = "index" -> Index!TypeOK
      [] scene = "merkle" -> MerkleTree!TypeOK
      [] scene = "bits" -> Bits!TypeOK
      [] scene = "pool" -> Pool!TypeOK

(* What CheckBlockIndex asserts of the tree: a block is marked as failed   *)
(* only if it or an ancestor was found invalid, mapBlocksUnlinked has      *)
(* exactly the blocks that wait for a parent, and setBlockIndexCandidates  *)
(* those that are as good as the tip.                                      *)
CheckBlockIndex == scene = "tree" => FailedHaveCause /\ UnlinkedExact /\ CandidatesExact

(* GetAncestor finds the block at every height below a block of either     *)
(* branch, by whatever mixture of pskip and pprev; the array of CChain     *)
(* holds the chain of its last block, whichever tips SetTip was called for *)
(* before; FindFork finds the last block in common with the active chain;  *)
(* the place where headers are sent from, for the locator of a block known *)
(* here or not, is a block of both chains and no further below the last    *)
(* one of both than the block is above it (GetLocator,                     *)
(* FindForkInGlobalIndex).                                                 *)
SearchesExact ==
    scene = "index" => /\ Index!AncestorExact /\ Index!ChainExact
                       /\ Index!FindForkExact /\ Index!LocatorFindsFork

(* The one pass of MerkleComputation computes the root of the tree, and    *)
(* the branch it collects proves that the transaction is in it.            *)
MerkleExact == scene = "merkle" => MerkleTree!RootExact /\ MerkleTree!BranchProves

(* A list of transactions with the root of a shorter one is flagged as     *)
(* mutated, and one without repetitions is not, although hashes of its odd *)
(* levels are paired with themselves.                                      *)
MutationFlagged == scene = "merkle" => MerkleTree!MutationFlagged

(* Whatever was asked before, and on whichever branch, the cache of        *)
(* deployment states has for every block what the rules give its chain     *)
(* (GetStateFor), GetStateSinceHeightFor returns the first height from     *)
(* which on every block has the state, and a period that locked in was     *)
(* never reported as one that no longer could (GetStateStatisticsFor).     *)
DeploymentExact ==
    scene = "bits" => Bits!CacheExact /\ Bits!SinceExact /\ Bits!StatsSound

(* Once a reorganization is over, a block of all the transactions of the   *)
(* pool would be valid: every input is an output of another one or an      *)
(* unspent, mature output of the chain, and nothing is spent twice         *)
(* (UpdateMempoolForReorg, removeForReorg).                                *)
PoolMinable == scene = "pool" => Pool!InputsAvailable /\ Pool!NoConflicts

(* The links and counters kept in place are those of the graph of the      *)
(* transactions in the pool (UpdateTransactionsFromBlock), and no update   *)
(* takes a counter to zero on the way (UpdateDescendantState,              *)
(* UpdateAncestorState).                                                   *)
PackagesExact == scene = "pool" => Pool!PackagesExact /\ Pool!CountersPositive

=============================================================================
