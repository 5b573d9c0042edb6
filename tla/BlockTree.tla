----------------------------- MODULE BlockTree ------------------------------
(***************************************************************************)
(* The block tree and the choice of the active chain (validation.cpp):     *)
(* headers and blocks that arrive in any order, the candidate tips, and    *)
(* ActivateBestChain, which several threads run at once and which gives up *)
(* cs_main after every step towards the chain it has chosen; the RPCs      *)
(* invalidateblock, reconsiderblock and preciousblock; a restart.          *)
(*                                                                         *)
(* A step of the model is what happens under one acquisition of cs_main.   *)
(* Pruning and system errors are left out; the blocks' contents are two    *)
(* sets, those that fail ContextualCheckBlock and those that fail          *)
(* ConnectBlock.  A block that fails CheckBlock leaves no trace.           *)
(***************************************************************************)
EXTENDS Integers, FiniteSets, SequencesExt

CONSTANTS Block, Genesis, Null,
          Parent,         \* pprev, Null for the genesis block
          Work,           \* nChainWork
          Address,        \* order of the CBlockIndex pointers
          Malformed,      \* blocks that fail ContextualCheckBlock
          Invalid,        \* blocks that fail ConnectBlock
          Thread,         \* threads that process blocks and RPCs
          Idle,           \* the thread is not in ActivateBestChain
          Invalidatable,  \* the blocks invalidateblock is called for
          Reconsidered,   \* the blocks reconsiderblock is called for
          Precious,       \* the blocks preciousblock is called for
          MaxPrecious,    \* bound on the calls of preciousblock
          MaxUser,        \* bound on the calls of the other two RPCs
          MaxRestarts     \* bound on restarts

(* The chain that ends in b, from the genesis block.                       *)
Chain[b \in Block \cup {Null}] ==
    IF b = Null THEN <<>> ELSE Append(Chain[Parent[b]], b)

ChainOf == [b \in Block \cup {Null} |-> Range(Chain[b])]

Height == [b \in Block |-> Len(Chain[b]) - 1]

Highest(S) == CHOOSE b \in S : \A c \in S : Height[c] <= Height[b]

ASSUME TreeAssumption ==
    /\ Genesis \in Block /\ Null \notin Block /\ Idle \notin Block \cup {Null}
    /\ Parent \in [Block -> Block \cup {Null}]
    /\ \A b \in Block : Parent[b] = Null <=> b = Genesis
    /\ Work \in [Block -> Nat]
    /\ \A b \in Block \ {Genesis} : Work[Parent[b]] < Work[b]
    /\ Address \in [Block -> Nat]
    /\ \A a, b \in Block : Address[a] = Address[b] => a = b
    /\ Genesis \notin Malformed \cup Invalid \cup Invalidatable

VARIABLES
    header,       \* the blocks in mapBlockIndex
    have,         \* BLOCK_HAVE_DATA, hence BLOCK_VALID_TRANSACTIONS
    linked,       \* nChainTx > 0
    scripts,      \* BLOCK_VALID_SCRIPTS
    failedValid,  \* BLOCK_FAILED_VALID
    failedChild,  \* BLOCK_FAILED_CHILD
    seqId,        \* nSequenceId
    nextSeq,      \* nBlockSequenceId
    reverseSeq,   \* nBlockReverseSequenceId
    lastPrecious, \* nLastPreciousChainwork
    candidates,   \* setBlockIndexCandidates
    unlinked,     \* mapBlocksUnlinked: the blocks, in order of insertion
    failedBlocks, \* g_failed_blocks
    tip,          \* chainActive.Tip()
    mostWork,     \* pindexMostWork of the threads in ActivateBestChain
    user,         \* calls of invalidateblock and reconsiderblock so far
    precious,     \* calls of preciousblock so far
    restarts,     \* restarts so far
    asserted      \* an assert() failed

counters == <<nextSeq, reverseSeq, lastPrecious>>
bounds   == <<user, precious, restarts>>
tree     == <<header, have, linked, scripts, failedValid, failedChild, seqId>>
vars     == <<tree, counters, candidates, unlinked, failedBlocks, tip,
              mostWork, bounds, asserted>>

(* Every variable has its type.                                            *)
TypeOK ==
    /\ have \subseteq header /\ header \subseteq Block
    /\ linked \subseteq have /\ scripts \subseteq have
    /\ failedValid \subseteq header /\ failedChild \subseteq header
    /\ seqId \in [Block -> Int]
    /\ nextSeq \in Nat /\ reverseSeq \in Int /\ lastPrecious \in Nat
    /\ candidates \subseteq linked
    /\ unlinked \in Seq(have)
    /\ failedBlocks \subseteq header
    /\ tip \in linked
    /\ mostWork \in [Thread -> linked \cup {Null, Idle}]
    /\ asserted \in BOOLEAN

failed == failedValid \cup failedChild

(* CBlockIndex::IsValid(BLOCK_VALID_TRANSACTIONS).                         *)
IsValid(b) == b \in have /\ b \notin failed

(* CBlockIndexWorkComparator: a sorts before b, which is the better one.   *)
Worse(a, b, seq) ==
    \/ Work[a] < Work[b]
    \/ Work[a] = Work[b] /\ seq[a] > seq[b]
    \/ Work[a] = Work[b] /\ seq[a] = seq[b] /\ Address[a] > Address[b]

Best(S) == CHOOSE b \in S : \A c \in S : ~Worse(b, c, seqId)

(* Mutant: the tip itself is dropped as well.                              *)
PrunedTipToo(cands, t, seq) == {b \in cands : Worse(t, b, seq)}

(* PruneBlockIndexCandidates.                                              *)
Pruned(cands, t, seq) == {b \in cands : ~Worse(b, t, seq)}

Init ==
    /\ header = {Genesis} /\ have = {Genesis} /\ linked = {Genesis}
    /\ scripts = {Genesis} /\ failedValid = {} /\ failedChild = {}
    /\ seqId = [b \in Block |-> 0]
    /\ nextSeq = 1 /\ reverseSeq = -1 /\ lastPrecious = 0
    /\ candidates = {Genesis} /\ unlinked = <<>> /\ failedBlocks = {}
    /\ tip = Genesis
    /\ mostWork = [t \in Thread |-> Idle]
    /\ user = 0 /\ precious = 0 /\ restarts = 0
    /\ asserted = FALSE

-----------------------------------------------------------------------------
(***************************************************************************)
(* AcceptBlockHeader.  A header whose parent is marked failed is refused;  *)
(* so is one below a block of g_failed_blocks, and then the blocks between *)
(* are marked.                                                             *)
(***************************************************************************)
ParentUsable(b) == Parent[b] \in header /\ Parent[b] \notin failed

FailedAbove(b) ==
    IF Parent[b] \in scripts THEN {} ELSE ChainOf[Parent[b]] \cap failedBlocks

(* The first one the loop over the std::set of pointers meets.             *)
FirstFailed(b) ==
    CHOOSE f \in FailedAbove(b) :
        \A e \in FailedAbove(b) : Address[f] <= Address[e]

HeaderAccepted(b) ==
    \/ b \in header /\ b \notin failed
    \/ b \notin header /\ ParentUsable(b) /\ FailedAbove(b) = {}

RejectHeader(b) ==
    /\ ~asserted
    /\ b \notin header /\ ParentUsable(b) /\ FailedAbove(b) # {}
    /\ asserted' = (FirstFailed(b) \notin failedValid)
    /\ failedChild' = failedChild
            \cup (ChainOf[Parent[b]] \ ChainOf[FirstFailed(b)])
    /\ UNCHANGED <<header, have, linked, scripts, failedValid, seqId, counters,
                   candidates, unlinked, failedBlocks, tip, mostWork, bounds>>

AcceptHeader(b) ==
    /\ ~asserted
    /\ b \notin header /\ HeaderAccepted(b)
    /\ header' = header \cup {b}
    /\ UNCHANGED <<have, linked, scripts, failedValid, failedChild, seqId,
                   counters, candidates, unlinked, failedBlocks, tip, mostWork,
                   bounds, asserted>>

-----------------------------------------------------------------------------
(***************************************************************************)
(* ReceivedBlockTransactions.  When the parent is linked, the block and    *)
(* what waits for it in mapBlocksUnlinked are linked, breadth first, and   *)
(* numbered in that order.                                                 *)
(***************************************************************************)
Waiting(b) == SelectSeq(unlinked, LAMBDA c : Parent[c] = b)

NewlyLinked(b) ==
    FoldLeft(LAMBDA queue, i : IF i > Len(queue) THEN queue
                               ELSE queue \o Waiting(queue[i]),
             <<b>>, [i \in 1 .. Cardinality(Block) |-> i])

StillWaiting(new) == SelectSeq(unlinked, LAMBDA c : Parent[c] \notin Range(new))

(* nSequenceId once the blocks of new have been numbered.                  *)
Numbered(new) ==
    [i \in Range(new) |-> nextSeq + (CHOOSE k \in DOMAIN new : new[k] = i) - 1]
        @@ seqId

Link(b) ==
    LET new == NewlyLinked(b)
        seq == Numbered(new)
    IN  /\ linked' = linked \cup Range(new)
        /\ seqId' = seq
        /\ nextSeq' = nextSeq + Len(new)
        /\ candidates' = candidates
                \cup {c \in Range(new) : ~Worse(c, tip, seq)}
        /\ unlinked' = StillWaiting(new)

ReceivedBlockTransactions(b) ==
    /\ have' = have \cup {b}
    /\ IF Parent[b] \in linked
       THEN Link(b)
       ELSE /\ unlinked' = IF Parent[b] \in failed
                           THEN unlinked ELSE Append(unlinked, b)
            /\ UNCHANGED <<linked, seqId, nextSeq, candidates>>

(* ProcessNewBlock up to ActivateBestChain: AcceptBlock of a block that is *)
(* new and was asked for.                                                  *)
AcceptBlock(t, b) ==
    /\ ~asserted /\ mostWork[t] = Idle
    /\ HeaderAccepted(b)
    /\ b \notin have
    /\ header' = header \cup {b}
    /\ IF b \in Malformed
       THEN /\ failedValid' = failedValid \cup {b}
            /\ UNCHANGED <<have, linked, seqId, nextSeq, candidates, unlinked,
                           mostWork>>
       ELSE /\ ReceivedBlockTransactions(b)
            /\ mostWork' = [mostWork EXCEPT ![t] = Null]
            /\ UNCHANGED failedValid
    /\ UNCHANGED <<scripts, failedChild, reverseSeq, lastPrecious,
                   failedBlocks, tip, bounds, asserted>>
-----------------------------------------------------------------------------
(***************************************************************************)
(* FindMostWorkChain: the best candidate whose chain has no failed block   *)
(* above the active chain.  The others are dropped on the way, with the    *)
(* blocks between, which are marked as children of a failed block.         *)
(***************************************************************************)
Choosing == [cands: SUBSET Block, child: SUBSET Block]

FindMostWorkChain[s \in Choosing] ==
    IF s.cands = {} THEN [best |-> Null, cands |-> {}, child |-> s.child]
    ELSE LET b   == Best(s.cands)
             bad == (ChainOf[b] \ ChainOf[tip]) \cap (failedValid \cup s.child)
         IN  IF bad = {}
             THEN [best |-> b, cands |-> s.cands, child |-> s.child]
             ELSE LET f == Highest(bad)
                      above == ChainOf[b] \ ChainOf[f]
                  IN  FindMostWorkChain[[cands |-> s.cands \ (above \cup {f}),
                                         child |-> s.child \cup above]]

(* The chain a thread works towards: the one it has, or the best now.      *)
Target(t) ==
    IF mostWork[t] = Null
    THEN FindMostWorkChain[[cands |-> candidates, child |-> failedChild]]
    ELSE [best |-> mostWork[t], cands |-> candidates, child |-> failedChild]

Fork(a, b) == Highest(ChainOf[a] \cap ChainOf[b])

(***************************************************************************)
(* ActivateBestChainStep: disconnect back to the fork, then connect blocks *)
(* of the path until one is invalid or the tip is better than it was; stop *)
(* is where it ends.                                                       *)
(***************************************************************************)
Path(to) == LET fork == Fork(tip, to)
            IN  SelectSeq(Chain[to], LAMBDA b : b \notin ChainOf[fork])

Stop(path) ==
    LET stops == {i \in DOMAIN path : path[i] \in Invalid \/ Work[path[i]] > Work[tip]}
    IN  IF stops = {} THEN Len(path) ELSE Min(stops)

ActivateBestChainStep(to, cands, path, stop) ==
    LET bad  == IF stop > 0 /\ path[stop] \in Invalid THEN {path[stop]} ELSE {}
        done == SubSeq(path, 1, IF bad = {} THEN stop ELSE stop - 1)
        new  == IF done = <<>> THEN Fork(tip, to) ELSE Last(done)
    IN  [tip |-> new, connected |-> Range(done), bad |-> bad,
         cands |-> IF done = <<>> THEN cands ELSE Pruned(cands, new, seqId)]

(* Mutant: the target is not wiped when a block on the way is invalid.     *)
NextTargetKept(to, r) == IF r.tip = to THEN Idle ELSE to

(* The loop of ActivateBestChain goes on until the target is the tip; the  *)
(* target is wiped when it turned out invalid.                             *)
NextTarget(to, r) ==
    IF r.bad # {} THEN Null ELSE IF r.tip = to THEN Idle ELSE to

(***************************************************************************)
(* One turn of the loop of ActivateBestChain, after which cs_main is       *)
(* released.  An invalid block is marked and no longer a candidate         *)
(* (InvalidBlockFound).  With nothing to do, ActivateBestChain returns.    *)
(***************************************************************************)
ActivateBestChain(t) ==
    /\ ~asserted /\ mostWork[t] # Idle
    /\ \E target \in {Target(t)} :
        /\ failedChild' = target.child
        /\ IF target.best \in {Null, tip}
           THEN /\ candidates' = target.cands
                /\ mostWork' = [mostWork EXCEPT ![t] = Idle]
                /\ UNCHANGED <<tip, scripts, failedValid, failedBlocks,
                               asserted>>
           ELSE \E path \in {Path(target.best)} : \E stop \in {Stop(path)} :
                \E r \in {ActivateBestChainStep(target.best, target.cands, path, stop)} :
                /\ tip' = r.tip
                /\ scripts' = scripts \cup
                        (r.connected \ (failedValid \cup target.child))
                /\ failedValid' = failedValid \cup r.bad
                /\ failedBlocks' = failedBlocks \cup r.bad
                /\ candidates' = r.cands \ r.bad
                /\ asserted' = (r.connected # {} /\ r.cands = {})
                /\ mostWork' =
                        [mostWork EXCEPT ![t] = NextTarget(target.best, r)]
    /\ UNCHANGED <<header, have, linked, seqId, counters, unlinked, bounds>>

-----------------------------------------------------------------------------
(* Mutant: blocks without nChainTx are put back among the candidates.      *)
EligibleUnlinked(bad) == have \ bad

(* The blocks with IsValid(BLOCK_VALID_TRANSACTIONS) and nChainTx.         *)
Eligible(bad) == linked \ bad

(***************************************************************************)
(* InvalidateBlock: disconnect back to the parent, mark what was active    *)
(* and the block, and put every block as good as the new tip back among    *)
(* the candidates.                                                         *)
(***************************************************************************)
InvalidateBlock(t, b) ==
    LET above  == IF b \in ChainOf[tip] THEN ChainOf[tip] \ ChainOf[b] ELSE {}
        newTip == IF b \in ChainOf[tip] THEN Parent[b] ELSE tip
        nowBad == failed \cup above \cup {b}
    IN
    /\ ~asserted /\ mostWork[t] = Idle /\ user < MaxUser
    /\ b \in header
    /\ failedValid' = failedValid \cup {b}
    /\ failedChild' = failedChild \cup above
    /\ failedBlocks' = failedBlocks \cup {b}
    /\ tip' = newTip
    /\ candidates' = (candidates \ (above \cup {b}))
            \cup {c \in Eligible(nowBad) : ~Worse(c, newTip, seqId)}
    /\ mostWork' = [mostWork EXCEPT ![t] = Null]
    /\ user' = user + 1
    /\ UNCHANGED <<header, have, linked, scripts, seqId, counters, unlinked,
                   precious, restarts, asserted>>

(* Mutant: the blocks are not made candidates again.                       *)
RevivedNone(below) == {}

(* The blocks made candidates when their marks are removed.                *)
Revived(below) == {c \in below \cap linked : Worse(tip, c, seqId)}

(* Mutant: only BLOCK_FAILED_VALID is removed.                             *)
StillChildAll(cleared) == failedChild

StillChild(cleared) == failedChild \ cleared

(***************************************************************************)
(* ResetBlockFailureFlags: the marks of the block, its descendants and its *)
(* ancestors are removed.                                                  *)
(***************************************************************************)
ResetBlockFailureFlags(t, b) ==
    LET below   == {c \in header : ~IsValid(c) /\ b \in ChainOf[c]}
        cleared == below \cup ChainOf[b]
    IN
    /\ ~asserted /\ mostWork[t] = Idle /\ user < MaxUser
    /\ b \in header
    /\ failedValid' = failedValid \ cleared
    /\ failedChild' = StillChild(cleared)
    /\ candidates' = candidates \cup Revived(below)
    /\ failedBlocks' = failedBlocks \ below
    /\ mostWork' = [mostWork EXCEPT ![t] = Null]
    /\ user' = user + 1
    /\ UNCHANGED <<header, have, linked, scripts, seqId, counters, unlinked,
                   tip, precious, restarts, asserted>>

(* PreciousBlock: the block is treated as if it had come before all others *)
(* of its work.                                                            *)
PreciousBlock(t, b) ==
    LET rev  == IF Work[tip] > lastPrecious THEN -1 ELSE reverseSeq
        seq  == [seqId EXCEPT ![b] = rev]
        left == IF IsValid(b) /\ b \in linked
                THEN Pruned(candidates \cup {b}, tip, seq)
                ELSE candidates \ {b}
    IN
    /\ ~asserted /\ mostWork[t] = Idle /\ precious < MaxPrecious
    /\ b \in header /\ Work[b] >= Work[tip]
    /\ seqId' = seq
    /\ reverseSeq' = rev - 1
    /\ lastPrecious' = Work[tip]
    /\ candidates' = left
    /\ asserted' = (IsValid(b) /\ b \in linked /\ left = {})
    /\ mostWork' = [mostWork EXCEPT ![t] = Null]
    /\ precious' = precious + 1
    /\ UNCHANGED <<header, have, linked, scripts, failedValid, failedChild,
                   nextSeq, unlinked, failedBlocks, tip, user, restarts>>

-----------------------------------------------------------------------------
(***************************************************************************)
(* A shutdown between two steps, LoadBlockIndexDB and LoadChainTip at the  *)
(* next start, and the ActivateBestChain of ThreadImport.  Marks set by    *)
(* FindMostWorkChain are not written unless the entry is dirty for some    *)
(* other reason.                                                           *)
(***************************************************************************)
Restart(t, kept) ==
    LET zero  == [b \in Block |-> 0]
        child == kept \cup
                 {b \in header \ failedValid :
                    (ChainOf[b] \ {b}) \cap (failedValid \cup kept) # {}}
        link  == {b \in have : ChainOf[b] \subseteq have}
        left  == Pruned(link \ (failedValid \cup child), tip, zero)
        Before(a, b) == \/ Height[a] < Height[b]
                        \/ Height[a] = Height[b] /\ Address[a] < Address[b]
    IN
    /\ ~asserted /\ restarts < MaxRestarts
    /\ restarts' = restarts + 1
    /\ failedChild' = child
    /\ linked' = link
    /\ unlinked' = SetToSortSeq(have \ link, Before)
    /\ seqId' = zero /\ nextSeq' = 1 /\ reverseSeq' = -1 /\ lastPrecious' = 0
    /\ candidates' = left
    /\ asserted' = (left = {})
    /\ failedBlocks' = {}
    /\ mostWork' = [u \in Thread |-> IF u = t THEN Null ELSE Idle]
    /\ UNCHANGED <<header, have, scripts, failedValid, tip, user, precious>>

Next ==
    \/ \E b \in Block : RejectHeader(b) \/ AcceptHeader(b)
    \/ \E t \in Thread :
        \/ \E b \in Block : AcceptBlock(t, b)
        \/ ActivateBestChain(t)
        \/ \E b \in Invalidatable : InvalidateBlock(t, b)
        \/ \E b \in Reconsidered : ResetBlockFailureFlags(t, b)
        \/ \E b \in Precious : PreciousBlock(t, b)
        \/ \E kept \in SUBSET failedChild : Restart(t, kept)

Spec == Init /\ [][Next]_vars

(* A thread that is in ActivateBestChain goes on with it.                  *)
FairSpec == Spec /\ \A t \in Thread : WF_vars(ActivateBestChain(t))

-----------------------------------------------------------------------------
(***************************************************************************)
(* Properties.                                                             *)
(***************************************************************************)
AllIdle == \A t \in Thread : mostWork[t] = Idle

(* "Make the best chain active": when no thread is at it, no chain whose   *)
(* blocks are all there and not marked failed has more work than the       *)
(* active one, and the active chain is such a chain.                       *)
BestChainActive ==
    LET Usable(b) == b \in linked /\ ChainOf[b] \cap failed = {}
    IN  AllIdle => /\ Usable(tip)
                   /\ \A b \in linked : Usable(b) => Work[b] <= Work[tip]

(* The asserts of CheckBlockIndex on marks: a block is marked failed only  *)
(* below (or at) a block that is invalid itself.                           *)
FailedHaveCause ==
    \A b \in failed : ChainOf[b] \cap failedValid # {}

(* The asserts of CheckBlockIndex on mapBlocksUnlinked: a block whose data *)
(* came before that of an ancestor waits there to be linked, unless it is  *)
(* below an invalid block; no other block does.                            *)
UnlinkedExact ==
    \A b \in have :
        /\ Contains(unlinked, b) => ~(ChainOf[b] \subseteq have)
        /\ ~(ChainOf[b] \subseteq have) /\ ChainOf[b] \cap failedValid = {}
                => Contains(unlinked, b)

(* The asserts of CheckBlockIndex on setBlockIndexCandidates and nChainTx, *)
(* at the end of an ActivateBestChain: a block has nChainTx when it and    *)
(* all its ancestors have data, and it is a candidate when moreover it is  *)
(* as good as the tip and not below an invalid block.                      *)
CandidatesExact ==
    /\ linked = {b \in have : ChainOf[b] \subseteq have}
    /\ \A b \in header \ linked : seqId[b] <= 0
    /\ AllIdle =>
        \A b \in header :
            IF b \in linked /\ ~Worse(b, tip, seqId)
            THEN ChainOf[b] \cap failedValid = {} => b \in candidates
            ELSE b \notin candidates

(* No assert() of AcceptBlockHeader or PruneBlockIndexCandidates fails.    *)
NoAssertionFails == ~asserted

(* Every ActivateBestChain comes to an end.                                *)
ActivationEnds == \A t \in Thread : mostWork[t] # Idle ~> mostWork[t] = Idle
=============================================================================
