------------------------------- MODULE Mempool -------------------------------
(***************************************************************************)
(* The memory pool (txmempool.cpp) and the code of validation.cpp that     *)
(* fills it, empties it when a block is connected and repairs it after a   *)
(* reorganization.  The pool keeps, beside its transactions, links between *)
(* parents and children and for every entry the number of its ancestors    *)
(* and descendants, all updated in place.  cs_main is held from the first  *)
(* DisconnectTip of a reorganization to the end of UpdateMempoolForReorg,  *)
(* so that no transaction is accepted in between.                          *)
(***************************************************************************)
EXTENDS Naturals, FiniteSets, SequencesExt

CONSTANTS Tx, Coinbase, Null,
          Ins,          \* the outputs, <<transaction, n>>, a transaction spends
          Confirmed,    \* outputs of old, never undone transactions
          Fee,
          nLockTime,    \* the height up to which a transaction is not final
          nSequence,    \* blocks its inputs must be buried under, 0 if disabled
          OptIn,        \* transactions that signal replaceability
          Issue,        \* the asset a transaction issues, or Null
          Reissue,      \* the asset a transaction reissues, or Null
          Mark,         \* the tag or freeze a transaction carries, or Null
          Freeze,       \* the marks that are global freezes or unfreezes
          Frozen,       \* the address a transaction freezes, or Null
          From,         \* the address it moves a restricted asset from, or Null
          fEnableReplacement,
          COINBASE_MATURITY,
          limitAncestorCount, limitDescendantCount, maxDescendantsToVisit,
          MAX_DISCONNECTED_TX_POOL_SIZE,
          MaxHeight, MaxTxs,  \* bounds on the chain and on a block
          MaxVictims          \* bound on the packages LimitMempoolSize removes

MempoolAssumption ==
    /\ Null \notin Tx \cup Coinbase
    /\ {Fee, nLockTime, nSequence} \subseteq [Tx -> Nat]
    /\ \A t \in Tx : \A o \in Ins[t] :
           o \in Confirmed \/ (o[1] \in (Tx \cup Coinbase) \ {t})
    /\ {COINBASE_MATURITY, MAX_DISCONNECTED_TX_POOL_SIZE, MaxHeight, MaxTxs, MaxVictims}
          \subseteq Nat

VARIABLES
    chain,  \* the blocks of the active chain: [cb, txs]
    pool,   \* the memory pool
    disc,   \* the disconnectpool, oldest entry first
    phase   \* "idle", or within ActivateBestChainStep "down" or "up"

vars == <<chain, pool, disc, phase>>

Asset == ({Issue[t] : t \in Tx} \cup {Reissue[t] : t \in Tx}) \ {Null}
Marks == {Mark[t] : t \in Tx} \ {Null}
Senders == {From[t] : t \in Tx} \ {Null}
Nothing == [t \in Tx |-> {}]
Zero == [t \in Tx |-> 0]
NoLock == [height |-> 0, chain |-> <<>>]

EmptyPool ==
    [tx |-> {},            \* mapTx
     next |-> {},          \* mapNextTx
     par |-> Nothing, chi |-> Nothing,      \* mapLinks
     nAnc |-> Zero, nDesc |-> Zero,
     lp |-> [t \in Tx |-> NoLock],         \* LockPoints of the entries
     issued |-> [a \in Asset |-> Null],     \* mapAssetToHash
     reissued |-> [a \in Asset |-> Null],   \* mapReissuedAssets
     marks |-> [k \in Marks |-> {}],
     from |-> [a \in Senders |-> {}],      \* mapAddressesMarkedFrozen
     asserts |-> TRUE]     \* no assert on the counters failed

Init == chain = <<>> /\ pool = EmptyPool /\ disc = <<>> /\ phase = "idle"

-----------------------------------------------------------------------------
(* What a chain has made and spent.                                        *)
TxsOf(c) == UNION {ToSet(c[h].txs) : h \in DOMAIN c}
CoinbasesOf(c) == {c[h].cb : h \in DOMAIN c} \ {Null}
SpentBy(c) == UNION {Ins[t] : t \in TxsOf(c)}
HaveCoin(c, o) ==
    /\ o \in Confirmed \/ o[1] \in TxsOf(c) \cup CoinbasesOf(c)
    /\ o \notin SpentBy(c)
HeightOf(c, cb) == CHOOSE h \in DOMAIN c : c[h].cb = cb
Mature(c, o) ==
    o[1] \in CoinbasesOf(c) =>
        Len(c) + 1 >= HeightOf(c, o[1]) + COINBASE_MATURITY
IsFinalTx(t, h) == nLockTime[t] < h

Issued(c) == {Issue[t] : t \in TxsOf(c)} \ {Null}
AddressesFrozen(c) == {Frozen[t] : t \in TxsOf(c)} \ {Null}

(* The links of a transaction, transitively.                               *)
Steps == 0 .. Cardinality(Tx)
Reach(links, S) ==
    LET R[n \in Steps] == IF n = 0 THEN S
                          ELSE LET T == R[n - 1] IN T \cup UNION {links[t] : t \in T}
    IN  R[Cardinality(Tx)]

CalculateDescendants(m, S) == Reach(m.chi, S)
SearchParents(m, t) == {p \in m.tx : \E o \in Ins[t] : o[1] = p}
CalculateMemPoolAncestors(m, parents) == Reach(m.par, parents)
Spenders(m, outs) == {e[2] : e \in {x \in m.next : x[1] \in outs}}

(* CheckSequenceLocks (BIP 68), for locks told in blocks.  The lock points *)
(* of an entry are the first height its transaction can have and the chain *)
(* up to maxInputBlock, the last one with an input: they are good as long  *)
(* as that block is in the active chain.  Inputs made in the pool are      *)
(* taken to be mined in the next block.                                    *)
InputHeight(pooled, c, o) ==
    IF o[1] \in pooled THEN Len(c) + 1
    ELSE IF o \in Confirmed THEN 0
    ELSE CHOOSE h \in DOMAIN c : o[1] \in ToSet(c[h].txs) \cup {c[h].cb}

LockPoints(pooled, c, t) ==
    LET heights == {InputHeight(pooled, c, o) : o \in Ins[t]}
    IN  IF nSequence[t] = 0 THEN NoLock
        ELSE [height |-> Max(heights) + nSequence[t],
              chain |-> SubSeq(c, 1, Max({0} \cup (heights \ {Len(c) + 1})))]

CheckSequenceLocks(lp, c) == lp.height <= Len(c) + 1

(* Mutant: lock points are taken to be good for ever.                      *)
LockPointsAlways(lp, c) == TRUE

TestLockPointValidity(lp, c) == IsPrefix(lp.chain, c)

-----------------------------------------------------------------------------
(***************************************************************************)
(* Adding and removing entries.                                            *)
(***************************************************************************)
addUnchecked(m, t, ancestors, lp) ==
    LET parents == SearchParents(m, t)
    IN  [m EXCEPT
           !.tx = @ \cup {t},
           !.next = @ \cup {<<o, t>> : o \in {x \in Ins[t] : Spenders(m, {x}) = {}}},
           !.par[t] = parents,
           !.chi = [p \in Tx |-> IF p \in parents THEN @[p] \cup {t}
                                 ELSE IF p = t THEN {} ELSE @[p]],
           !.lp[t] = lp,
           !.nAnc[t] = 1 + Cardinality(ancestors),
           !.nDesc = [a \in Tx |-> IF a \in ancestors THEN @[a] + 1
                                   ELSE IF a = t THEN 1 ELSE @[a]]]

removeUnchecked(m, S) ==
    [m EXCEPT
       !.tx = @ \ S,
       !.next = {e \in @ : e[1] \notin UNION {Ins[t] : t \in S}},
       !.par = [t \in Tx |-> IF t \in S THEN {} ELSE @[t]],
       !.chi = [t \in Tx |-> IF t \in S THEN {} ELSE @[t]],
       !.nAnc = [t \in Tx |-> IF t \in S THEN 0 ELSE @[t]],
       !.nDesc = [t \in Tx |-> IF t \in S THEN 0 ELSE @[t]],
       !.lp = [t \in Tx |-> IF t \in S THEN NoLock ELSE @[t]],
       !.issued = [a \in Asset |-> IF \E t \in S : Issue[t] = a THEN Null ELSE @[a]],
       !.reissued = [a \in Asset |-> IF @[a] \in S THEN Null ELSE @[a]],
       !.marks = [k \in Marks |-> @[k] \ S],
       !.from = [a \in Senders |-> @[a] \ S]]

(* UpdateForRemoveFromMempool: the counters first, while the links are     *)
(* still there, then the links.                                            *)
UpdateForRemoveFromMempool(m, S, updateDescendants) ==
    LET below(t) == {r \in S : t \in CalculateDescendants(m, {r}) \ {r}}
        above(t) == {r \in S : t \in CalculateMemPoolAncestors(m, m.par[r])}
        nAnc == [t \in Tx |-> IF updateDescendants THEN Cardinality(below(t)) ELSE 0]
        nDesc == [t \in Tx |-> Cardinality(above(t))]
    IN  [m EXCEPT
           !.asserts = @ /\ \A t \in m.tx : m.nAnc[t] > nAnc[t] /\ m.nDesc[t] > nDesc[t],
           !.nAnc = [t \in Tx |-> IF @[t] > nAnc[t] THEN @[t] - nAnc[t] ELSE 0],
           !.nDesc = [t \in Tx |-> IF @[t] > nDesc[t] THEN @[t] - nDesc[t] ELSE 0],
           !.chi = [t \in Tx |-> @[t] \ {r \in S : t \in m.par[r]}],
           !.par = [t \in Tx |-> @[t] \ {r \in S : t \in m.chi[r]}]]

RemoveStaged(m, S, updateDescendants) ==
    removeUnchecked(UpdateForRemoveFromMempool(m, S, updateDescendants), S)

removeRecursive(m, t) ==
    LET origin == IF t \in m.tx THEN {t}
                  ELSE {e[2] : e \in {x \in m.next : x[1][1] = t}}
    IN  RemoveStaged(m, CalculateDescendants(m, origin), FALSE)

removeConflicts(m, t) ==
    FoldLeft(LAMBDA n, o : FoldLeft(removeRecursive, n,
                                    SetToSeq(Spenders(n, {o}) \ {t})),
             m, SetToSeq(Ins[t]))

(* What removeForBlock does for a transaction of the block, and afterwards *)
(* for every transaction of the pool that the block made invalid: it goes, *)
(* its children stay, and its conflicts go with all their descendants.     *)
RemoveMined(m, t) ==
    removeConflicts(IF t \in m.tx THEN RemoveStaged(m, {t}, TRUE) ELSE m, t)

(* CheckTxAssets.  The map of the reissues that are in the pool is looked  *)
(* at for the transactions of a block as well.                             *)
CheckTxAssets(m, c, t) ==
    /\ Issue[t] # Null => Issue[t] \notin Issued(c)
    /\ Reissue[t] # Null => /\ Reissue[t] \in Issued(c)
                            /\ m.reissued[Reissue[t]] \in {Null, t}
    /\ From[t] # Null => From[t] \notin AddressesFrozen(c)

(* The transactions of the pool that issue an asset of the block, that     *)
(* freeze or unfreeze what the block freezes or unfreezes, or that move an *)
(* asset from an address it freezes and, with the new chain c, may not.    *)
Overtaken(m, c, txs) ==
    ({m.issued[Issue[t]] : t \in {x \in ToSet(txs) : Issue[x] # Null}}
     \cup UNION {m.marks[Mark[t]] : t \in {x \in ToSet(txs) : Mark[x] \in Freeze}}
     \cup {x \in UNION {m.from[Frozen[t]] : t \in {x \in ToSet(txs) : Frozen[x] \in Senders}} :
              ~(CheckTxAssets(m, c, x) /\ \A o \in Ins[x] : HaveCoin(c, o))})
    \cap m.tx


removeForBlock(m, c, txs) ==
    FoldLeft(RemoveMined, m, txs \o SetToSeq(Overtaken(m, c, txs)))

-----------------------------------------------------------------------------
(***************************************************************************)
(* AcceptToMemoryPoolWorker.                                               *)
(***************************************************************************)
(* The rules of BIP 125 for a transaction that spends what transactions of *)
(* the pool, conflicts, spend.                                             *)
Replaces(m, t, conflicts, ancestors) ==
    LET all == CalculateDescendants(m, conflicts)
        total == FoldLeft(LAMBDA n, x : n + Fee[x], 0, SetToSeq(all))
        visited == FoldLeft(LAMBDA n, x : n + m.nDesc[x], 0, SetToSeq(conflicts))
        parents == UNION {{o[1] : o \in Ins[x]} : x \in conflicts}
    IN  /\ fEnableReplacement /\ conflicts \subseteq OptIn
        /\ conflicts \cap ancestors = {}
        /\ \A x \in conflicts : Fee[t] > Fee[x]
        /\ visited <= maxDescendantsToVisit
        /\ \A o \in Ins[t] : o[1] \in m.tx => o[1] \in parents
        /\ Fee[t] > total

Acceptable(m, c, t) ==
    LET conflicts == Spenders(m, Ins[t])
        ancestors == CalculateMemPoolAncestors(m, SearchParents(m, t))
    IN  /\ t \notin m.tx
        /\ IsFinalTx(t, Len(c) + 1)
        /\ \A o \in Ins[t] : o[1] \in m.tx \/ (HaveCoin(c, o) /\ Mature(c, o))
        /\ CheckSequenceLocks(LockPoints(m.tx, c, t), c)
        /\ CheckTxAssets(m, c, t)
        /\ Issue[t] # Null => m.issued[Issue[t]] = Null
        /\ Cardinality(ancestors) + 1 <= limitAncestorCount
        /\ \A a \in ancestors : m.nDesc[a] + 1 <= limitDescendantCount
        /\ conflicts # {} => Replaces(m, t, conflicts, ancestors)

(* LimitMempoolSize: what is too old goes with its descendants, all at     *)
(* once, then one package that pays too little after the other.  Age, size *)
(* and fee rate leave the choice of the victims open.                      *)
Expire(m, old) == RemoveStaged(m, CalculateDescendants(m, old \cap m.tx), FALSE)
TrimToSize(m, poor) ==
    FoldLeft(LAMBDA n, t : RemoveStaged(n, CalculateDescendants(n, {t} \cap n.tx), FALSE),
             m, SetToSeq(poor))
LimitMempoolSize(m, victims) == TrimToSize(Expire(m, victims.old), victims.poor)

NoVictims == [old |-> {}, poor |-> {}]
Victims(S) ==
    LET few == {V \in SUBSET S : Cardinality(V) <= MaxVictims}
    IN  {v \in [old : few, poor : few] : Cardinality(v.old) + Cardinality(v.poor) <= MaxVictims}

(* The maps that follow an accepted transaction.  That its tag or freeze   *)
(* is there already is noticed late: the call fails, the entry stays.  The *)
(* address an asset is moved from is known if its coin is on the chain.    *)
Recorded(m, c, t) ==
    LET a == Issue[t]  b == Reissue[t]  k == Mark[t]
        moved == From[t] # Null /\ \A o \in Ins[t] : HaveCoin(c, o)
    IN  [ok |-> k = Null \/ m.marks[k] = {},
         m |-> [m EXCEPT
                  !.issued = IF a = Null THEN @ ELSE [@ EXCEPT ![a] = t],
                  !.reissued = IF b = Null THEN @ ELSE [@ EXCEPT ![b] = t],
                  !.marks = IF k = Null \/ m.marks[k] # {} THEN @
                            ELSE [@ EXCEPT ![k] = {t}],
                  !.from = IF moved /\ (k = Null \/ m.marks[k] = {})
                           THEN [@ EXCEPT ![From[t]] = @ \cup {t}] ELSE @]]

AcceptToMemoryPool(m, c, t, victims) ==
    LET ancestors == CalculateMemPoolAncestors(m, SearchParents(m, t))
        replaced == CalculateDescendants(m, Spenders(m, Ins[t]))
        added == addUnchecked(RemoveStaged(m, replaced, FALSE), t, ancestors,
                              LockPoints(m.tx, c, t))
        limited == LimitMempoolSize(added, victims)
    IN  IF ~Acceptable(m, c, t) THEN [ok |-> FALSE, m |-> m]
        ELSE IF t \notin limited.tx THEN [ok |-> FALSE, m |-> limited]
        ELSE Recorded(limited, c, t)

-----------------------------------------------------------------------------
(***************************************************************************)
(* UpdateMempoolForReorg.                                                  *)
(***************************************************************************)
(* UpdateTransactionsFromBlock: the transactions that are back, the latest *)
(* first, are linked to the children that were in the pool all along, and  *)
(* their descendants outside back are counted.                             *)
LinkBack(m, t, back) ==
    LET children == {e[2] : e \in {x \in m.next : x[1][1] = t}} \ back
        linked == [m EXCEPT !.chi[t] = @ \cup children,
                            !.par = [x \in Tx |-> IF x \in children THEN @[x] \cup {t}
                                                  ELSE @[x]]]
        below == CalculateDescendants(linked, linked.chi[t]) \ back
    IN  IF t \notin m.tx THEN m
        ELSE [linked EXCEPT !.nAnc = [x \in Tx |-> IF x \in below THEN @[x] + 1 ELSE @[x]],
                            !.nDesc[t] = @ + Cardinality(below)]

(* Mutant: the earliest is linked first.                                   *)
UpdateEarliestFirst(m, vHashUpdate) ==
    FoldLeft(LAMBDA n, t : LinkBack(n, t, ToSet(vHashUpdate)), m, vHashUpdate)

UpdateTransactionsFromBlock(m, vHashUpdate) ==
    FoldLeft(LAMBDA n, t : LinkBack(n, t, ToSet(vHashUpdate)),
             m, Reverse(vHashUpdate))

(* Lock points that are no longer good are computed anew, if the inputs    *)
(* are there.                                                              *)
removeForReorg(m, c) ==
    LET good(t) == TestLockPointValidity(m.lp[t], c)
        missing(t) == \E o \in Ins[t] : o[1] \notin m.tx /\ ~HaveCoin(c, o)
        lp(t) == IF good(t) \/ missing(t) THEN m.lp[t] ELSE LockPoints(m.tx, c, t)
        late(t) == \/ ~IsFinalTx(t, Len(c) + 1)
                   \/ ~good(t) /\ missing(t)
                   \/ ~CheckSequenceLocks(lp(t), c)
        immature(t) == /\ \E o \in Ins[t] : o[1] \in Coinbase
                       /\ \E o \in Ins[t] : /\ o[1] \notin m.tx
                                            /\ ~HaveCoin(c, o) \/ ~Mature(c, o)
    IN  RemoveStaged([m EXCEPT !.lp = [t \in Tx |-> IF t \in m.tx THEN lp(t) ELSE @[t]]],
                     CalculateDescendants(m, {t \in m.tx : late(t) \/ immature(t)}),
                     FALSE)

ReAdd(acc, t, c, fAddToMempool) ==
    LET res == IF fAddToMempool /\ t \in Tx THEN AcceptToMemoryPool(acc.m, c, t, NoVictims)
               ELSE [ok |-> FALSE, m |-> acc.m]
    IN  IF res.ok THEN [m |-> res.m, back |-> Append(acc.back, t)]
        ELSE [m |-> removeRecursive(res.m, t), back |-> acc.back]

UpdateMempoolForReorg(m, c, d, fAddToMempool, victims) ==
    LET acc == FoldLeft(LAMBDA x, t : ReAdd(x, t, c, fAddToMempool),
                        [m |-> m, back |-> <<>>], Reverse(d))
    IN  LimitMempoolSize(
            removeForReorg(UpdateTransactionsFromBlock(acc.m, acc.back), c), victims)

-----------------------------------------------------------------------------
Blocks == [cb : Coinbase \cup {Null},
           txs : UNION {[1 .. n -> Tx] : n \in 0 .. MaxTxs}]

(* ConnectBlock: the checks of a block on top of the active chain.         *)
Valid(m, b) ==
    /\ b.cb \notin CoinbasesOf(chain)
    /\ \A k \in DOMAIN b.txs :
          LET t == b.txs[k]
              before == Append(chain, [b EXCEPT !.txs = SubSeq(b.txs, 1, k - 1)])
          IN  /\ t \notin TxsOf(before)
              /\ IsFinalTx(t, Len(chain) + 1)
              /\ \A o \in Ins[t] : /\ HaveCoin(before, o)
                                   /\ Mature(chain, o) /\ o[1] # b.cb
              /\ LockPoints({}, before, t).height <= Len(chain) + 1
              /\ CheckTxAssets(m, before, t)

ConnectTip(b) ==
    LET txs == ToSet(b.txs)
        freed == [pool EXCEPT !.reissued =
                     [a \in Asset |-> IF @[a] \in txs THEN Null ELSE @[a]]]
    IN  /\ phase # "aborted" /\ Len(chain) < MaxHeight
        /\ Valid(pool, b)
        /\ chain' = Append(chain, b)
        /\ pool' = removeForBlock(freed, Append(chain, b), b.txs)
        /\ disc' = SelectSeq(disc, LAMBDA t : t \notin txs \cup {b.cb})
        /\ phase' = IF phase = "idle" THEN "idle" ELSE "up"

(* The entries that make the disconnectpool too large, oldest first.       *)
Dropped(d) == SubSeq(d, 1, IF Len(d) > MAX_DISCONNECTED_TX_POOL_SIZE
                           THEN Len(d) - MAX_DISCONNECTED_TX_POOL_SIZE ELSE 0)

DisconnectTip ==
    LET b == Last(chain)
        all == disc \o Reverse(b.txs) \o (IF b.cb = Null THEN <<>> ELSE <<b.cb>>)
    IN  /\ phase \in {"idle", "down"} /\ chain # <<>>
        /\ chain' = Front(chain)
        /\ pool' = FoldLeft(removeRecursive, pool, Dropped(all))
        /\ disc' = SubSeq(all, Len(Dropped(all)) + 1, Len(all))
        /\ phase' = "down"

(* The end of ActivateBestChainStep or InvalidateBlock, or an error of the *)
(* local system after which the node shuts down.                           *)
EndReorg(fAddToMempool, victims) ==
    /\ phase \in {"down", "up"}
    /\ pool' = UpdateMempoolForReorg(pool, chain, disc, fAddToMempool, victims)
    /\ disc' = <<>>
    /\ phase' = IF fAddToMempool THEN "idle" ELSE "aborted"
    /\ UNCHANGED chain

Accept(t, victims) ==
    /\ phase = "idle"
    /\ Acceptable(pool, chain, t) \/ victims = NoVictims
    /\ pool' = AcceptToMemoryPool(pool, chain, t, victims).m
    /\ UNCHANGED <<chain, disc, phase>>

Next ==
    \/ \E b \in Blocks : ConnectTip(b)
    \/ DisconnectTip
    \/ \E fAddToMempool \in BOOLEAN, victims \in Victims(pool.tx \cup (Tx \cap ToSet(disc))) :
           EndReorg(fAddToMempool, victims)
    \/ \E t \in Tx : \E victims \in Victims(pool.tx \cup {t}) : Accept(t, victims)

Spec == Init /\ [][Next]_vars

-----------------------------------------------------------------------------
(***************************************************************************)
(* Properties.                                                             *)
(***************************************************************************)
Settled == phase \in {"idle", "aborted"}

(* Every variable has its type.                                            *)
TypeOK ==
    /\ chain \in Seq(Blocks) /\ disc \in Seq(Tx \cup Coinbase)
    /\ phase \in {"idle", "down", "up", "aborted"}
    /\ pool.tx \subseteq Tx
    /\ {pool.par, pool.chi} \subseteq [Tx -> SUBSET Tx]
    /\ {pool.nAnc, pool.nDesc} \subseteq [Tx -> Nat]
    /\ {pool.issued, pool.reissued} \subseteq [Asset -> Tx \cup {Null}]
    /\ pool.marks \in [Marks -> SUBSET Tx] /\ pool.from \in [Senders -> SUBSET Tx]
    /\ \A t \in Tx : pool.lp[t].height \in Nat /\ pool.lp[t].chain \in Seq(Blocks)

(* Whenever a reorganization is over, or was given up, every input of a    *)
(* transaction of the pool is an output of another one or an unspent and   *)
(* mature output of the chain ("Check that every mempool transaction's     *)
(* inputs refer to available coins, or other mempool tx's").               *)
InputsAvailable ==
    Settled => \A t \in pool.tx : \A o \in Ins[t] :
                   o[1] \in pool.tx \/ (HaveCoin(chain, o) /\ Mature(chain, o))

(* No output is spent twice by the pool, nothing of it is on the chain or  *)
(* not final, by nLockTime or by the blocks its inputs are in now, and     *)
(* mapNextTx says exactly who spends what: a block of all its transactions *)
(* is valid.                                                               *)
NoConflicts ==
    Settled =>
    /\ pool.next = UNION {{<<o, t>> : o \in Ins[t]} : t \in pool.tx}
    /\ \A t, u \in pool.tx : t # u => Ins[t] \cap Ins[u] = {}
    /\ \A t \in pool.tx :
          /\ t \notin TxsOf(chain) /\ IsFinalTx(t, Len(chain) + 1)
          /\ LockPoints(pool.tx, chain, t).height <= Len(chain) + 1

(* The links and the counters kept in place are those of the graph of the  *)
(* transactions in the pool, although a reorganization puts parents under  *)
(* children that are there already.                                        *)
PackagesExact ==
    Settled =>
    \A t \in pool.tx :
        /\ pool.par[t] = SearchParents(pool, t)
        /\ pool.chi[t] = {u \in pool.tx : t \in SearchParents(pool, u)}
        /\ pool.nAnc[t] = 1 + Cardinality(Reach(pool.par, pool.par[t]))
        /\ pool.nDesc[t] = 1 + Cardinality(Reach(pool.chi, pool.chi[t]))

(* No update takes a counter of an entry to zero, not even in the middle   *)
(* of a reorganization (the asserts of UpdateDescendantState and           *)
(* UpdateAncestorState).                                                   *)
CountersPositive == pool.asserts


=============================================================================
