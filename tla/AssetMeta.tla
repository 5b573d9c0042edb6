------------------------------ MODULE AssetMeta ------------------------------
(***************************************************************************)
(* What a node knows of an asset: that it exists, its metadata and, for a  *)
(* restricted asset, its verifier string (assets.cpp, AddCoins of          *)
(* coins.cpp, DisconnectBlock and FlushStateToDisk of validation.cpp).     *)
(* The blocks that are connected and undone leave their changes in         *)
(* passets until a flush dumps them to the asset database, right after the *)
(* coins; a least-recently-used cache stands before the database.          *)
(*                                                                         *)
(* Assets do not influence one another here, so there is one: a set of     *)
(* CAssetsCache ordered by name is the entry of the asset or Null.         *)
(***************************************************************************)
EXTENDS Naturals, FiniteSets, SequencesExt

CONSTANTS Null,
          Tx,         \* the transactions that issue and reissue the asset
          MAX_MONEY,
          MaxHeight,  \* bound on the blocks above the first
          Block,      \* the blocks that are mined, sequences of transactions
          MaxCrashes

(***************************************************************************)
(* A transaction has an amount, the flag that allows further reissues, an  *)
(* IPFS hash (Null: none) and a verifier string (Null: none).  The units   *)
(* of an asset are kept and undone like its hash and are left out.         *)
(***************************************************************************)
MetaAssumption ==
    /\ \A t \in Tx :
          /\ t.op \in {"issue", "reissue"}
          /\ t.nAmount \in Nat /\ t.nReissuable \in {0, 1}
          /\ {"strIPFSHash", "verifier"} \subseteq DOMAIN t
    /\ \A b \in Block : ToSet(b) \subseteq Tx /\ IsInjective(b)
    /\ {MAX_MONEY, MaxHeight, MaxCrashes} \subseteq Nat

VARIABLES
    chain,    \* the blocks of the active chain, with their undo data
    p,        \* passets
    lru,      \* passetsCache
    db,       \* passetsdb: the metadata
    verLru,   \* passetsVerifierCache
    verDb,    \* prestricteddb: the verifier string
    coins,    \* the chain of the coins database
    flushing, \* the coins are written, the assets are not
    spoilt,   \* history: something happened that MetaExact excepts
    crashes

vars == <<chain, p, lru, db, verLru, verDb, coins, flushing, spoilt, crashes>>

(***************************************************************************)
(* CAssetsCache.  toAdd holds the metadata and the block of the issue, 0   *)
(* for the null hash; the reissue sets are ordered by the outpoint of the  *)
(* reissue, for which the transaction stands.                              *)
(***************************************************************************)
EmptyCache == [toAdd |-> Null, toRemove |-> FALSE, reissued |-> Null,
               reissueAdd |-> {}, reissueRemove |-> {},
               verAdd |-> Null, verRemove |-> Null]

FirstOf(s) == LET found == SelectSeq(s, LAMBDA x : x # Null)
              IN  IF found = <<>> THEN Null ELSE Head(found)

Outs(S) == {r.out : r \in S}
Without(S, O) == {r \in S : r.out \notin O}
Merged(S, T) == S \cup Without(T, Outs(S))

Init ==
    /\ chain = <<>> /\ coins = <<>>
    /\ p = EmptyCache
    /\ lru = Null /\ db = Null /\ verLru = Null /\ verDb = Null
    /\ flushing = FALSE /\ spoilt = FALSE /\ crashes = 0

-----------------------------------------------------------------------------
(* The lookups through the cache v of a block, passets and the database.   *)
CheckIfAssetExists(v) ==
    /\ ~v.toRemove /\ ~p.toRemove
    /\ FirstOf(<<v.toAdd, p.toAdd, lru, db>>) # Null

(* The early returns for a reissued asset leave the block unset.           *)
GetAssetMetaDataIfExists(v) ==
    LET reissued == FirstOf(<<v.reissued, p.reissued>>)
    IN  IF reissued # Null THEN [asset |-> reissued, block |-> 0]
        ELSE IF v.toRemove \/ p.toRemove THEN Null
        ELSE FirstOf(<<v.toAdd, p.toAdd, lru, db>>)

GetAssetVerifierStringIfExists(v) ==
    LET removed == FirstOf(<<v.verRemove, p.verRemove>>)
    IN  IF removed # Null
        THEN IF removed.fUndoingReissue THEN removed.verifier ELSE Null
        ELSE FirstOf(<<v.verAdd, p.verAdd, verLru, verDb>>)

(* What a lookup that gets to the database leaves in the caches.           *)
Cached ==
    IF p.reissued # Null \/ p.toRemove \/ p.toAdd # Null
    THEN lru ELSE FirstOf(<<lru, db>>)

VerCached ==
    IF p.verRemove # Null \/ p.verAdd # Null
    THEN verLru ELSE FirstOf(<<verLru, verDb>>)

(* ContextualCheckNewAsset and ContextualCheckReissueAsset.                *)
ContextualCheck(v, t) ==
    IF t.op = "issue" THEN ~CheckIfAssetExists(v)
    ELSE LET prev == GetAssetMetaDataIfExists(v)
         IN  /\ prev # Null
             /\ prev.asset.nReissuable = 0 =>
                   t.strIPFSHash # prev.asset.strIPFSHash /\ t.nAmount = 0
             /\ prev.asset.nAmount + t.nAmount <= MAX_MONEY

-----------------------------------------------------------------------------
(***************************************************************************)
(* The changes a connected transaction makes to the cache of its block.    *)
(***************************************************************************)
AddRestrictedVerifier(v, s) ==
    [v EXCEPT !.verRemove = Null, !.verAdd = FirstOf(<<@, s>>)]

Issued(t) == [nAmount |-> t.nAmount, nReissuable |-> t.nReissuable,
              strIPFSHash |-> t.strIPFSHash]

AddNewAsset(v, t, nHeight) ==
    IF CheckIfAssetExists(v) THEN v
    ELSE [v EXCEPT !.toRemove = FALSE,
                   !.toAdd = FirstOf(<<@, [asset |-> Issued(t), block |-> nHeight]>>)]

Reissued(asset, t) ==
    [nAmount |-> asset.nAmount + t.nAmount,
     nReissuable |-> t.nReissuable,
     strIPFSHash |-> FirstOf(<<t.strIPFSHash, asset.strIPFSHash>>)]

AddReissueAsset(v, t) ==
    LET prev == GetAssetMetaDataIfExists(v)
    IN  [v EXCEPT !.reissued = Reissued(prev.asset, t),
                  !.reissueRemove = Without(@, {t}),
                  !.reissueAdd = Merged(@, {[out |-> t, block |-> prev.block]})]

(* CBlockAssetUndo of a reissue that changes the hash or the verifier.     *)
AssetUndo(v, t) ==
    LET prev == GetAssetMetaDataIfExists(v).asset
    IN  IF t.strIPFSHash = Null /\ t.verifier = Null THEN <<>>
        ELSE <<[fChangedIPFS |-> t.strIPFSHash # Null,
                strIPFS |-> prev.strIPFSHash,
                fChangedVerifierString |-> t.verifier # Null,
                verifierString |-> IF t.verifier = Null THEN Null
                                   ELSE GetAssetVerifierStringIfExists(v)]>>

(* CheckTxAssets and AddCoins, one transaction of a block.                 *)
AddCoins(s, t, nHeight) ==
    IF ~s.valid \/ ~ContextualCheck(s.view, t)
    THEN [s EXCEPT !.valid = FALSE]
    ELSE LET v == IF t.op = "issue" THEN AddNewAsset(s.view, t, nHeight)
                  ELSE AddReissueAsset(s.view, t)
         IN  [s EXCEPT !.view = IF t.verifier = Null THEN v
                                ELSE AddRestrictedVerifier(v, t.verifier),
                       !.undo = IF t.op = "issue" THEN @
                                ELSE @ \o AssetUndo(s.view, t)]

ConnectBlock(txs, nHeight) ==
    FoldLeft(LAMBDA s, t : AddCoins(s, t, nHeight),
             [view |-> EmptyCache, undo |-> <<>>, valid |-> TRUE], txs)

-----------------------------------------------------------------------------
(***************************************************************************)
(* The changes an undone transaction makes, in DisconnectBlock.            *)
(***************************************************************************)
RemoveRestrictedVerifier(v, s, fUndoingReissue) ==
    [v EXCEPT !.verAdd = Null,
              !.verRemove = FirstOf(<<@, [verifier |-> s,
                                  fUndoingReissue |-> fUndoingReissue]>>)]

RemoveNewAsset(v, t) ==
    LET w == IF CheckIfAssetExists(v)
             THEN [v EXCEPT !.toAdd = Null, !.toRemove = TRUE] ELSE v
    IN  IF t.verifier = Null THEN w
        ELSE RemoveRestrictedVerifier(w, t.verifier, FALSE)

(* Mutant: the hash of before the reissue is not restored.                 *)
RemoveReissueKeepsHash(v, t, undo) ==
    LET prev == GetAssetMetaDataIfExists(v)
    IN  [v EXCEPT !.reissued = [nAmount |-> prev.asset.nAmount - t.nAmount,
                                nReissuable |-> 1,
                                strIPFSHash |-> prev.asset.strIPFSHash],
                  !.reissueAdd = Without(@, {t}),
                  !.reissueRemove = Merged(@, {[out |-> t,
                                                block |-> prev.block]})]

(* The first undo record of the block for this asset is used.              *)
RemoveReissueAsset(v, t, undo) ==
    LET prev == GetAssetMetaDataIfExists(v)
        item == IF undo = <<>> THEN Null ELSE Head(undo)
        hash == IF item # Null /\ item.fChangedIPFS THEN item.strIPFS
                ELSE prev.asset.strIPFSHash
        w == [v EXCEPT !.reissued = [nAmount |-> prev.asset.nAmount - t.nAmount,
                                     nReissuable |-> 1,
                                     strIPFSHash |-> hash],
                       !.reissueAdd = Without(@, {t}),
                       !.reissueRemove = Merged(@, {[out |-> t,
                                                     block |-> prev.block]})]
    IN  IF ~CheckIfAssetExists(v) THEN v
        ELSE IF item # Null /\ item.fChangedVerifierString
        THEN RemoveRestrictedVerifier(w, item.verifierString, TRUE)
        ELSE w

DisconnectBlock(block) ==
    FoldLeft(LAMBDA v, t : IF t.op = "issue" THEN RemoveNewAsset(v, t)
                           ELSE RemoveReissueAsset(v, t, block.undo),
             EmptyCache, Reverse(block.txs))

-----------------------------------------------------------------------------
(* Flush of the cache of a block into passets.                             *)
Flushed(v) ==
    [toAdd |-> IF v.toRemove THEN Null ELSE FirstOf(<<p.toAdd, v.toAdd>>),
     toRemove |-> v.toRemove \/ (p.toRemove /\ v.toAdd = Null),
     reissued |-> FirstOf(<<v.reissued, p.reissued>>),
     reissueAdd |-> Without(Merged(p.reissueAdd, v.reissueAdd),
                            Outs(v.reissueRemove)),
     reissueRemove |-> Merged(Without(p.reissueRemove, Outs(v.reissueAdd)),
                              v.reissueRemove),
     verAdd |-> IF v.verRemove # Null THEN Null
                ELSE FirstOf(<<v.verAdd, p.verAdd>>),
     verRemove |-> IF v.verRemove # Null THEN v.verRemove
                   ELSE IF v.verAdd # Null THEN Null ELSE p.verRemove]

(* What the blocks of a chain say of the asset, with no caches.            *)
Blank == [asset |-> Null, block |-> 0, verifier |-> Null]

Said(s, t, h) ==
    [asset |-> IF t.op = "issue" THEN Issued(t) ELSE Reissued(s.asset, t),
     block |-> IF t.op = "issue" THEN h ELSE s.block,
     verifier |-> FirstOf(<<t.verifier, s.verifier>>)]

Meaning(c) ==
    FoldLeft(LAMBDA s, h : FoldLeft(LAMBDA r, t : Said(r, t, h), s, c[h].txs),
             Blank, [h \in 1 .. Len(c) |-> h])

(***************************************************************************)
(* What spoils the metadata, beside a crash before the dump: two verifier  *)
(* strings in a block, of which the first stays; undoing a block whose     *)
(* first undo record has not all that its reissues changed; an issue that  *)
(* meets the data of another one, reissued and undone since the last dump; *)
(* undoing a reissue of an asset that was not reissuable, which makes it   *)
(* reissuable.                                                             *)
(***************************************************************************)
TwoVerifiers(txs) ==
    Cardinality({k \in DOMAIN txs : txs[k].verifier # Null}) > 1

LosesUndo(block) ==
    \E r \in ToSet(block.undo) :
        \/ r.fChangedIPFS /\ ~Head(block.undo).fChangedIPFS
        \/ r.fChangedVerifierString /\ ~Head(block.undo).fChangedVerifierString

MeetsReissue(txs) ==
    p.reissued # Null /\ \E t \in ToSet(txs) : t.op = "issue" /\ p.reissued # Issued(t)

Unlocks(block) ==
    LET before == Meaning(Front(chain)).asset
    IN  before # Null /\ before.nReissuable = 0

Mined == UNION {ToSet(chain[h].txs) : h \in 1 .. Len(chain)}

(* A transaction is on a chain once, for it spends its inputs, and one of  *)
(* those of a reissue is the owner token that the issue made.              *)
HaveInputs(txs) ==
    /\ ToSet(txs) \cap Mined = {}
    /\ \A k \in DOMAIN txs : txs[k].op = "reissue" =>
          \E t \in Mined \cup ToSet(SubSeq(txs, 1, k - 1)) : t.op = "issue"

ConnectTip(txs) ==
    /\ ~flushing
    /\ Len(chain) < MaxHeight
    /\ HaveInputs(txs)
    /\ LET s == ConnectBlock(txs, Len(chain) + 1)
       IN  /\ s.valid
           /\ p' = Flushed(s.view)
           /\ chain' = Append(chain, [txs |-> txs, undo |-> s.undo])
    /\ lru' = Cached
    /\ verLru' = IF \A t \in ToSet(txs) : t.op = "issue" THEN verLru
                 ELSE VerCached
    /\ spoilt' = (spoilt \/ TwoVerifiers(txs) \/ MeetsReissue(txs))
    /\ UNCHANGED <<db, verDb, coins, flushing, crashes>>

DisconnectTip ==
    /\ ~flushing
    /\ chain # <<>>
    /\ p' = Flushed(DisconnectBlock(Last(chain)))
    /\ chain' = Front(chain)
    /\ lru' = Cached
    /\ spoilt' = (spoilt \/ LosesUndo(Last(chain)) \/ Unlocks(Last(chain)))
    /\ UNCHANGED <<db, verLru, verDb, coins, flushing, crashes>>

-----------------------------------------------------------------------------
(***************************************************************************)
(* FlushStateToDisk writes the coins and then dumps the assets.            *)
(***************************************************************************)
FlushCoins ==
    /\ ~flushing
    /\ coins' = chain
    /\ flushing' = TRUE
    /\ UNCHANGED <<chain, p, lru, db, verLru, verDb, spoilt, crashes>>

(* The reissues are written in the order of their outpoints: any order.    *)
DumpedReissues(old, S) ==
    IF S = {} \/ p.reissued = Null THEN {old}
    ELSE {[asset |-> p.reissued, block |-> r.block] : r \in S}

DumpCacheToDatabase ==
    /\ flushing
    /\ LET stored == IF p.toRemove THEN Null ELSE FirstOf(<<p.toAdd, db>>)
           cached == IF p.toRemove THEN Null ELSE FirstOf(<<p.toAdd, lru>>)
           undone == IF p.toRemove THEN {} ELSE p.reissueRemove
       IN  /\ \E d \in DumpedReissues(stored, p.reissueAdd) :
                 db' \in DumpedReissues(d, undone)
           /\ lru' = IF p.reissueAdd \cup undone = {} \/ p.reissued = Null
                     THEN cached ELSE Null
    /\ verDb' = IF p.verRemove # Null
                THEN IF p.verRemove.fUndoingReissue THEN p.verRemove.verifier
                     ELSE Null
                ELSE IF p.verAdd # Null THEN p.verAdd
                ELSE IF p.toRemove THEN Null ELSE verDb
    /\ verLru' = IF p.verRemove # Null \/ p.verAdd # Null THEN Null ELSE verLru
    /\ p' = EmptyCache
    /\ flushing' = FALSE
    /\ UNCHANGED <<chain, coins, spoilt, crashes>>

(* The process dies and starts again on the chain of the coins database.   *)
Crash ==
    /\ crashes < MaxCrashes
    /\ crashes' = crashes + 1
    /\ chain' = coins
    /\ p' = EmptyCache
    /\ lru' = Null /\ verLru' = Null
    /\ spoilt' = (spoilt \/ flushing)
    /\ flushing' = FALSE
    /\ UNCHANGED <<db, verDb, coins>>

(* A lookup of the memory pool, the wallet or RPC, or of a refused block.  *)
Lookup ==
    /\ lru' = Cached
    /\ verLru' = VerCached
    /\ UNCHANGED <<chain, p, db, verDb, coins, flushing, spoilt, crashes>>

(* Entries of other assets displace those of this one.                     *)
Evict ==
    /\ lru' = Null
    /\ verLru' = Null
    /\ UNCHANGED <<chain, p, db, verDb, coins, flushing, spoilt, crashes>>

Next ==
    \/ \E txs \in Block : ConnectTip(txs)
    \/ DisconnectTip
    \/ FlushCoins \/ DumpCacheToDatabase
    \/ Crash
    \/ Lookup \/ Evict

Spec == Init /\ [][Next]_vars

-----------------------------------------------------------------------------
(***************************************************************************)
(* Properties.                                                             *)
(***************************************************************************)

(* Every variable has its type.                                            *)
TypeOK ==
    /\ \A h \in DOMAIN chain : ToSet(chain[h].txs) \subseteq Tx
    /\ Len(chain) <= MaxHeight /\ Len(coins) <= MaxHeight
    /\ p.toRemove \in BOOLEAN
    /\ Outs(p.reissueAdd) \cup Outs(p.reissueRemove) \subseteq Tx
    /\ flushing \in BOOLEAN /\ spoilt \in BOOLEAN
    /\ crashes \in 0 .. MaxCrashes

(* The asset exists for the node exactly if a block of the active chain    *)
(* issues it, and has the metadata and the verifier string the blocks give *)
(* it, whatever was reorganized, flushed and evicted, until one of five    *)
(* things happens that the code gets wrong: the process dies between the   *)
(* write of the coins and the dump of the assets, a block gives two        *)
(* verifier strings, a block is undone whose first undo record lacks what  *)
(* a later one has, an issue meets the reissued data of another issue, or  *)
(* a reissue of an asset that was not reissuable is undone.                *)
MetaExact ==
    ~spoilt =>
    LET said == Meaning(chain)
    IN  /\ CheckIfAssetExists(EmptyCache) <=> said.asset # Null
        /\ said.asset # Null =>
              /\ GetAssetMetaDataIfExists(EmptyCache) # Null
              /\ GetAssetMetaDataIfExists(EmptyCache).asset = said.asset
        /\ GetAssetVerifierStringIfExists(EmptyCache) = said.verifier

(* Until then the asset database says between flushes what the chain of    *)
(* the coins database says, so that a restart finds the two in agreement.  *)
DatabasesAgree ==
    ~spoilt /\ ~flushing =>
    LET said == Meaning(coins)
    IN  /\ IF db = Null THEN said.asset = Null ELSE db.asset = said.asset
        /\ verDb = said.verifier

(* The caches in front of the databases have what these have.              *)
LruBacked == (lru # Null => lru = db) /\ (verLru # Null => verLru = verDb)

(* No pending change is both to be made and to be undone.                  *)
OneVerdict ==
    /\ ~(p.toAdd # Null /\ p.toRemove)
    /\ Outs(p.reissueAdd) \cap Outs(p.reissueRemove) = {}
    /\ p.verAdd = Null \/ p.verRemove = Null

=============================================================================
