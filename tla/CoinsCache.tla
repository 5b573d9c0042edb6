----------------------------- MODULE CoinsCache -----------------------------
(***************************************************************************)
(* The stack of coin views of the node: the coin database (pcoinsdbview),  *)
(* the cache of the active chain's UTXO set over it (pcoinsTip), and the   *)
(* short-lived cache that ConnectTip and DisconnectTip put over pcoinsTip  *)
(* while they apply one block.  Every call happens under cs_main, so one   *)
(* method call is one step, and pcoinsTip is used directly only while no   *)
(* block view is open.                                                     *)
(***************************************************************************)
EXTENDS CoinsView

CONSTANTS Block,   \* block hashes
          Null     \* the null hash: hashBlock not read from the parent yet

ASSUME NullAssumption == Null \notin Block

VARIABLES
    db,        \* coins in the database
    dbBest,    \* DB_BEST_BLOCK
    tip,       \* pcoinsTip->cacheCoins
    tipBest,   \* pcoinsTip->hashBlock
    tipUsage,  \* pcoinsTip->cachedCoinsUsage
    view,      \* cacheCoins of the block view
    viewBest,  \* its hashBlock
    viewUsage, \* its cachedCoinsUsage
    open,      \* a block view exists
    thrown     \* a logic_error was thrown

dbVars   == <<db, dbBest>>
tipVars  == <<tip, tipBest, tipUsage>>
viewVars == <<view, viewBest, viewUsage>>
vars     == <<dbVars, tipVars, viewVars, open, thrown>>

(* The two usage counters are left to UsageExact, which gives their value. *)
TypeOK ==
    /\ db \in Contents /\ dbBest \in Block
    /\ tip \in CCoinsMap /\ tipBest \in Block \cup {Null}
    /\ view \in CCoinsMap /\ viewBest \in Block \cup {Null}
    /\ open \in BOOLEAN
    /\ thrown \in BOOLEAN

(* What pcoinsTip and the block view answer.                               *)
TipCoins  == Answers(tip, db)
ViewCoins == Answers(view, TipCoins)

(* CCoinsViewCache::GetBestBlock, for pcoinsTip over the database.         *)
TipBestBlock == IF tipBest = Null THEN dbBest ELSE tipBest

-----------------------------------------------------------------------------
(* The caches start empty over a database left by an earlier run.          *)
Init ==
    /\ db \in [Outpoint -> (Coin \ Unspendable) \cup {Spent}]
    /\ dbBest \in Block
    /\ tip = EmptyCache /\ tipBest = Null /\ tipUsage = 0
    /\ view = EmptyCache /\ viewBest = Null /\ viewUsage = 0
    /\ open = FALSE
    /\ thrown = FALSE

(* CCoinsViewCache view(pcoinsTip), and the view.GetBestBlock() with which *)
(* ConnectBlock and DisconnectTip check where it stands.                   *)
OpenView ==
    /\ ~open /\ ~thrown
    /\ open' = TRUE
    /\ view' = EmptyCache /\ viewUsage' = 0
    /\ tipBest' = TipBestBlock
    /\ viewBest' = TipBestBlock
    /\ UNCHANGED <<dbVars, tip, tipUsage, thrown>>

(* A read through pcoinsTip itself (HaveCoin, AccessCoin, GetCoin).        *)
ReadTip(o) ==
    /\ ~open /\ ~thrown
    /\ tip' = FetchCoin(tip, db, o)
    /\ tipUsage' = tipUsage + FetchUsage(tip, db, o)
    /\ UNCHANGED <<dbVars, tipBest, viewVars, open, thrown>>

(* FetchCoin of the block view: what the view does not hold is asked of    *)
(* pcoinsTip, which asks the database and keeps a copy of its own.         *)
FetchThrough(o) ==
    /\ tip' = IF view[o] = NoEntry THEN FetchCoin(tip, db, o) ELSE tip
    /\ tipUsage' = tipUsage + IF view[o] = NoEntry
                              THEN FetchUsage(tip, db, o) ELSE 0

ReadView(o) ==
    /\ open /\ ~thrown
    /\ FetchThrough(o)
    /\ view' = FetchCoin(view, TipCoins, o)
    /\ viewUsage' = viewUsage + FetchUsage(view, TipCoins, o)
    /\ UNCHANGED <<dbVars, tipBest, viewBest, open, thrown>>

(***************************************************************************)
(* AddCoin on the block view.  Its callers pass possible_overwrite = false *)
(* only for an outpoint with no unspent coin: ApplyTxInUndo and a checking *)
(* AddCoins ask HaveCoin first, and the outputs ConnectBlock adds belong   *)
(* to a transaction id that no unspent output has.                         *)
(***************************************************************************)
AddViewCoin(o, c, overwrite) ==
    /\ open /\ ~thrown
    /\ overwrite \/ ViewCoins[o] = Spent
    /\ IF AddCoinThrows(view, o, c, overwrite)
       THEN thrown' = TRUE /\ UNCHANGED viewVars
       ELSE /\ view' = AddCoin(view, o, c, overwrite)
            /\ viewUsage' = viewUsage + AddUsage(view, o, c)
            /\ UNCHANGED <<viewBest, thrown>>
    /\ UNCHANGED <<dbVars, tipVars, open>>

SpendViewCoin(o) ==
    /\ open /\ ~thrown
    /\ FetchThrough(o)
    /\ LET fetched == FetchCoin(view, TipCoins, o) IN
       /\ view' = SpendCoin(fetched, o)
       /\ viewUsage' = viewUsage + FetchUsage(view, TipCoins, o)
                                 + SpendUsage(fetched, o)
    /\ UNCHANGED <<dbVars, tipBest, viewBest, open, thrown>>

SetBestBlock(b) ==
    /\ open /\ ~thrown
    /\ viewBest' = b
    /\ UNCHANGED <<dbVars, tipVars, view, viewUsage, open, thrown>>

(* view.Flush() after the block was applied: BatchWrite into pcoinsTip,    *)
(* then the view goes out of scope.                                        *)
FlushView ==
    /\ open /\ ~thrown
    /\ IF BatchWriteThrows(tip, view)
       THEN thrown' = TRUE /\ UNCHANGED <<tipVars, viewVars, open>>
       ELSE /\ tip' = BatchWrite(tip, view)
            /\ tipUsage' = tipUsage + MergeUsage(tip, view)
            /\ tipBest' = viewBest
            /\ view' = EmptyCache /\ viewUsage' = 0 /\ viewBest' = Null
            /\ open' = FALSE
            /\ UNCHANGED thrown
    /\ UNCHANGED dbVars

(* The block failed to connect: the view is destroyed without a Flush.     *)
DropView ==
    /\ open /\ ~thrown
    /\ open' = FALSE
    /\ view' = EmptyCache /\ viewUsage' = 0 /\ viewBest' = Null
    /\ UNCHANGED <<dbVars, tipVars, thrown>>

(* Mutant: the null hash of a cache that never asked for its best block.   *)
FlushTipNullHash ==
    /\ ~open /\ ~thrown
    /\ db' = DBBatchWrite(db, tip)
    /\ dbBest' = tipBest
    /\ tip' = EmptyCache /\ tipUsage' = 0
    /\ UNCHANGED <<tipBest, viewVars, open, thrown>>

(* pcoinsTip->Flush() in FlushStateToDisk: the database takes the DIRTY    *)
(* entries and the hash (it asserts that there is one), and the cache is   *)
(* emptied.                                                                *)
FlushTip ==
    /\ ~open /\ ~thrown
    /\ tipBest # Null
    /\ db' = DBBatchWrite(db, tip)
    /\ dbBest' = tipBest
    /\ tip' = EmptyCache /\ tipUsage' = 0
    /\ UNCHANGED <<tipBest, viewVars, open, thrown>>

(* pcoinsTip->Uncache, after a transaction was refused by or expired from  *)
(* the memory pool.                                                        *)
UncacheTip(o) ==
    /\ ~open /\ ~thrown
    /\ tip' = Uncache(tip, o)
    /\ tipUsage' = tipUsage + UncacheUsage(tip, o)
    /\ UNCHANGED <<dbVars, tipBest, viewVars, open, thrown>>

Next ==
    \/ OpenView
    \/ \E o \in Outpoint :
        \/ ReadTip(o)
        \/ ReadView(o)
        \/ \E c \in Coin, overwrite \in BOOLEAN : AddViewCoin(o, c, overwrite)
        \/ SpendViewCoin(o)
        \/ UncacheTip(o)
    \/ \E b \in Block : SetBestBlock(b)
    \/ FlushView
    \/ DropView
    \/ FlushTip

Spec == Init /\ [][Next]_vars

-----------------------------------------------------------------------------
(***************************************************************************)
(* Properties.                                                             *)
(***************************************************************************)

(* The flags mean what coins.h says of them, in both caches and at any     *)
(* point between two calls, whatever was fetched, flushed, uncached or     *)
(* abandoned before.                                                       *)
FlagsSound ==
    /\ SoundOver(tip, db)
    /\ SoundOver(view, TipCoins)

(* Neither AddCoin nor BatchWrite ever throws its logic_error for callers  *)
(* that keep to the possible_overwrite rule.                               *)
NoLogicError == ~thrown

(* cachedCoinsUsage, kept up to date by adding and subtracting the usage   *)
(* of single coins, is the usage of the coins the map holds: it decides    *)
(* when FlushStateToDisk considers the cache critical.                     *)
UsageExact ==
    LET Total(cache) ==
            MapThenSumSet(LAMBDA o : EntryUsage(cache[o]), Outpoint)
    IN  tipUsage = Total(tip) /\ viewUsage = Total(view)

(* The inductive invariant behind the properties above: with the flags     *)
(* sound, a view that is not open must hold nothing, or the next merge     *)
(* would write a block that was abandoned; and an open view must know its  *)
(* best block, or its Flush would wipe that of pcoinsTip.                  *)
IInv ==
    /\ TypeOK
    /\ FlagsSound
    /\ NoLogicError
    /\ IF open THEN viewBest # Null ELSE view = EmptyCache

(* The two caches with their flags, fetches, merges and evictions are      *)
(* invisible: the stack behaves as three versions of the UTXO set that     *)
(* replace one another as a whole.                                         *)
Utxo == INSTANCE UtxoSet WITH
    durable   <- [utxo |-> db, best |-> dbBest],
    committed <- [utxo |-> TipCoins, best |-> TipBestBlock],
    pending   <- [utxo |-> ViewCoins,
                  best |-> IF open THEN viewBest ELSE TipBestBlock]

ImplementsUtxoSet == Utxo!Spec
=============================================================================
