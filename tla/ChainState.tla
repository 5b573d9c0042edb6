----------------------------- MODULE ChainState -----------------------------
(***************************************************************************)
(* How the active chain, the coin cache, the block files, the block index  *)
(* and the coin database move together, and what a crash leaves behind:    *)
(* AcceptBlock, ConnectTip, DisconnectTip, the steps of FlushStateToDisk,  *)
(* the batches of CCoinsViewDB::BatchWrite, shutdown, and the start-up     *)
(* with its ReplayBlocks (validation.cpp, txdb.cpp, init.cpp).             *)
(*                                                                         *)
(* cs_main is held throughout each of these, so they do not interleave     *)
(* with one another; a crash may come between any two writes.  Which block *)
(* is connected or disconnected next is left open: any chain selection is  *)
(* covered.  The cache keeps the entries that blocks change; the clean     *)
(* entries that reads leave in it are shown invisible by CoinsCache.       *)
(***************************************************************************)
EXTENDS BlockCoins

CONSTANTS NoUndo,       \* no undo record was written
          MaxCrashes,   \* bound on the number of crashes
          MaxFile,      \* bound on nLastBlockFile
          PowerLoss,    \* a crash may lose what was written but not synced
          Fresh         \* start from an empty data directory

ASSUME BoundsAssumption == MaxCrashes \in Nat /\ MaxFile \in Nat

VARIABLES
    pc,        \* "down", "run", or the step of FlushStateToDisk
    then,      \* the tip to set after the flush, or "exit"
    full,      \* fDoFullFlush: the coins are written too
    active,    \* chainActive.Tip()
    status,    \* nStatus in mapBlockIndex: subset of data, undo, failed
    last,      \* nLastBlockFile
    cache,     \* cacheCoins of pcoinsTip, or of the cache of ReplayBlocks
    cacheBest, \* its hashBlock
    blk, rev,  \* the block's data in blk?????.dat, its undo in rev?????.dat:
               \* "none", "os" (written), or "disk" (synced)
    file,      \* nFile of the block
    undo,      \* the undo record in the rev file
    index,     \* nStatus in the block index database
    lastDisk,  \* DB_LAST_BLOCK
    db,        \* the coins in the database
    dbBest,    \* DB_BEST_BLOCK, Null when erased
    dbHeads,   \* DB_HEAD_BLOCKS: <<>> or <<new tip, old tip>>
    dbDisk,    \* the database as a power loss would leave it
    crashes,
    broken,    \* a step failed in a way only a reindex repairs
    asserted   \* an assert() of the code failed

memory  == <<active, status, last, cache, cacheBest, full, then>>
files   == <<blk, rev, file, undo>>
indexDb == <<index, lastDisk>>
coinDb  == <<db, dbBest, dbHeads, dbDisk>>
vars    == <<pc, memory, files, indexDb, coinDb, crashes, broken, asserted>>

Where  == {"none", "os", "disk"}
Status == SUBSET {"data", "undo", "failed"}
Heads  == {<<>>} \cup (Block \X (Block \cup {Null}))

(* Every variable has its type.                                            *)
TypeOK ==
    /\ pc \in {"down", "run", "sync", "index", "coins", "abort"}
    /\ then \in Block \cup {Null, "exit"}
    /\ full \in BOOLEAN
    /\ active \in Block \cup {Null}
    /\ status \in [Block -> Status] /\ index \in [Block -> Status]
    /\ last \in 0 .. MaxFile /\ lastDisk \in 0 .. MaxFile
    /\ cache \in CCoinsMap /\ cacheBest \in Block \cup {Null}
    /\ blk \in [Block -> Where] /\ rev \in [Block -> Where]
    /\ file \in [Block -> 0 .. MaxFile]
    /\ undo \in [Block -> Contents \cup {NoUndo}]
    /\ db \in Contents /\ dbBest \in Block \cup {Null} /\ dbHeads \in Heads
    /\ dbDisk \in Contents \X (Block \cup {Null}) \X Heads
    /\ crashes \in 0 .. MaxCrashes
    /\ broken \in BOOLEAN /\ asserted \in BOOLEAN

(* The node is alive and no assertion has stopped it.                      *)
Up == pc = "run" /\ ~asserted /\ ~broken

TipCoins == Answers(cache, db)

-----------------------------------------------------------------------------
(* The memory of a process that is not running.                            *)
NoMemory ==
    /\ active' = Null /\ then' = Null /\ full' = FALSE
    /\ status' = [b \in Block |-> {}] /\ last' = 0
    /\ cache' = EmptyCache /\ cacheBest' = Null

Init ==
    LET made == [b \in Block |-> IF ~Fresh /\ b = Genesis
                                 THEN {"data"} ELSE {}]
    IN  /\ pc = "down"
        /\ active = Null /\ then = Null /\ full = FALSE
        /\ status = [b \in Block |-> {}] /\ last = 0
        /\ cache = EmptyCache /\ cacheBest = Null
        /\ blk = [b \in Block |-> IF made[b] = {} THEN "none" ELSE "disk"]
        /\ rev = [b \in Block |-> "none"]
        /\ file = [b \in Block |-> 0]
        /\ undo = [b \in Block |-> NoUndo]
        /\ index = made /\ lastDisk = 0
        /\ db = NoCoins
        /\ dbBest = IF Fresh THEN Null ELSE Genesis
        /\ dbHeads = <<>>
        /\ dbDisk = <<db, dbBest, dbHeads>>
        /\ crashes = 0
        /\ broken = FALSE /\ asserted = FALSE

-----------------------------------------------------------------------------
(* FlushBlockFile: both files numbered nLastBlockFile are committed.       *)
Synced(where) ==
    [b \in Block |-> IF where[b] = "os" /\ file[b] = last
                     THEN "disk" ELSE where[b]]

(***************************************************************************)
(* AcceptBlock of a block whose parent has not failed; headers come first, *)
(* so blocks may arrive in any order.  When the current file is full,      *)
(* FindBlockPos commits it and moves to the next.                          *)
(***************************************************************************)
AcceptBlock(b, fileFull) ==
    /\ Up
    /\ active # Null /\ "data" \notin status[b]
    /\ "failed" \notin status[Parent[b]]
    /\ fileFull => last < MaxFile
    /\ last' = IF fileFull THEN last + 1 ELSE last
    /\ blk' = [(IF fileFull THEN Synced(blk) ELSE blk) EXCEPT ![b] = "os"]
    /\ rev' = IF fileFull THEN Synced(rev) ELSE rev
    /\ file' = [file EXCEPT ![b] = last']
    /\ status' = [status EXCEPT ![b] = @ \cup {"data"}]
    /\ UNCHANGED <<pc, active, cache, cacheBest, full, then, undo, indexDb,
                   coinDb, crashes, broken, asserted>>

(* FlushStateToDisk as ConnectTip and DisconnectTip call it when the cache *)
(* has grown too large, or not at all; then UpdateTip.                     *)
MaybeFlush(flush, tip) ==
    /\ pc' = IF flush THEN "sync" ELSE "run"
    /\ full' = flush
    /\ then' = IF flush THEN tip ELSE Null
    /\ active' = IF flush THEN active ELSE tip

(***************************************************************************)
(* ConnectTip.  ConnectBlock asserts where the view stands, applies the    *)
(* block to a view over pcoinsTip and writes the undo record unless the    *)
(* index has one; the view is merged into pcoinsTip.  A block that fails   *)
(* is marked (InvalidBlockFound) and the view dropped.                     *)
(***************************************************************************)
ConnectTip(b, flush) ==
    LET r == ConnectBlock(EmptyCache, TipCoins, b)
        writeUndo == b # Genesis /\ "undo" \notin status[b]
    IN
    /\ Up
    /\ Parent[b] = active
    /\ "data" \in status[b] /\ "failed" \notin status[b]
    /\ asserted' = (cacheBest # active)
    /\ IF r.ok
       THEN /\ cache' = BatchWrite(cache, r.view)
            /\ cacheBest' = b
            /\ undo' = IF writeUndo THEN [undo EXCEPT ![b] = r.undo] ELSE undo
            /\ rev' = IF writeUndo THEN [rev EXCEPT ![b] = "os"] ELSE rev
            /\ status' = IF writeUndo
                         THEN [status EXCEPT ![b] = @ \cup {"undo"}]
                         ELSE status
            /\ MaybeFlush(flush, b)
       ELSE /\ ~flush
            /\ status' = [status EXCEPT ![b] = @ \cup {"failed"}]
            /\ UNCHANGED <<pc, then, full, active, cache, cacheBest, undo, rev>>
    /\ UNCHANGED <<last, blk, file, indexDb, coinDb, crashes, broken>>

(***************************************************************************)
(* DisconnectTip.  Anything but DISCONNECT_OK is an error; the genesis     *)
(* block is never disconnected.                                            *)
(***************************************************************************)
DisconnectTip(flush) ==
    LET readable == /\ "undo" \in status[active] /\ rev[active] # "none"
                    /\ "data" \in status[active] /\ blk[active] # "none"
        r == DisconnectBlock(EmptyCache, TipCoins, active, undo[active])
    IN
    /\ Up
    /\ active \notin {Null, Genesis}
    /\ asserted' = (cacheBest # active)
    /\ IF readable /\ r.clean
       THEN /\ cache' = BatchWrite(cache, r.view)
            /\ cacheBest' = Parent[active]
            /\ MaybeFlush(flush, Parent[active])
            /\ UNCHANGED broken
       ELSE /\ broken' = TRUE
            /\ UNCHANGED <<pc, then, full, active, cache, cacheBest>>
    /\ UNCHANGED <<status, last, files, indexDb, coinDb, crashes>>

(* FlushStateToDisk(FLUSH_STATE_PERIODIC) at the end of ActivateBestChain: *)
(* the block index alone, or everything.                                   *)
PeriodicFlush(everything) ==
    /\ Up
    /\ active # Null
    /\ pc' = "sync" /\ full' = everything /\ then' = active
    /\ UNCHANGED <<active, status, last, cache, cacheBest, files, indexDb,
                   coinDb, crashes, broken, asserted>>

(* Shutdown() calls FlushStateToDisk(FLUSH_STATE_ALWAYS), also after       *)
(* AbortNode asked for it.                                                 *)
Shutdown ==
    /\ pc \in {"run", "abort"} /\ ~asserted
    /\ pc' = "sync" /\ full' = TRUE /\ then' = "exit"
    /\ UNCHANGED <<active, status, last, cache, cacheBest, files, indexDb,
                   coinDb, crashes, broken, asserted>>

(* What follows a flush: UpdateTip and back to work, or the process ends.  *)
FlushDone ==
    IF then = "exit"
    THEN pc' = "down" /\ NoMemory
    ELSE /\ pc' = "run" /\ active' = then
         /\ then' = Null /\ full' = FALSE
         /\ UNCHANGED <<status, last>>

(* Mutant: the coins are flushed although the index was not written.       *)
SyncBlockFilesNoIndex ==
    /\ pc = "sync"
    /\ blk' = Synced(blk) /\ rev' = Synced(rev)
    /\ pc' = IF full THEN "coins" ELSE "index"
    /\ UNCHANGED <<memory, file, undo, indexDb, coinDb, crashes, broken,
                   asserted>>

(* Mutant: only the block file is committed, not the undo file.            *)
SyncBlockFilesNotUndo ==
    /\ pc = "sync"
    /\ blk' = Synced(blk)
    /\ pc' = "index"
    /\ UNCHANGED <<memory, rev, file, undo, indexDb, coinDb, crashes, broken,
                   asserted>>

(* "First make sure all block and undo data is flushed to disk."           *)
SyncBlockFiles ==
    /\ pc = "sync"
    /\ blk' = Synced(blk) /\ rev' = Synced(rev)
    /\ pc' = "index"
    /\ UNCHANGED <<memory, file, undo, indexDb, coinDb, crashes, broken,
                   asserted>>

(* old_tip of CCoinsViewDB::BatchWrite: the block the database stands at,  *)
(* or stood at before a flush that was interrupted.                        *)
OldTip == IF dbBest = Null /\ dbHeads # <<>> THEN dbHeads[2] ELSE dbBest

(* The asserts at the head of CCoinsViewDB::BatchWrite.                    *)
BatchWriteAsserts ==
    \/ cacheBest = Null
    \/ dbBest = Null /\ dbHeads # <<>> /\ dbHeads[1] # cacheBest

(* WriteBatchSync of the dirty block index entries, which is durable; then *)
(* the coins, or the end of a flush that only writes the index.            *)
WriteBlockIndex ==
    /\ pc = "index"
    /\ index' = status /\ lastDisk' = last
    /\ IF full
       THEN /\ asserted' = BatchWriteAsserts
            /\ pc' = "coins"
            /\ UNCHANGED memory
       ELSE /\ FlushDone
            /\ UNCHANGED <<asserted, cache, cacheBest>>
    /\ UNCHANGED <<files, coinDb, crashes, broken>>

Entries == {o \in Outpoint : cache[o] # NoEntry}
Only(S) == [o \in Outpoint |-> IF o \in S THEN cache[o] ELSE NoEntry]

(* Mutant: the transition is recorded without the tip it started from.     *)
WritePartialBatchOneHead(S) ==
    /\ pc = "coins" /\ ~asserted
    /\ \E o \in S : IsDirty(cache[o])
    /\ db' = DBBatchWrite(db, Only(S))
    /\ dbBest' = Null
    /\ dbHeads' = <<cacheBest>>
    /\ cache' = Only(Entries \ S)
    /\ UNCHANGED <<pc, active, status, last, cacheBest, full, then, files,
                   indexDb, dbDisk, crashes, broken, asserted>>

(***************************************************************************)
(* A partial batch of CCoinsViewDB::BatchWrite.  It holds some entries, in *)
(* the order of a hash map; the first one marks the database as being in   *)
(* transition.  The entries leave the map as they enter the batch.         *)
(***************************************************************************)
WritePartialBatch(S) ==
    /\ pc = "coins" /\ ~asserted
    /\ \E o \in S : IsDirty(cache[o])
    /\ db' = DBBatchWrite(db, Only(S))
    /\ dbBest' = Null
    /\ dbHeads' = <<cacheBest, OldTip>>
    /\ cache' = Only(Entries \ S)
    /\ UNCHANGED <<pc, active, status, last, cacheBest, full, then, files,
                   indexDb, dbDisk, crashes, broken, asserted>>

(* Mutant: the last batch forgets DB_BEST_BLOCK.                           *)
WriteFinalBatchNoBest ==
    /\ pc = "coins" /\ ~asserted
    /\ db' = DBBatchWrite(db, cache)
    /\ dbHeads' = <<>>
    /\ FlushDone
    /\ cache' = EmptyCache
    /\ cacheBest' = IF then = "exit" THEN Null ELSE cacheBest
    /\ UNCHANGED <<dbBest, dbDisk, files, indexDb, crashes, broken, asserted>>

(* The last batch marks the database as consistent with hashBlock again.   *)
WriteFinalBatch ==
    /\ pc = "coins" /\ ~asserted
    /\ db' = DBBatchWrite(db, cache)
    /\ dbBest' = cacheBest
    /\ dbHeads' = <<>>
    /\ UNCHANGED dbDisk
    /\ FlushDone
    /\ cache' = EmptyCache
    /\ cacheBest' = IF then = "exit" THEN Null ELSE cacheBest
    /\ UNCHANGED <<files, indexDb, crashes, broken, asserted>>

(***************************************************************************)
(* WriteBatch throws: the entries of the batch are no longer in the map.   *)
(* FlushStateToDisk catches the error and calls AbortNode.  (In a replay   *)
(* the start-up fails instead, which is a crash as far as disks go.)       *)
(***************************************************************************)
WriteFails(S) ==
    /\ pc = "coins" /\ ~asserted
    /\ active # Null
    /\ \E o \in S : IsDirty(cache[o])
    /\ cache' = Only(Entries \ S)
    /\ pc' = "abort"
    /\ UNCHANGED <<active, status, last, cacheBest, full, then, files,
                   indexDb, coinDb, crashes, broken, asserted>>

-----------------------------------------------------------------------------
(* The batches of the coin database are not synced: the operating system   *)
(* writes them back, in order, when it likes.                              *)
WriteBack ==
    /\ PowerLoss
    /\ pc # "down"
    /\ dbDisk # <<db, dbBest, dbHeads>>
    /\ dbDisk' = <<db, dbBest, dbHeads>>
    /\ UNCHANGED <<pc, memory, files, indexDb, db, dbBest, dbHeads, crashes,
                   broken, asserted>>

(* The process dies.  With a power loss, data that was not synced may be   *)
(* gone, and the coin database is back in the state last written back.     *)
Crash ==
    /\ pc # "down" /\ ~asserted
    /\ crashes < MaxCrashes
    /\ crashes' = crashes + 1
    /\ pc' = "down" /\ NoMemory
    /\ IF PowerLoss
       THEN /\ \E lostBlk, lostRev \in SUBSET Block :
                 /\ \A b \in lostBlk : blk[b] = "os"
                 /\ \A b \in lostRev : rev[b] = "os"
                 /\ blk' = [b \in Block |-> IF b \in lostBlk
                                            THEN "none" ELSE blk[b]]
                 /\ rev' = [b \in Block |-> IF b \in lostRev
                                            THEN "none" ELSE rev[b]]
            /\ db' = dbDisk[1] /\ dbBest' = dbDisk[2] /\ dbHeads' = dbDisk[3]
            /\ UNCHANGED dbDisk
       ELSE UNCHANGED <<blk, rev, coinDb>>
    /\ UNCHANGED <<file, undo, indexDb, broken, asserted>>

(* The length of what the chains of two tips have in common, up to their   *)
(* LastCommonAncestor.  The genesis block counts as common: it is neither  *)
(* rolled back nor, when there is no old tip, rolled forward.              *)
Fork(new, old) ==
    Max({1} \cup {n \in DOMAIN Chain[new] \cap DOMAIN Chain[old] :
                    Chain[new][n] = Chain[old][n]})

(* Mutant: the old branch is not rolled back.                              *)
RolledBackNothing(new, old) == <<>>

(***************************************************************************)
(* ReplayBlocks, up to its Flush: roll back from the old tip to the fork,  *)
(* then roll forward to the new tip, over a database that has some of the  *)
(* changes of either.                                                      *)
(***************************************************************************)
RolledBack(new, old) ==
    SubSeq(Chain[old], Fork(new, old) + 1, Len(Chain[old]))

RolledForward(new, old) ==
    SubSeq(Chain[new], Fork(new, old) + 1, Len(Chain[new]))

RollBack(branch) ==
    LET after[n \in 0 .. Len(branch)] ==
            IF n = 0 THEN EmptyCache
            ELSE LET b == branch[Len(branch) + 1 - n]
                 IN  DisconnectBlock(after[n - 1], db, b, undo[b]).view
    IN  after

RollForward(view, branch) ==
    LET after[n \in 0 .. Len(branch)] ==
            IF n = 0 THEN view
            ELSE RollforwardBlock(after[n - 1], db, branch[n])
    IN  after

Replayed(new, old) ==
    LET back    == RolledBack(new, old)
        forward == RolledForward(new, old)
    IN  RollForward(RollBack(back)[Len(back)], forward)[Len(forward)]

(* Mutant: an interrupted reorganization is not replayed.                  *)
CanReplayForwardOnly(new, old) == old # Null => old \in Range(Chain[new])

(* Everything the replay reads is there.                                   *)
CanReplay(new, old) ==
    /\ "data" \in index[new] /\ (old # Null => "data" \in index[old])
    /\ \A b \in Range(RolledBack(new, old)) :
            /\ "data" \in index[b] /\ blk[b] # "none"
            /\ "undo" \in index[b] /\ rev[b] # "none"
    /\ \A b \in Range(RolledForward(new, old)) :
            "data" \in index[b] /\ blk[b] # "none"

(* LoadBlockIndex, then LoadGenesisBlock when the data directory is new.   *)
LoadBlockIndex ==
    /\ status' = IF index[Genesis] = {}
                 THEN [index EXCEPT ![Genesis] = {"data"}] ELSE index
    /\ blk' = IF index[Genesis] = {}
              THEN [blk EXCEPT ![Genesis] = "os"] ELSE blk
    /\ last' = lastDisk

(***************************************************************************)
(* Start-up: the block index, ReplayBlocks if a flush was interrupted, and *)
(* LoadChainTip, which needs the best block to be in the index.  On a new  *)
(* data directory there is no tip until ThreadImport connects the genesis  *)
(* block.                                                                  *)
(***************************************************************************)
Start ==
    /\ pc = "down" /\ ~broken /\ ~asserted
    /\ LoadBlockIndex
    /\ IF dbHeads # <<>>
       THEN IF CanReplay(dbHeads[1], dbHeads[2])
            THEN /\ pc' = "coins" /\ full' = TRUE
                 /\ then' = dbHeads[1] /\ cacheBest' = dbHeads[1]
                 /\ cache' = Replayed(dbHeads[1], dbHeads[2])
                 /\ UNCHANGED <<active, broken>>
            ELSE /\ broken' = TRUE
                 /\ UNCHANGED <<pc, full, then, active, cache, cacheBest>>
       ELSE IF dbBest = Null \/ "data" \in index[dbBest]
            THEN /\ pc' = "run" /\ active' = dbBest /\ cacheBest' = dbBest
                 /\ UNCHANGED <<full, then, cache, broken>>
            ELSE /\ broken' = TRUE
                 /\ UNCHANGED <<pc, full, then, active, cache, cacheBest>>
    /\ UNCHANGED <<rev, file, undo, indexDb, coinDb, crashes, asserted>>

Next ==
    \/ \E b \in Block \ {Genesis}, fileFull \in BOOLEAN : AcceptBlock(b, fileFull)
    \/ \E b \in Block, flush \in BOOLEAN : ConnectTip(b, flush)
    \/ \E flush \in BOOLEAN : DisconnectTip(flush)
    \/ \E everything \in BOOLEAN : PeriodicFlush(everything)
    \/ Shutdown
    \/ SyncBlockFiles
    \/ WriteBlockIndex
    \/ \E S \in SUBSET Entries : WritePartialBatch(S)
    \/ WriteFinalBatch
    \/ WriteBack
    \/ Crash
    \/ Start

(* The operator restarts the node, and what it has begun it goes on with.  *)
Fairness ==
    /\ WF_vars(Start)
    /\ WF_vars(SyncBlockFiles \/ WriteBlockIndex \/ WriteFinalBatch)

Spec == Init /\ [][Next]_vars
FairSpec == Spec /\ Fairness

(* The same on a disk on which a write to the coin database may fail.      *)
ErrorSpec == Init /\ [][Next \/ \E S \in SUBSET Entries : WriteFails(S)]_vars

-----------------------------------------------------------------------------
(***************************************************************************)
(* Properties.                                                             *)
(***************************************************************************)

(* Whenever the database is not marked as being in transition it holds     *)
(* exactly the UTXO set of the block it names, whatever flushes, crashes   *)
(* and replays came before.                                                *)
DbConsistent == dbHeads = <<>> => db = UtxoAt[dbBest]

(* While the node runs, pcoinsTip stands at the tip of the active chain    *)
(* and answers with exactly its UTXO set.                                  *)
TipExact ==
    pc = "run" /\ ~broken /\ ~asserted =>
        cacheBest = active /\ TipCoins = UtxoAt[active]

(* No start-up fails and no tip is impossible to disconnect: the block     *)
(* index, the blocks and the undo data that ReplayBlocks, LoadChainTip and *)
(* DisconnectTip need are there, and every disconnection is clean.         *)
NeverBroken == ~broken

(* What the block index on disk refers to has been synced: "First make     *)
(* sure all block and undo data is flushed to disk."                       *)
IndexBacked ==
    \A b \in DOMAIN index :
        /\ "data" \in index[b] => blk[b] = "disk"
        /\ "undo" \in index[b] => rev[b] = "disk"

(* A node that goes down, by a crash or on request, comes back to work.    *)
Recovers == pc = "down" ~> pc = "run"

(* A flush whose first batch reached the disk, where no power loss undoes  *)
(* it, is completed, by itself or by the replay of a later start: the      *)
(* database arrives at the new tip.                                        *)
FlushCompletes ==
    \A b \in Block :
        /\ dbHeads # <<>> /\ dbHeads[1] = b
        /\ PowerLoss => dbDisk[3] = dbHeads
        ~> dbBest = b
=============================================================================
