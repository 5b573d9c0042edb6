-------------------------- MODULE CoinsCacheProofs --------------------------
(***************************************************************************)
(* Proofs about CoinsCache, for any sets of outpoints, coins and blocks.   *)
(***************************************************************************)
EXTENDS CoinsCache, Recursion, FiniteSetTheorems

-----------------------------------------------------------------------------
(***************************************************************************)
(* What each method of a single cache does, for any outpoints and coins:   *)
(* it changes what the cache answers in the way its caller expects, and    *)
(* the flags stay sound over the parent.                                   *)
(***************************************************************************)

(* What a cache answers is again a well-formed UTXO set.                   *)
LEMMA AnswersType ==
    ASSUME NEW cache \in CCoinsMap, NEW base \in Contents
    PROVE  Answers(cache, base) \in Contents
BY DEF Answers, CCoinsMap, Contents, Entry

(* An empty cache answers as its parent does, and is sound over it.        *)
LEMMA EmptyFacts ==
    ASSUME NEW base \in Contents
    PROVE  /\ EmptyCache \in CCoinsMap
           /\ Answers(EmptyCache, base) = base
           /\ SoundOver(EmptyCache, base)
BY DEF EmptyCache, CCoinsMap, Answers, Contents, SoundOver, SoundEntry

(* FetchCoin is invisible: it changes neither the answers nor soundness,   *)
(* and finds an entry for every unspent coin.                              *)
LEMMA FetchFacts ==
    ASSUME NEW cache \in CCoinsMap, NEW base \in Contents, NEW o \in Outpoint,
           SoundOver(cache, base)
    PROVE  /\ FetchCoin(cache, base, o) \in CCoinsMap
           /\ Answers(FetchCoin(cache, base, o), base) = Answers(cache, base)
           /\ SoundOver(FetchCoin(cache, base, o), base)
           /\ FetchCoin(cache, base, o)[o] = NoEntry => base[o] = Spent
<1> DEFINE new == FetchCoin(cache, base, o)
<1>1. CASE cache[o] # NoEntry \/ base[o] = Spent
  BY <1>1 DEF FetchCoin
<1>2. CASE cache[o] = NoEntry /\ base[o] # Spent
  <2> DEFINE e == [coin |-> base[o], flags |-> {}]
  <2>1. e \in Entry
    BY DEF Entry, Contents
  <2>2. new = [cache EXCEPT ![o] = e]
    BY <1>2 DEF FetchCoin
  <2>3. new \in CCoinsMap
    BY <2>1, <2>2 DEF CCoinsMap
  <2>4. e # NoEntry
    BY <2>1, CoinsViewAssumption
  <2>5. new[o] = e /\ \A p \in Outpoint \ {o} : new[p] = cache[p]
    BY <2>2 DEF CCoinsMap
  <2>6. Answers(new, base) = Answers(cache, base)
    BY <2>4, <2>5, <1>2 DEF Answers
  <2>7. SoundOver(new, base)
    BY <2>5, <1>2 DEF SoundOver, SoundEntry, IsFresh, IsDirty
  <2> QED
    BY <2>3, <2>4, <2>5, <2>6, <2>7
<1> QED
  BY <1>1, <1>2

(* AddCoin, called by the possible_overwrite rule, does not throw, makes   *)
(* the cache answer the new coin and keeps the flags sound.                *)
LEMMA AddFacts ==
    ASSUME NEW cache \in CCoinsMap, NEW base \in Contents, NEW o \in Outpoint,
           NEW c \in Coin, NEW overwrite \in BOOLEAN,
           SoundOver(cache, base),
           overwrite \/ Answers(cache, base)[o] = Spent
    PROVE  /\ ~AddCoinThrows(cache, o, c, overwrite)
           /\ AddCoin(cache, o, c, overwrite) \in CCoinsMap
           /\ Answers(AddCoin(cache, o, c, overwrite), base)
                = IF c \in Unspendable THEN Answers(cache, base)
                  ELSE [Answers(cache, base) EXCEPT ![o] = c]
           /\ SoundOver(AddCoin(cache, o, c, overwrite), base)
<1> DEFINE new == AddCoin(cache, o, c, overwrite)
           old == Emplaced(cache, o)
           e   == [coin |-> c, flags |-> AddedFlags(old, overwrite)]
<1>1. old \in Entry /\ SoundEntry(cache[o], base[o])
  BY DEF Emplaced, CCoinsMap, Entry, SoundOver
<1>2. ~overwrite => old.coin = Spent
  BY DEF Emplaced, Answers
<1>3. ~AddCoinThrows(cache, o, c, overwrite)
  BY <1>2 DEF AddCoinThrows
<1>4. CASE c \in Unspendable
  BY <1>3, <1>4 DEF AddCoin
<1>5. CASE c \notin Unspendable
  <2>1. e \in Entry /\ e # NoEntry
    BY <1>1, CoinsViewAssumption DEF Entry, AddedFlags
  <2>2. new = [cache EXCEPT ![o] = e]
    BY <1>5 DEF AddCoin
  <2>3. new \in CCoinsMap
    BY <2>1, <2>2 DEF CCoinsMap
  <2>4. new[o] = e /\ \A p \in Outpoint \ {o} : new[p] = cache[p]
    BY <2>2 DEF CCoinsMap
  <2>5. Answers(new, base) = [Answers(cache, base) EXCEPT ![o] = c]
    <3>1. e.coin = c
      OBVIOUS
    <3> HIDE DEF new, e
    <3> QED
      BY <2>1, <2>4, <3>1, Zenon DEF Answers
  <2>6. IsFresh(e) => base[o] = Spent
    <3> SUFFICES ASSUME IsFresh(e) PROVE base[o] = Spent
      OBVIOUS
    <3>1. CASE "FRESH" \in old.flags
      BY <3>1, <1>1 DEF Emplaced, SoundEntry, IsFresh
    <3>2. CASE ~overwrite /\ ~IsDirty(old)
      BY <3>2, <1>1, <1>2 DEF Emplaced, SoundEntry, Answers, IsDirty
    <3> QED
      BY <3>1, <3>2 DEF IsFresh, AddedFlags
  <2>7. IsDirty(e) /\ e.coin # Spent
    BY CoinsViewAssumption DEF IsDirty, AddedFlags
  <2>8. SoundOver(new, base)
    BY <2>4, <2>6, <2>7 DEF SoundOver, SoundEntry
  <2> QED
    BY <1>3, <1>5, <2>3, <2>5, <2>8
<1> QED
  BY <1>4, <1>5

(* SpendCoin, on an outpoint that was fetched, makes the cache answer      *)
(* Spent there and keeps the flags sound.                                  *)
LEMMA SpendFacts ==
    ASSUME NEW cache \in CCoinsMap, NEW base \in Contents, NEW o \in Outpoint,
           SoundOver(cache, base),
           cache[o] = NoEntry => base[o] = Spent
    PROVE  /\ SpendCoin(cache, o) \in CCoinsMap
           /\ Answers(SpendCoin(cache, o), base)
                = [Answers(cache, base) EXCEPT ![o] = Spent]
           /\ SoundOver(SpendCoin(cache, o), base)
<1> DEFINE new == SpendCoin(cache, o)
           e   == SpentEntry(cache[o])
<1>1. CASE cache[o] = NoEntry
  BY <1>1 DEF SpendCoin, Answers
<1>2. CASE cache[o] # NoEntry
  <2>1. cache[o] \in Entry /\ SoundEntry(cache[o], base[o])
    BY <1>2 DEF CCoinsMap, SoundOver
  <2>2. e \in Entry \cup {NoEntry}
    BY <2>1 DEF SpentEntry, Entry
  <2>3. new = [cache EXCEPT ![o] = e]
    BY <1>2 DEF SpendCoin
  <2>4. new \in CCoinsMap
    BY <2>2, <2>3 DEF CCoinsMap
  <2>5. new[o] = e /\ \A p \in Outpoint \ {o} : new[p] = cache[p]
    BY <2>3 DEF CCoinsMap
  <2>6. IF e = NoEntry THEN base[o] = Spent ELSE e.coin = Spent
    <3>1. CASE IsFresh(cache[o])
      BY <1>2, <2>1, <3>1 DEF SpentEntry, SoundEntry
    <3>2. CASE ~IsFresh(cache[o])
      <4>1. e = [coin |-> Spent, flags |-> cache[o].flags \cup {"DIRTY"}]
        BY <3>2 DEF SpentEntry
      <4>2. e \in Entry
        BY <4>1, <2>1 DEF Entry
      <4> QED
        BY <4>1, <4>2, CoinsViewAssumption
    <3> QED
      BY <3>1, <3>2
  <2>7. Answers(new, base) = [Answers(cache, base) EXCEPT ![o] = Spent]
    BY <2>5, <2>6, Zenon DEF Answers
  <2>8. SoundEntry(e, base[o])
    BY <2>1 DEF SpentEntry, SoundEntry, IsFresh, IsDirty, Entry
  <2>9. SoundOver(new, base)
    BY <2>5, <2>8 DEF SoundOver
  <2> QED
    BY <2>4, <2>7, <2>9
<1> QED
  BY <1>1, <1>2

(* One entry of BatchWrite: with "them" sound over the answer of "us", and *)
(* "us" sound over the grandparent's coin c, the merged entry answers what *)
(* the child answered and is sound over c.                                 *)
LEMMA MergeEntryFacts ==
    ASSUME NEW us \in Entry \cup {NoEntry}, NEW them \in Entry \cup {NoEntry},
           NEW c \in Coin \cup {Spent},
           SoundEntry(us, c),
           SoundEntry(them, IF us = NoEntry THEN c ELSE us.coin)
    PROVE  LET m == MergeEntry(us, them)
               parent == IF us = NoEntry THEN c ELSE us.coin
           IN  /\ m \in Entry \cup {NoEntry}
               /\ (IF m = NoEntry THEN c ELSE m.coin)
                    = (IF them = NoEntry THEN parent ELSE them.coin)
               /\ SoundEntry(m, c)
<1> DEFINE m == MergeEntry(us, them)
<1>1. CASE them = NoEntry
  BY <1>1 DEF MergeEntry
<1>2. CASE them # NoEntry /\ ~IsDirty(them)
  BY <1>2 DEF MergeEntry, SoundEntry
<1>3. CASE them # NoEntry /\ IsDirty(them) /\ us = NoEntry
  <2>1. them \in Entry /\ ~(IsFresh(them) /\ them.coin = Spent)
    BY <1>3 DEF SoundEntry
  <2>2. m = [coin |-> them.coin,
             flags |-> {"DIRTY"} \cup (them.flags \cap {"FRESH"})]
    BY <1>3, <2>1 DEF MergeEntry
  <2>3. m \in Entry /\ m # NoEntry
    BY <2>1, <2>2, CoinsViewAssumption DEF Entry
  <2>4. IsDirty(m) /\ (IsFresh(m) <=> IsFresh(them)) /\ m.coin = them.coin
    BY <2>2 DEF IsDirty, IsFresh
  <2> QED
    BY <1>3, <2>3, <2>4 DEF SoundEntry
<1>4. CASE them # NoEntry /\ IsDirty(them) /\ us # NoEntry
           /\ IsFresh(us) /\ them.coin = Spent
  BY <1>4 DEF MergeEntry, SoundEntry
<1>5. CASE them # NoEntry /\ IsDirty(them) /\ us # NoEntry
           /\ ~(IsFresh(us) /\ them.coin = Spent)
  <2>1. us \in Entry /\ them \in Entry
    BY <1>5
  <2>2. m = [coin |-> them.coin, flags |-> us.flags \cup {"DIRTY"}]
    BY <1>5 DEF MergeEntry
  <2>3. m \in Entry /\ m # NoEntry
    BY <2>1, <2>2, CoinsViewAssumption DEF Entry
  <2>4. IsDirty(m) /\ (IsFresh(m) <=> IsFresh(us)) /\ m.coin = them.coin
    BY <2>2 DEF IsDirty, IsFresh
  <2> QED
    BY <1>5, <2>3, <2>4 DEF SoundEntry
<1> QED
  BY <1>1, <1>2, <1>3, <1>4, <1>5

(* BatchWrite of a child that is sound over a cache: no logic_error, the   *)
(* cache then answers what the child answered, and is sound over its own   *)
(* parent.                                                                 *)
LEMMA BatchWriteFacts ==
    ASSUME NEW us \in CCoinsMap, NEW them \in CCoinsMap, NEW base \in Contents,
           SoundOver(us, base), SoundOver(them, Answers(us, base))
    PROVE  /\ ~BatchWriteThrows(us, them)
           /\ BatchWrite(us, them) \in CCoinsMap
           /\ Answers(BatchWrite(us, them), base)
                = Answers(them, Answers(us, base))
           /\ SoundOver(BatchWrite(us, them), base)
<1> DEFINE m(o) == MergeEntry(us[o], them[o])
           parent(o) == IF us[o] = NoEntry THEN base[o] ELSE us[o].coin
<1>1. \A o \in Outpoint : Answers(us, base)[o] = parent(o)
  BY DEF Answers
<1>2. ASSUME NEW o \in Outpoint
      PROVE  /\ us[o] \in Entry \cup {NoEntry}
             /\ them[o] \in Entry \cup {NoEntry}
             /\ base[o] \in Coin \cup {Spent}
             /\ SoundEntry(us[o], base[o])
             /\ SoundEntry(them[o], parent(o))
  BY <1>1 DEF CCoinsMap, Contents, SoundOver
<1>3. ASSUME NEW o \in Outpoint
      PROVE  /\ m(o) \in Entry \cup {NoEntry}
             /\ (IF m(o) = NoEntry THEN base[o] ELSE m(o).coin)
                  = (IF them[o] = NoEntry THEN parent(o) ELSE them[o].coin)
             /\ SoundEntry(m(o), base[o])
  BY <1>2, MergeEntryFacts
<1>4. ~BatchWriteThrows(us, them)
  BY <1>2 DEF BatchWriteThrows, SoundEntry
<1>5. BatchWrite(us, them) = [o \in Outpoint |-> m(o)]
  BY DEF BatchWrite
<1> HIDE DEF m
<1>6. BatchWrite(us, them) \in CCoinsMap
  BY <1>3, <1>5 DEF CCoinsMap
<1>7. Answers(BatchWrite(us, them), base) = Answers(them, Answers(us, base))
  BY <1>1, <1>3, <1>5 DEF Answers
<1>8. SoundOver(BatchWrite(us, them), base)
  BY <1>3, <1>5 DEF SoundOver
<1> QED
  BY <1>4, <1>6, <1>7, <1>8

(* Writing a sound cache to the database leaves in it exactly what the     *)
(* cache answered: an entry that is skipped agreed with the database.      *)
LEMMA DBBatchWriteFacts ==
    ASSUME NEW cache \in CCoinsMap, NEW disk \in Contents,
           SoundOver(cache, disk)
    PROVE  DBBatchWrite(disk, cache) = Answers(cache, disk)
BY DEF DBBatchWrite, WriteKey, Answers, SoundOver, SoundEntry

(* Uncache drops only an entry that agrees with the parent.                *)
LEMMA UncacheFacts ==
    ASSUME NEW cache \in CCoinsMap, NEW base \in Contents, NEW o \in Outpoint,
           SoundOver(cache, base)
    PROVE  /\ Uncache(cache, o) \in CCoinsMap
           /\ Answers(Uncache(cache, o), base) = Answers(cache, base)
           /\ SoundOver(Uncache(cache, o), base)
<1>1. CASE cache[o] = NoEntry \/ cache[o].flags # {}
  BY <1>1 DEF Uncache
<1>2. CASE cache[o] # NoEntry /\ cache[o].flags = {}
  <2>1. Uncache(cache, o) = [cache EXCEPT ![o] = NoEntry]
    BY <1>2 DEF Uncache
  <2>2. cache[o].coin = base[o]
    BY <1>2 DEF SoundOver, SoundEntry, IsDirty
  <2> QED
    BY <1>2, <2>1, <2>2 DEF CCoinsMap, Answers, SoundOver, SoundEntry
<1> QED
  BY <1>1, <1>2

-----------------------------------------------------------------------------
(***************************************************************************)
(* One lemma per action: it preserves the inductive invariant, and it is a *)
(* step of UtxoSet or leaves the three versions of the UTXO set alone.     *)
(***************************************************************************)

(* What the inductive invariant says of the three layers.                  *)
LEMMA LayerFacts ==
    ASSUME IInv
    PROVE  /\ db \in Contents /\ tip \in CCoinsMap /\ view \in CCoinsMap
           /\ TipCoins \in Contents /\ ViewCoins \in Contents
           /\ SoundOver(tip, db) /\ SoundOver(view, TipCoins)
           /\ TipCoins = Answers(tip, db)
           /\ ViewCoins = Answers(view, TipCoins)
           /\ ~open => ViewCoins = TipCoins
BY AnswersType, EmptyFacts DEF IInv, TypeOK, FlagsSound, TipCoins, ViewCoins

(* Stuttering of the abstract variables.                                   *)
Invisible == UNCHANGED <<db, dbBest, TipCoins, TipBestBlock, ViewCoins, open,
                         IF open THEN viewBest ELSE TipBestBlock>>

(* Opening a block view is the abstract Begin.                             *)
LEMMA OpenViewStep ==
    ASSUME IInv, OpenView
    PROVE  IInv' /\ Utxo!Begin
<1> USE DEF OpenView, tipVars, dbVars
<1>1. TipCoins' = TipCoins
  BY DEF TipCoins
<1>2. view' \in CCoinsMap /\ SoundOver(view', TipCoins') /\ ViewCoins' = TipCoins'
  BY <1>1, LayerFacts, EmptyFacts DEF ViewCoins
<1>3. SoundOver(tip', db')
  BY LayerFacts
<1>4. TipBestBlock' = TipBestBlock /\ TipBestBlock \in Block
  BY NullAssumption DEF TipBestBlock, IInv, TypeOK
<1>5. IInv'
  BY <1>2, <1>3, <1>4, NullAssumption DEF IInv, TypeOK, FlagsSound, NoLogicError
<1>6. Utxo!Begin
  BY <1>1, <1>2, <1>4 DEF Utxo!Begin
<1> QED
  BY <1>5, <1>6

(* A read through pcoinsTip is invisible, although it fills its cache.     *)
LEMMA ReadTipStep ==
    ASSUME IInv, NEW o \in Outpoint, ReadTip(o)
    PROVE  IInv' /\ Invisible
<1> USE DEF ReadTip, viewVars, dbVars
<1>1. /\ tip' \in CCoinsMap /\ SoundOver(tip', db') /\ TipCoins' = TipCoins
  BY LayerFacts, FetchFacts DEF TipCoins
<1>2. SoundOver(view', TipCoins') /\ ViewCoins' = ViewCoins
  BY <1>1, LayerFacts DEF ViewCoins
<1>3. IInv'
  BY <1>1, <1>2 DEF IInv, TypeOK, FlagsSound, NoLogicError
<1>4. Invisible
  BY <1>1, <1>2 DEF Invisible, TipBestBlock
<1> QED
  BY <1>3, <1>4

(* The part of a read through the view that happens in pcoinsTip.          *)
LEMMA FetchThroughFacts ==
    ASSUME IInv, NEW o \in Outpoint, FetchThrough(o), db' = db
    PROVE  tip' \in CCoinsMap /\ SoundOver(tip', db') /\ TipCoins' = TipCoins
BY LayerFacts, FetchFacts DEF FetchThrough, TipCoins

(* A read through the block view is invisible, although it may fill both   *)
(* caches.                                                                 *)
LEMMA ReadViewStep ==
    ASSUME IInv, NEW o \in Outpoint, ReadView(o)
    PROVE  IInv' /\ Invisible
<1> USE DEF ReadView, dbVars
<1>1. tip' \in CCoinsMap /\ SoundOver(tip', db') /\ TipCoins' = TipCoins
  BY FetchThroughFacts
<1>2. /\ view' \in CCoinsMap /\ SoundOver(view', TipCoins')
      /\ ViewCoins' = ViewCoins
  BY <1>1, LayerFacts, FetchFacts DEF ViewCoins
<1>3. IInv'
  BY <1>1, <1>2 DEF IInv, TypeOK, FlagsSound, NoLogicError
<1>4. Invisible
  BY <1>1, <1>2 DEF Invisible, TipBestBlock
<1> QED
  BY <1>3, <1>4

(* AddCoin on the block view is the abstract Add and never throws.         *)
LEMMA AddViewCoinStep ==
    ASSUME IInv, NEW o \in Outpoint, NEW c \in Coin, NEW overwrite \in BOOLEAN,
           AddViewCoin(o, c, overwrite)
    PROVE  IInv' /\ Utxo!Add(o, c)
<1> USE DEF AddViewCoin, dbVars, tipVars
<1>1. TipCoins' = TipCoins
  BY DEF TipCoins
<1>2. /\ ~AddCoinThrows(view, o, c, overwrite)
      /\ AddCoin(view, o, c, overwrite) \in CCoinsMap
      /\ SoundOver(AddCoin(view, o, c, overwrite), TipCoins)
      /\ Answers(AddCoin(view, o, c, overwrite), TipCoins)
           = IF c \in Unspendable THEN ViewCoins
             ELSE [ViewCoins EXCEPT ![o] = c]
  BY LayerFacts, AddFacts
<1>3. /\ view' \in CCoinsMap /\ SoundOver(view', TipCoins')
      /\ ViewCoins' = IF c \in Unspendable THEN ViewCoins
                      ELSE [ViewCoins EXCEPT ![o] = c]
      /\ viewBest' = viewBest /\ thrown' = thrown
  BY <1>1, <1>2 DEF ViewCoins
<1>4. SoundOver(tip', db')
  BY LayerFacts
<1>5. IInv'
  BY <1>3, <1>4 DEF IInv, TypeOK, FlagsSound, NoLogicError
<1>6. Utxo!Add(o, c)
  BY <1>1, <1>3 DEF Utxo!Add, TipBestBlock
<1> QED
  BY <1>5, <1>6

(* SpendCoin on the block view is the abstract Spend: clearing a coin and  *)
(* forgetting a FRESH entry amount to the same.                            *)
LEMMA SpendViewCoinStep ==
    ASSUME IInv, NEW o \in Outpoint, SpendViewCoin(o)
    PROVE  IInv' /\ Utxo!Spend(o)
<1> USE DEF SpendViewCoin, dbVars
<1> DEFINE fetched == FetchCoin(view, TipCoins, o)
<1>1. tip' \in CCoinsMap /\ SoundOver(tip', db') /\ TipCoins' = TipCoins
  BY FetchThroughFacts
<1>2. /\ fetched \in CCoinsMap /\ SoundOver(fetched, TipCoins)
      /\ Answers(fetched, TipCoins) = ViewCoins
      /\ fetched[o] = NoEntry => TipCoins[o] = Spent
  BY LayerFacts, FetchFacts
<1>3. view' = SpendCoin(fetched, o)
  OBVIOUS
<1> HIDE DEF fetched
<1>4. /\ view' \in CCoinsMap /\ SoundOver(view', TipCoins')
      /\ ViewCoins' = [ViewCoins EXCEPT ![o] = Spent]
  BY <1>1, <1>2, <1>3, LayerFacts, SpendFacts DEF ViewCoins
<1>5. IInv'
  BY <1>1, <1>4 DEF IInv, TypeOK, FlagsSound, NoLogicError
<1>6. Utxo!Spend(o)
  BY <1>1, <1>4 DEF Utxo!Spend, TipBestBlock
<1> QED
  BY <1>5, <1>6

(* SetBestBlock on the block view is the abstract SetBest.                 *)
LEMMA SetBestBlockStep ==
    ASSUME IInv, NEW b \in Block, SetBestBlock(b)
    PROVE  IInv' /\ Utxo!SetBest(b)
<1> USE DEF SetBestBlock, dbVars, tipVars
<1>1. TipCoins' = TipCoins /\ ViewCoins' = ViewCoins
  BY DEF TipCoins, ViewCoins
<1>2. IInv'
  BY <1>1, LayerFacts, NullAssumption DEF IInv, TypeOK, FlagsSound, NoLogicError
<1>3. Utxo!SetBest(b)
  BY <1>1 DEF Utxo!SetBest, TipBestBlock
<1> QED
  BY <1>2, <1>3

(* Flushing the block view into pcoinsTip is the abstract Commit and never *)
(* throws.  The view has asked for or set its best block by then, so the   *)
(* hash pcoinsTip takes over is not null.                                  *)
LEMMA FlushViewStep ==
    ASSUME IInv, FlushView
    PROVE  IInv' /\ Utxo!Commit
<1> USE DEF FlushView, dbVars
<1>1. /\ ~BatchWriteThrows(tip, view)
      /\ BatchWrite(tip, view) \in CCoinsMap
      /\ Answers(BatchWrite(tip, view), db) = ViewCoins
      /\ SoundOver(BatchWrite(tip, view), db)
  BY LayerFacts, BatchWriteFacts
<1>2. /\ tip' \in CCoinsMap /\ SoundOver(tip', db') /\ TipCoins' = ViewCoins
      /\ view' = EmptyCache /\ open' = FALSE /\ thrown' = thrown
      /\ tipBest' = viewBest /\ viewBest' = Null
  BY <1>1 DEF TipCoins
<1>3. view' \in CCoinsMap /\ SoundOver(view', TipCoins') /\ ViewCoins' = TipCoins'
  BY <1>2, LayerFacts, EmptyFacts DEF ViewCoins
<1>4. IInv'
  BY <1>2, <1>3, Zenon DEF IInv, TypeOK, FlagsSound, NoLogicError
<1>5. TipBestBlock' = viewBest
  BY <1>2 DEF TipBestBlock, IInv
<1>6. Utxo!Commit
  BY <1>2, <1>3, <1>5 DEF Utxo!Commit
<1> QED
  BY <1>4, <1>6

(* Dropping the block view is the abstract Abandon.                        *)
LEMMA DropViewStep ==
    ASSUME IInv, DropView
    PROVE  IInv' /\ Utxo!Abandon
<1> USE DEF DropView, dbVars, tipVars
<1>1. TipCoins' = TipCoins /\ TipBestBlock' = TipBestBlock
  BY DEF TipCoins, TipBestBlock
<1>2. view' \in CCoinsMap /\ SoundOver(view', TipCoins') /\ ViewCoins' = TipCoins'
  BY <1>1, LayerFacts, EmptyFacts DEF ViewCoins
<1>3. IInv'
  BY <1>2, LayerFacts, Zenon DEF IInv, TypeOK, FlagsSound, NoLogicError
<1>4. Utxo!Abandon
  BY <1>1, <1>2 DEF Utxo!Abandon
<1> QED
  BY <1>3, <1>4

(* Flushing pcoinsTip to the database is the abstract Sync: emptying the   *)
(* cache loses nothing.                                                    *)
LEMMA FlushTipStep ==
    ASSUME IInv, FlushTip
    PROVE  IInv' /\ Utxo!Sync
<1> USE DEF FlushTip, viewVars
<1>1. db' = TipCoins
  BY LayerFacts, DBBatchWriteFacts
<1>2. /\ tip' \in CCoinsMap /\ SoundOver(tip', db') /\ TipCoins' = TipCoins
  BY <1>1, LayerFacts, EmptyFacts DEF TipCoins
<1>3. SoundOver(view', TipCoins') /\ ViewCoins' = ViewCoins
  BY <1>2, LayerFacts DEF ViewCoins
<1>4. IInv'
  BY <1>1, <1>2, <1>3, LayerFacts DEF IInv, TypeOK, FlagsSound, NoLogicError
<1>5. Utxo!Sync
  BY <1>1, <1>2, <1>3 DEF Utxo!Sync, TipBestBlock
<1> QED
  BY <1>4, <1>5

(* Uncache is invisible: it drops no coin that only the cache knows.       *)
LEMMA UncacheTipStep ==
    ASSUME IInv, NEW o \in Outpoint, UncacheTip(o)
    PROVE  IInv' /\ Invisible
<1> USE DEF UncacheTip, dbVars, viewVars
<1>1. tip' \in CCoinsMap /\ SoundOver(tip', db') /\ TipCoins' = TipCoins
  BY LayerFacts, UncacheFacts DEF TipCoins
<1>2. SoundOver(view', TipCoins') /\ ViewCoins' = ViewCoins
  BY <1>1, LayerFacts DEF ViewCoins
<1>3. IInv'
  BY <1>1, <1>2 DEF IInv, TypeOK, FlagsSound, NoLogicError
<1>4. Invisible
  BY <1>1, <1>2 DEF Invisible, TipBestBlock
<1> QED
  BY <1>3, <1>4

-----------------------------------------------------------------------------
(* The initial states satisfy the invariant and are initial states of      *)
(* UtxoSet.                                                                *)
LEMMA InitFacts ==
    ASSUME Init
    PROVE  IInv /\ Utxo!Init
<1>1. db \in Contents
  BY CoinsViewAssumption DEF Init, Contents
<1>2. /\ tip \in CCoinsMap /\ SoundOver(tip, db) /\ TipCoins = db
  BY <1>1, EmptyFacts DEF Init, TipCoins
<1>3. /\ view \in CCoinsMap /\ SoundOver(view, TipCoins) /\ ViewCoins = db
  BY <1>1, <1>2, EmptyFacts DEF Init, ViewCoins
<1>4. IInv
  BY <1>1, <1>2, <1>3, Zenon DEF Init, IInv, TypeOK, FlagsSound, NoLogicError
<1>5. Utxo!Init
  BY <1>1, <1>2, <1>3 DEF Init, Utxo!Init, Utxo!State, Contents, TipBestBlock
<1> QED
  BY <1>4, <1>5

(* Every step preserves the invariant and is a step or a stutter of        *)
(* UtxoSet.                                                                *)
LEMMA StepFacts ==
    ASSUME IInv, [Next]_vars
    PROVE  IInv' /\ [Utxo!Next]_(Utxo!vars)
<1>1. ASSUME Invisible PROVE UNCHANGED Utxo!vars
  BY <1>1 DEF Invisible, Utxo!vars
<1>2. CASE OpenView
  BY <1>2, OpenViewStep DEF Utxo!Next
<1>3. ASSUME NEW o \in Outpoint, ReadTip(o) \/ ReadView(o) \/ UncacheTip(o)
      PROVE  IInv' /\ [Utxo!Next]_(Utxo!vars)
  BY <1>1, <1>3, ReadTipStep, ReadViewStep, UncacheTipStep
<1>4. ASSUME NEW o \in Outpoint, NEW c \in Coin, NEW overwrite \in BOOLEAN,
             AddViewCoin(o, c, overwrite)
      PROVE  IInv' /\ [Utxo!Next]_(Utxo!vars)
  BY <1>4, AddViewCoinStep DEF Utxo!Next
<1>5. ASSUME NEW o \in Outpoint, SpendViewCoin(o)
      PROVE  IInv' /\ [Utxo!Next]_(Utxo!vars)
  BY <1>5, SpendViewCoinStep DEF Utxo!Next
<1>6. ASSUME NEW b \in Block, SetBestBlock(b)
      PROVE  IInv' /\ [Utxo!Next]_(Utxo!vars)
  BY <1>6, SetBestBlockStep DEF Utxo!Next
<1>7. CASE FlushView
  BY <1>7, FlushViewStep DEF Utxo!Next
<1>8. CASE DropView
  BY <1>8, DropViewStep DEF Utxo!Next
<1>9. CASE FlushTip
  BY <1>9, FlushTipStep DEF Utxo!Next
<1>10. CASE UNCHANGED vars
  <2> USE <1>10 DEF vars, dbVars, tipVars, viewVars
  <2>1. TipCoins' = TipCoins /\ ViewCoins' = ViewCoins
        /\ TipBestBlock' = TipBestBlock
    BY DEF TipCoins, ViewCoins, TipBestBlock
  <2>2. IInv'
    BY <2>1, LayerFacts DEF IInv, TypeOK, FlagsSound, NoLogicError
  <2>3. Invisible
    BY <2>1 DEF Invisible
  <2> QED
    BY <2>2, <2>3, <1>1
<1> QED
  BY <1>2, <1>3, <1>4, <1>5, <1>6, <1>7, <1>8, <1>9, <1>10 DEF Next

(* The invariant holds throughout, for any number of outpoints, coins and  *)
(* blocks and any sequence of calls that keeps the possible_overwrite rule.*)
THEOREM InvariantHolds == Spec => []IInv
<1>1. Init => IInv
  BY InitFacts
<1>2. IInv /\ [Next]_vars => IInv'
  BY StepFacts
<1> QED
  BY <1>1, <1>2, PTL DEF Spec

(* The views stay well-formed.                                             *)
THEOREM TypeCorrect == Spec => []TypeOK
BY InvariantHolds, PTL DEF IInv

(* DIRTY and FRESH always mean what coins.h says: a flag is never stale,   *)
(* so a write that is skipped was not needed and an entry that is dropped  *)
(* was not known to the parent.                                            *)
THEOREM FlagsAlwaysSound == Spec => []FlagsSound
BY InvariantHolds, PTL DEF IInv

(* The logic_error of AddCoin and that of BatchWrite are never thrown.     *)
THEOREM NeverThrows == Spec => []NoLogicError
BY InvariantHolds, PTL DEF IInv

(* The cached stack of views implements the plain UTXO sets: fetching,     *)
(* merging, evicting and dropping entries is not observable.               *)
THEOREM CachesImplementUtxoSet == Spec => ImplementsUtxoSet
<1>1. Init => Utxo!Init
  BY InitFacts
<1>2. IInv /\ [Next]_vars => [Utxo!Next]_(Utxo!vars)
  BY StepFacts
<1> QED
  BY <1>1, <1>2, InvariantHolds, PTL DEF Spec, Utxo!Spec, ImplementsUtxoSet

-----------------------------------------------------------------------------
(***************************************************************************)
(* Sums over a finite set.                                                 *)
(***************************************************************************)
First(s) == CHOOSE x \in s : TRUE

(* f gives the sum of g over each subset of S, in the order of First.      *)
SumsOf(f, S, g) ==
    /\ f \in [SUBSET S -> Int]
    /\ \A s \in SUBSET S :
          f[s] = IF s = {} THEN 0 ELSE g[First(s)] + f[s \ {First(s)}]

(* A subset of a finite set is finite, and smaller without one of its      *)
(* members.                                                                *)
LEMMA SubsetFacts ==
    ASSUME NEW S, IsFiniteSet(S), NEW s \in SUBSET S
    PROVE  /\ Cardinality(s) \in Nat
           /\ s # {} => First(s) \in s
           /\ \A x \in s : s \ {x} \in SUBSET S
                           /\ Cardinality(s \ {x}) = Cardinality(s) - 1
<1>1. IsFiniteSet(s)
  BY FS_Subset
<1>2. Cardinality(s) \in Nat
  BY <1>1, FS_CardinalityType
<1>3. \A x \in s : Cardinality(s \ {x}) = Cardinality(s) - 1
  BY <1>1, FS_RemoveElement
<1> QED
  BY <1>2, <1>3 DEF First

(* The sums exist.                                                         *)
LEMMA SumsExist ==
    ASSUME NEW S, IsFiniteSet(S), NEW g \in [S -> Int]
    PROVE  \E f : SumsOf(f, S, g)
<1> DEFINE D == SUBSET S
           R == {{}}
           rank == [s \in D |-> Cardinality(s)]
           prev == [s \in D |-> s \ {First(s)}]
           base == [s \in D |-> 0]
           F == [s \in D |-> [t \in Int |-> g[First(s)] + t]]
<1>1. RecursionOn(D, rank, R, prev, Int, base, F)
  <2>1. rank \in [D -> Nat]
    BY SubsetFacts
  <2>2. ASSUME NEW d \in D \ R
        PROVE  prev[d] \in D /\ rank[prev[d]] < rank[d]
    <3>1. First(d) \in d /\ Cardinality(d) \in Nat
      BY SubsetFacts
    <3>2. d \ {First(d)} \in D /\ Cardinality(d \ {First(d)}) = Cardinality(d) - 1
      BY <3>1, SubsetFacts
    <3> QED
      BY <3>1, <3>2
  <2>3. ASSUME NEW d \in D \ R, NEW t \in Int PROVE F[d][t] \in Int
    <3>1. First(d) \in S
      BY SubsetFacts
    <3> QED
      BY <3>1
  <2>4. ASSUME NEW d \in D \cap R PROVE base[d] \in Int
    OBVIOUS
  <2> HIDE DEF D, R, rank, prev, base, F
  <2> QED
    BY <2>1, <2>2, <2>3, <2>4 DEF RecursionOn
<1>2. PICK f : RecursiveOn(f, D, R, prev, Int, base, F)
  <2> HIDE DEF D, R, rank, prev, base, F
  <2> QED
    BY <1>1, RankedRecursion
<1>3. SumsOf(f, S, g)
  <2>1. f \in [D -> Int]
    BY <1>2 DEF RecursiveOn
  <2>2. ASSUME NEW s \in D
        PROVE  f[s] = IF s = {} THEN 0 ELSE g[First(s)] + f[s \ {First(s)}]
    <3>1. f[s] = IF s \in R THEN base[s] ELSE F[s][f[prev[s]]]
      BY <1>2, Zenon DEF RecursiveOn
    <3>2. prev[s] \in D /\ f[prev[s]] \in Int
      BY <2>1
    <3> QED
      BY <3>1, <3>2
  <2> QED
    BY <2>1, <2>2, Zenon DEF SumsOf
<1> QED
  BY <1>3

(* Induction over the subsets of a finite set.                             *)
LEMMA SubsetInduct ==
    ASSUME NEW S, IsFiniteSet(S), NEW P,
           \A s \in SUBSET S : (\A x \in s : s \ {x} \in P) => s \in P
    PROVE  SUBSET S \subseteq P
<1> DEFINE D == SUBSET S
           rank == [s \in D |-> Cardinality(s)]
<1>1. rank \in [D -> Nat]
  BY SubsetFacts
<1>2. ASSUME NEW d \in D, \A e \in D : rank[e] < rank[d] => e \in P
      PROVE  d \in P
  <2>1. ASSUME NEW x \in d PROVE d \ {x} \in P
    <3>1. /\ d \ {x} \in D /\ Cardinality(d) \in Nat
          /\ Cardinality(d \ {x}) = Cardinality(d) - 1
      BY SubsetFacts
    <3>2. rank[d \ {x}] < rank[d]
      BY <3>1
    <3> HIDE DEF rank
    <3> QED
      BY <1>2, <3>1, <3>2
  <2> QED
    BY <2>1
<1> HIDE DEF D, rank
<1>3. D \subseteq P
  BY <1>1, <1>2, RankedInduct
<1> QED
  BY <1>3 DEF D

(* A sum can begin with any member.                                        *)
LEMMA SumsAny ==
    ASSUME NEW S, IsFiniteSet(S), NEW g \in [S -> Int], NEW f, SumsOf(f, S, g)
    PROVE  \A s \in SUBSET S, x \in S : x \in s => f[s] = g[x] + f[s \ {x}]
<1> DEFINE J(s) == \A x \in s : f[s] = g[x] + f[s \ {x}]
           P == {s \in SUBSET S : J(s)}
<1>1. ASSUME NEW s \in SUBSET S, \A x \in s : s \ {x} \in P PROVE s \in P
  <2> SUFFICES ASSUME NEW x \in s PROVE f[s] = g[x] + f[s \ {x}]
    BY Zenon
  <2> DEFINE y == First(s)
  <2>1. y \in s /\ f[s] = g[y] + f[s \ {y}]
    BY SubsetFacts DEF SumsOf
  <2> HIDE DEF y
  <2>2. CASE x = y
    BY <2>1, <2>2
  <2>3. CASE x # y
    <3> DEFINE rest == (s \ {x}) \ {y}
    <3>1. (s \ {y}) \ {x} = rest /\ rest \in SUBSET S
      OBVIOUS
    <3>2. f[s \ {y}] = g[x] + f[rest]
      <4>1. J(s \ {y}) /\ x \in s \ {y}
        BY <1>1, <2>1, <2>3, Zenon
      <4> QED
        BY <4>1, <3>1, Zenon
    <3>3. f[s \ {x}] = g[y] + f[rest]
      <4>1. J(s \ {x}) /\ y \in s \ {x}
        BY <1>1, <2>1, <2>3, Zenon
      <4> QED
        BY <4>1, Zenon
    <3>4. g[x] \in Int /\ g[y] \in Int /\ f[rest] \in Int
      BY <2>1, <3>1 DEF SumsOf
    <3> HIDE DEF rest
    <3> QED
      BY <2>1, <3>2, <3>3, <3>4
  <2> QED
    BY <2>2, <2>3
<1>2. SUBSET S \subseteq P
  <2> HIDE DEF P
  <2> QED
    BY <1>1, SubsetInduct, Zenon
<1> QED
  BY <1>2, Zenon

(* Sums add up.                                                            *)
LEMMA SumsAdd ==
    ASSUME NEW S, IsFiniteSet(S),
           NEW g \in [S -> Int], NEW d \in [S -> Int], NEW e \in [S -> Int],
           NEW f, NEW h, NEW k, SumsOf(f, S, g), SumsOf(h, S, d), SumsOf(k, S, e),
           \A x \in S : e[x] = g[x] + d[x]
    PROVE  k[S] = f[S] + h[S]
<1> DEFINE J(s) == k[s] = f[s] + h[s]
           P == {s \in SUBSET S : J(s)}
<1>1. ASSUME NEW s \in SUBSET S, \A x \in s : s \ {x} \in P PROVE s \in P
  <2>1. CASE s = {}
    <3>1. k[s] = 0 /\ f[s] = 0 /\ h[s] = 0
      BY <2>1, Zenon DEF SumsOf
    <3> QED
      BY <3>1
  <2>2. CASE s # {}
    <3> DEFINE y == First(s)
               rest == s \ {y}
    <3>1. y \in s
      BY <2>2, SubsetFacts
    <3>2. /\ f[s] = g[y] + f[rest] /\ h[s] = d[y] + h[rest]
          /\ k[s] = e[y] + k[rest]
      BY <2>2 DEF SumsOf
    <3> HIDE DEF y
    <3>3. J(rest) /\ rest \in SUBSET S
      BY <1>1, <3>1
    <3>4. /\ g[y] \in Int /\ d[y] \in Int /\ e[y] = g[y] + d[y]
          /\ f[rest] \in Int /\ h[rest] \in Int
      BY <3>1, <3>3 DEF SumsOf
    <3> HIDE DEF rest
    <3> QED
      BY <3>2, <3>3, <3>4
  <2> QED
    BY <2>1, <2>2
<1>2. SUBSET S \subseteq P
  <2> HIDE DEF P
  <2> QED
    BY <1>1, SubsetInduct, Zenon
<1> QED
  BY <1>2

(* A sum that is zero but for one member.                                  *)
LEMMA SumsOne ==
    ASSUME NEW S, IsFiniteSet(S), NEW d \in [S -> Int], NEW h, SumsOf(h, S, d),
           NEW o \in S, \A x \in S \ {o} : d[x] = 0
    PROVE  h[S] = d[o]
<1> DEFINE P == {s \in SUBSET S : o \notin s => h[s] = 0}
<1>1. ASSUME NEW s \in SUBSET S, \A x \in s : s \ {x} \in P PROVE s \in P
  <2> SUFFICES ASSUME o \notin s PROVE h[s] = 0
    OBVIOUS
  <2>1. CASE s = {}
    BY <2>1, Zenon DEF SumsOf
  <2>2. CASE s # {}
    <3>1. First(s) \in s
      BY <2>2, SubsetFacts
    <3>2. h[s] = d[First(s)] + h[s \ {First(s)}]
      BY <2>2 DEF SumsOf
    <3>3. d[First(s)] = 0 /\ h[s \ {First(s)}] = 0
      BY <1>1, <3>1
    <3> QED
      BY <3>2, <3>3
  <2> QED
    BY <2>1, <2>2
<1>2. SUBSET S \subseteq P
  <2> HIDE DEF P
  <2> QED
    BY <1>1, SubsetInduct, Zenon
<1>3. h[S \ {o}] = 0
  BY <1>2
<1>4. h[S] = d[o] + h[S \ {o}]
  BY SumsAny
<1> QED
  BY <1>3, <1>4

(* Whatever obeys the recursion gives the sums.                            *)
LEMMA SumsTyped ==
    ASSUME NEW S, IsFiniteSet(S), NEW g \in [S -> Int], NEW f,
           f = [s \in SUBSET S |->
                   IF s = {} THEN 0 ELSE g[First(s)] + f[s \ {First(s)}]]
    PROVE  SumsOf(f, S, g)
<1> DEFINE P == {s \in SUBSET S : f[s] \in Int}
<1>0. \A s \in SUBSET S :
        f[s] = IF s = {} THEN 0 ELSE g[First(s)] + f[s \ {First(s)}]
  BY Zenon
<1>1. ASSUME NEW s \in SUBSET S, \A x \in s : s \ {x} \in P PROVE s \in P
  <2>1. CASE s = {}
    BY <1>0, <2>1
  <2>2. CASE s # {}
    <3>1. First(s) \in s
      BY <2>2, SubsetFacts
    <3>2. f[s] = g[First(s)] + f[s \ {First(s)}]
      BY <1>0, <2>2, Zenon
    <3>3. g[First(s)] \in Int /\ f[s \ {First(s)}] \in Int
      BY <1>1, <3>1, Zenon
    <3>4. f[s] \in Int
      BY <3>2, <3>3
    <3> QED
      BY <3>4
  <2> QED
    BY <2>1, <2>2
<1>2. SUBSET S \subseteq P
  <2> HIDE DEF P
  <2> QED
    BY <1>1, SubsetInduct, Zenon
<1>3. f \in [SUBSET S -> Int]
  BY <1>2, Zenon
<1> QED
  BY <1>0, <1>3, Zenon DEF SumsOf

-----------------------------------------------------------------------------
(***************************************************************************)
(* The usage counters.                                                     *)
(***************************************************************************)
UsageOf(cache) == MapThenSumSet(LAMBDA o : EntryUsage(cache[o]), Outpoint)

Usages(cache) == [o \in Outpoint |-> EntryUsage(cache[o])]

(* The usage of an entry is a number.                                      *)
LEMMA UsageType ==
    /\ \A c \in Coin \cup {Spent} : CoinUsage(c) \in Int
    /\ \A e \in Entry \cup {NoEntry} : EntryUsage(e) \in Int
    /\ \A cache \in CCoinsMap : Usages(cache) \in [Outpoint -> Int]
<1>1. \A c \in Coin \cup {Spent} : CoinUsage(c) \in Int
  BY CoinsViewAssumption DEF CoinUsage
<1>2. \A e \in Entry \cup {NoEntry} : EntryUsage(e) \in Int
  BY <1>1, CoinsViewAssumption DEF EntryUsage, Entry
<1>3. \A cache \in CCoinsMap : Usages(cache) \in [Outpoint -> Int]
  BY <1>2 DEF Usages, CCoinsMap
<1> QED
  BY <1>1, <1>2, <1>3

(* UsageOf is the sum of Usages.                                           *)
LEMMA UsageSums ==
    ASSUME NEW cache \in CCoinsMap
    PROVE  \E f : SumsOf(f, Outpoint, Usages(cache)) /\ UsageOf(cache) = f[Outpoint]
<1> DEFINE body(f) == [s \in SUBSET Outpoint |->
                          IF s = {} THEN 0
                          ELSE EntryUsage(cache[First(s)]) + f[s \ {First(s)}]]
           iter == CHOOSE f : f = body(f)
<1>1. PICK f : SumsOf(f, Outpoint, Usages(cache))
  BY UsageType, FiniteOutpoints, SumsExist
<1>2. \A s \in SUBSET Outpoint : s # {} =>
        Usages(cache)[First(s)] = EntryUsage(cache[First(s)])
  BY FiniteOutpoints, SubsetFacts DEF Usages
<1>3. f = body(f)
  BY <1>1, <1>2 DEF SumsOf
<1>4. iter = body(iter)
  BY <1>3, Zenon
<1>5. UsageOf(cache) = iter[Outpoint]
  BY DEF UsageOf, MapThenSumSet, MapThenFoldSet, First
<1> HIDE DEF iter
<1>6. iter = [s \in SUBSET Outpoint |->
                 IF s = {} THEN 0
                 ELSE Usages(cache)[First(s)] + iter[s \ {First(s)}]]
  BY <1>2, <1>4, Zenon
<1>7. SumsOf(iter, Outpoint, Usages(cache))
  BY <1>6, UsageType, FiniteOutpoints, SumsTyped, Zenon
<1> QED
  BY <1>5, <1>7

(* MergeUsage is a sum, too.                                               *)
LEMMA MergeSums ==
    ASSUME NEW us \in CCoinsMap, NEW them \in CCoinsMap,
           NEW d, d = [o \in Outpoint |-> MergeEntryUsage(us[o], them[o])]
    PROVE  /\ d \in [Outpoint -> Int]
           /\ \E f : SumsOf(f, Outpoint, d) /\ MergeUsage(us, them) = f[Outpoint]
<1> DEFINE body(f) == [s \in SUBSET Outpoint |->
                          IF s = {} THEN 0
                          ELSE MergeEntryUsage(us[First(s)], them[First(s)])
                               + f[s \ {First(s)}]]
           iter == CHOOSE f : f = body(f)
<1>0. d \in [Outpoint -> Int]
  <2> SUFFICES ASSUME NEW o \in Outpoint
               PROVE  MergeEntryUsage(us[o], them[o]) \in Int
    OBVIOUS
  <2>1. us[o] \in Entry \cup {NoEntry} /\ them[o] \in Entry \cup {NoEntry}
    BY DEF CCoinsMap
  <2>2. /\ us[o] # NoEntry => CoinUsage(us[o].coin) \in Int
        /\ them[o] # NoEntry => CoinUsage(them[o].coin) \in Int
    BY <2>1, UsageType DEF Entry
  <2> QED
    BY <2>1, <2>2 DEF MergeEntryUsage
<1>1. PICK f : SumsOf(f, Outpoint, d)
  BY <1>0, FiniteOutpoints, SumsExist
<1>2. \A s \in SUBSET Outpoint : s # {} =>
        d[First(s)] = MergeEntryUsage(us[First(s)], them[First(s)])
  BY FiniteOutpoints, SubsetFacts
<1>3. f = body(f)
  BY <1>1, <1>2, Zenon DEF SumsOf
<1>4. iter = body(iter)
  BY <1>3, Zenon
<1>5. MergeUsage(us, them) = iter[Outpoint]
  BY DEF MergeUsage, MapThenSumSet, MapThenFoldSet, First
<1> HIDE DEF iter
<1>6. iter = [s \in SUBSET Outpoint |->
                 IF s = {} THEN 0 ELSE d[First(s)] + iter[s \ {First(s)}]]
  BY <1>2, <1>4, Zenon
<1>7. SumsOf(iter, Outpoint, d)
  BY <1>0, <1>6, FiniteOutpoints, SumsTyped, Zenon
<1> QED
  BY <1>0, <1>5, <1>7

(* An empty cache uses nothing.                                            *)
LEMMA UsageEmpty == UsageOf(EmptyCache) = 0
<1>1. EmptyCache \in CCoinsMap
  BY DEF EmptyCache, CCoinsMap
<1>2. PICK f : SumsOf(f, Outpoint, Usages(EmptyCache))
               /\ UsageOf(EmptyCache) = f[Outpoint]
  BY <1>1, UsageSums
<1>3. \A o \in Outpoint : Usages(EmptyCache)[o] = 0
  BY DEF Usages, EmptyCache, EntryUsage
<1>4. f[Outpoint] = f[Outpoint] + f[Outpoint]
  <2> DEFINE g == Usages(EmptyCache)
  <2>1. g \in [Outpoint -> Int] /\ \A o \in Outpoint : g[o] = g[o] + g[o]
    BY <1>1, <1>3, UsageType
  <2> HIDE DEF g
  <2>2. SumsOf(f, Outpoint, g)
    BY <1>2 DEF g
  <2> QED
    BY <2>1, <2>2, FiniteOutpoints, SumsAdd
<1>5. f[Outpoint] \in Int
  BY <1>2 DEF SumsOf
<1>6. \A n \in Int : n = n + n => n = 0
  OBVIOUS
<1> QED
  BY <1>2, <1>4, <1>5, <1>6, Zenon

(* Changing one entry changes the usage by the difference of the two.      *)
LEMMA UsageChange ==
    ASSUME NEW cache \in CCoinsMap, NEW new \in CCoinsMap, NEW o \in Outpoint,
           \A p \in Outpoint \ {o} : new[p] = cache[p]
    PROVE  UsageOf(new) = UsageOf(cache) + EntryUsage(new[o]) - EntryUsage(cache[o])
<1> DEFINE g == Usages(cache)
           e == Usages(new)
           d == [p \in Outpoint |-> e[p] - g[p]]
<1>1. g \in [Outpoint -> Int] /\ e \in [Outpoint -> Int] /\ d \in [Outpoint -> Int]
  BY UsageType
<1>2. /\ \A p \in Outpoint \ {o} : d[p] = 0
      /\ d[o] = EntryUsage(new[o]) - EntryUsage(cache[o])
  <2>1. \A p \in Outpoint \ {o} : e[p] = g[p]
    BY DEF Usages
  <2>2. \A p \in Outpoint \ {o} : d[p] = 0
    BY <1>1, <2>1
  <2> QED
    BY <2>2 DEF Usages
<1>3. \A p \in Outpoint : e[p] = g[p] + d[p]
  BY <1>1
<1>4. PICK f : SumsOf(f, Outpoint, g) /\ UsageOf(cache) = f[Outpoint]
  BY UsageSums
<1>5. PICK k : SumsOf(k, Outpoint, e) /\ UsageOf(new) = k[Outpoint]
  BY UsageSums
<1> HIDE DEF g, e, d
<1>6. PICK h : SumsOf(h, Outpoint, d)
  BY <1>1, FiniteOutpoints, SumsExist
<1>7. k[Outpoint] = f[Outpoint] + h[Outpoint]
  BY <1>1, <1>3, <1>4, <1>5, <1>6, FiniteOutpoints, SumsAdd
<1>8. h[Outpoint] = d[o]
  BY <1>1, <1>2, <1>6, FiniteOutpoints, SumsOne
<1>9. f[Outpoint] \in Int /\ EntryUsage(new[o]) \in Int /\ EntryUsage(cache[o]) \in Int
  BY <1>4, UsageType DEF SumsOf, CCoinsMap
<1> QED
  BY <1>2, <1>4, <1>5, <1>7, <1>8, <1>9

(* A merge changes the usage by MergeUsage.                                *)
LEMMA UsageMerge ==
    ASSUME NEW us \in CCoinsMap, NEW them \in CCoinsMap,
           BatchWrite(us, them) \in CCoinsMap
    PROVE  UsageOf(BatchWrite(us, them)) = UsageOf(us) + MergeUsage(us, them)
<1> DEFINE new == BatchWrite(us, them)
           g == Usages(us)
           e == Usages(new)
           d == [o \in Outpoint |-> MergeEntryUsage(us[o], them[o])]
<1>1. g \in [Outpoint -> Int] /\ e \in [Outpoint -> Int]
  BY UsageType
<1>2. ASSUME NEW o \in Outpoint PROVE e[o] = g[o] + d[o]
  <2>1. us[o] \in Entry \cup {NoEntry} /\ them[o] \in Entry \cup {NoEntry}
    BY DEF CCoinsMap
  <2>2. /\ us[o] # NoEntry => CoinUsage(us[o].coin) \in Int
        /\ them[o] # NoEntry => CoinUsage(them[o].coin) \in Int
    BY <2>1, UsageType DEF Entry
  <2>3. EntryUsage(MergeEntry(us[o], them[o]))
          = EntryUsage(us[o]) + MergeEntryUsage(us[o], them[o])
    <3> DEFINE a == us[o]
               b == them[o]
    <3> HIDE DEF a, b
    <3>1. EntryUsage(MergeEntry(a, b)) = EntryUsage(a) + MergeEntryUsage(a, b)
      <4>1. /\ a \in Entry \cup {NoEntry} /\ b \in Entry \cup {NoEntry}
            /\ a # NoEntry => CoinUsage(a.coin) \in Int
            /\ b # NoEntry => CoinUsage(b.coin) \in Int
        BY <2>1, <2>2 DEF a, b
      <4>2. ASSUME NEW c, NEW fl \in SUBSET {"DIRTY", "FRESH"}, c \in Coin \cup {Spent}
            PROVE  [coin |-> c, flags |-> fl] # NoEntry
        <5>1. [coin |-> c, flags |-> fl] \in Entry
          BY <4>2 DEF Entry
        <5> QED
          BY <5>1, CoinsViewAssumption, Zenon
      <4>3. CoinUsage(Spent) = 0
        BY DEF CoinUsage
      <4> QED
        BY <4>1, <4>2, <4>3 DEF EntryUsage, MergeEntry, MergeEntryUsage, IsDirty,
                                IsFresh, Entry
    <3> QED
      BY <3>1 DEF a, b
  <2> QED
    BY <2>3 DEF Usages, BatchWrite
<1>3. PICK f : SumsOf(f, Outpoint, g) /\ UsageOf(us) = f[Outpoint]
  BY UsageSums
<1>4. PICK k : SumsOf(k, Outpoint, e) /\ UsageOf(new) = k[Outpoint]
  BY UsageSums
<1>5. /\ d \in [Outpoint -> Int]
      /\ \E h : SumsOf(h, Outpoint, d) /\ MergeUsage(us, them) = h[Outpoint]
  BY MergeSums, Zenon
<1> HIDE DEF g, e, d, new
<1>6. PICK h : SumsOf(h, Outpoint, d) /\ MergeUsage(us, them) = h[Outpoint]
  BY <1>5
<1>7. k[Outpoint] = f[Outpoint] + h[Outpoint]
  BY <1>1, <1>2, <1>3, <1>4, <1>5, <1>6, FiniteOutpoints, SumsAdd
<1> QED
  BY <1>3, <1>4, <1>6, <1>7 DEF new

(* Each method accounts for what it does to one entry.                     *)
LEMMA MethodUsage ==
    ASSUME NEW cache \in CCoinsMap, NEW base \in Contents, NEW o \in Outpoint
    PROVE  /\ UsageOf(FetchCoin(cache, base, o))
                = UsageOf(cache) + FetchUsage(cache, base, o)
           /\ UsageOf(SpendCoin(cache, o)) = UsageOf(cache) + SpendUsage(cache, o)
           /\ UsageOf(Uncache(cache, o)) = UsageOf(cache) + UncacheUsage(cache, o)
           /\ \A c \in Coin, overwrite \in BOOLEAN :
                UsageOf(AddCoin(cache, o, c, overwrite))
                  = UsageOf(cache) + AddUsage(cache, o, c)
<1> DEFINE Put(e) == [cache EXCEPT ![o] = e]
<1>1. UsageOf(cache) \in Int /\ EntryUsage(cache[o]) \in Int
  <2>1. PICK f : SumsOf(f, Outpoint, Usages(cache)) /\ UsageOf(cache) = f[Outpoint]
    BY UsageSums
  <2>2. UsageOf(cache) \in Int
    BY <2>1 DEF SumsOf
  <2> QED
    BY <2>2, UsageType DEF CCoinsMap
<1>2. ASSUME NEW e \in Entry \cup {NoEntry}
      PROVE  UsageOf(Put(e)) = UsageOf(cache) + EntryUsage(e) - EntryUsage(cache[o])
  <2>1. /\ Put(e) \in CCoinsMap /\ Put(e)[o] = e
        /\ \A p \in Outpoint \ {o} : Put(e)[p] = cache[p]
    BY DEF CCoinsMap
  <2> HIDE DEF Put
  <2> QED
    BY <2>1, UsageChange
<1> HIDE DEF Put
<1>3. /\ EntryUsage(NoEntry) = 0 /\ CoinUsage(Spent) = 0
      /\ cache[o] # NoEntry => EntryUsage(cache[o]) = CoinUsage(cache[o].coin)
  BY DEF EntryUsage, CoinUsage
<1>4. ASSUME NEW c \in Coin \cup {Spent}, NEW fl \in SUBSET {"DIRTY", "FRESH"},
             NEW e, e = [coin |-> c, flags |-> fl]
      PROVE  e \in Entry /\ EntryUsage(e) = CoinUsage(c) /\ CoinUsage(c) \in Int
  <2>1. e \in Entry /\ e.coin = c
    BY <1>4 DEF Entry
  <2>2. e # NoEntry
    BY <2>1, CoinsViewAssumption, Zenon
  <2> QED
    BY <2>1, <2>2, UsageType DEF EntryUsage
<1>5. UsageOf(FetchCoin(cache, base, o))
        = UsageOf(cache) + FetchUsage(cache, base, o)
  <2>1. CASE cache[o] # NoEntry \/ base[o] = Spent
    BY <1>1, <2>1 DEF FetchCoin, FetchUsage
  <2>2. CASE ~(cache[o] # NoEntry \/ base[o] = Spent)
    <3> DEFINE e == [coin |-> base[o], flags |-> {}]
    <3>1. base[o] \in Coin \cup {Spent}
      BY DEF Contents
    <3>2. FetchCoin(cache, base, o) = Put(e)
      BY <2>2 DEF FetchCoin, Put
    <3>3. e \in Entry /\ EntryUsage(e) = CoinUsage(base[o]) /\ CoinUsage(base[o]) \in Int
      BY <3>1, <1>4
    <3> HIDE DEF e
    <3>4. FetchUsage(cache, base, o) = CoinUsage(base[o]) /\ cache[o] = NoEntry
      BY <2>2 DEF FetchUsage
    <3> QED
      BY <1>1, <1>2, <1>3, <3>2, <3>3, <3>4
  <2> QED
    BY <2>1, <2>2
<1>6. UsageOf(SpendCoin(cache, o)) = UsageOf(cache) + SpendUsage(cache, o)
  <2>1. CASE cache[o] = NoEntry
    BY <1>1, <1>3, <2>1 DEF SpendCoin, SpendUsage
  <2>2. CASE cache[o] # NoEntry
    <3> DEFINE e == SpentEntry(cache[o])
    <3>1. cache[o] \in Entry
      BY <2>2 DEF CCoinsMap
    <3>2. e \in Entry \cup {NoEntry} /\ EntryUsage(e) = 0
      <4>1. cache[o].flags \cup {"DIRTY"} \in SUBSET {"DIRTY", "FRESH"}
        BY <3>1 DEF Entry
      <4> QED
        BY <4>1, <1>3, <1>4 DEF SpentEntry
    <3>3. SpendCoin(cache, o) = Put(e)
      BY <2>2 DEF SpendCoin, Put
    <3> HIDE DEF e
    <3> QED
      BY <1>1, <1>2, <3>2, <3>3 DEF SpendUsage
  <2> QED
    BY <2>1, <2>2
<1>7. UsageOf(Uncache(cache, o)) = UsageOf(cache) + UncacheUsage(cache, o)
  <2>1. CASE cache[o] = NoEntry \/ cache[o].flags # {}
    BY <1>1, <2>1 DEF Uncache, UncacheUsage
  <2>2. CASE ~(cache[o] = NoEntry \/ cache[o].flags # {})
    <3>1. Uncache(cache, o) = Put(NoEntry)
      BY <2>2 DEF Uncache, Put
    <3>2. UncacheUsage(cache, o) = - EntryUsage(cache[o])
      BY <2>2 DEF UncacheUsage, EntryUsage
    <3> QED
      BY <1>1, <1>2, <1>3, <3>1, <3>2
  <2> QED
    BY <2>1, <2>2
<1>8. ASSUME NEW c \in Coin, NEW overwrite \in BOOLEAN
      PROVE  UsageOf(AddCoin(cache, o, c, overwrite))
               = UsageOf(cache) + AddUsage(cache, o, c)
  <2>1. CASE c \in Unspendable
    BY <1>1, <2>1 DEF AddCoin, AddUsage
  <2>2. CASE c \notin Unspendable
    <3> DEFINE fl == AddedFlags(Emplaced(cache, o), overwrite)
               e == [coin |-> c, flags |-> fl]
    <3>1. fl \in SUBSET {"DIRTY", "FRESH"}
      BY DEF AddedFlags, Emplaced, CCoinsMap, Entry
    <3>2. AddCoin(cache, o, c, overwrite) = Put(e)
      BY <2>2 DEF AddCoin, Put
    <3> HIDE DEF fl
    <3>3. e \in Entry /\ EntryUsage(e) = CoinUsage(c) /\ CoinUsage(c) \in Int
      BY <3>1, <1>4
    <3> HIDE DEF e
    <3> QED
      BY <1>1, <1>2, <2>2, <3>2, <3>3 DEF AddUsage
  <2> QED
    BY <2>1, <2>2
<1> QED
  BY <1>5, <1>6, <1>7, <1>8

(* The counters in terms of UsageOf.                                       *)
Counted == tipUsage = UsageOf(tip) /\ viewUsage = UsageOf(view)

(* A read through the view counts what pcoinsTip fetches.                  *)
LEMMA FetchThroughCounted ==
    ASSUME IInv, Counted, NEW o \in Outpoint, FetchThrough(o)
    PROVE  tipUsage' = UsageOf(tip')
<1>1. UsageOf(tip) \in Int
  BY LayerFacts, UsageSums DEF SumsOf
<1>2. UsageOf(FetchCoin(tip, db, o)) = UsageOf(tip) + FetchUsage(tip, db, o)
  BY LayerFacts, MethodUsage
<1> QED
  BY <1>1, <1>2 DEF FetchThrough, Counted

(* Every step keeps the counters exact.                                    *)
LEMMA CountedNext ==
    ASSUME IInv, Counted, [Next]_vars
    PROVE  Counted'
<1> USE DEF Counted
<1>1. tip \in CCoinsMap /\ view \in CCoinsMap /\ db \in Contents /\ TipCoins \in Contents
  BY LayerFacts
<1>2. CASE OpenView
  BY <1>2, UsageEmpty DEF OpenView
<1>3. ASSUME NEW o \in Outpoint, ReadTip(o) PROVE Counted'
  BY <1>1, <1>3, MethodUsage DEF ReadTip, viewVars
<1>4. ASSUME NEW o \in Outpoint, ReadView(o) PROVE Counted'
  <2>1. UsageOf(FetchCoin(view, TipCoins, o))
          = UsageOf(view) + FetchUsage(view, TipCoins, o)
    BY <1>1, MethodUsage
  <2> QED
    BY <1>4, <2>1, FetchThroughCounted DEF ReadView
<1>5. ASSUME NEW o \in Outpoint, NEW c \in Coin, NEW overwrite \in BOOLEAN,
             AddViewCoin(o, c, overwrite)
      PROVE  Counted'
  <2>1. UsageOf(AddCoin(view, o, c, overwrite)) = UsageOf(view) + AddUsage(view, o, c)
    BY <1>1, MethodUsage
  <2> QED
    BY <1>5, <2>1 DEF AddViewCoin, tipVars, viewVars
<1>6. ASSUME NEW o \in Outpoint, SpendViewCoin(o) PROVE Counted'
  <2> DEFINE fetched == FetchCoin(view, TipCoins, o)
  <2>1. fetched \in CCoinsMap
    BY <1>1, LayerFacts, FetchFacts
  <2>2. UsageOf(fetched) = UsageOf(view) + FetchUsage(view, TipCoins, o)
    BY <1>1, MethodUsage
  <2>3. /\ view' = SpendCoin(fetched, o)
        /\ viewUsage' = viewUsage + FetchUsage(view, TipCoins, o)
                                  + SpendUsage(fetched, o)
    BY <1>6 DEF SpendViewCoin
  <2> HIDE DEF fetched
  <2>4. UsageOf(SpendCoin(fetched, o)) = UsageOf(fetched) + SpendUsage(fetched, o)
    BY <1>1, <2>1, MethodUsage
  <2> QED
    BY <1>6, <2>2, <2>3, <2>4, FetchThroughCounted DEF SpendViewCoin
<1>7. ASSUME NEW o \in Outpoint, UncacheTip(o) PROVE Counted'
  BY <1>1, <1>7, MethodUsage DEF UncacheTip, viewVars
<1>8. ASSUME NEW b \in Block, SetBestBlock(b) PROVE Counted'
  BY <1>8 DEF SetBestBlock, tipVars
<1>9. CASE FlushView
  <2>1. CASE BatchWriteThrows(tip, view)
    BY <1>9, <2>1 DEF FlushView, tipVars, viewVars
  <2>2. CASE ~BatchWriteThrows(tip, view)
    <3>1. BatchWrite(tip, view) \in CCoinsMap
      BY <2>2, LayerFacts, BatchWriteFacts
    <3>2. UsageOf(BatchWrite(tip, view)) = UsageOf(tip) + MergeUsage(tip, view)
      BY <1>1, <3>1, UsageMerge
    <3> QED
      BY <1>9, <2>2, <3>2, UsageEmpty DEF FlushView
  <2> QED
    BY <2>1, <2>2
<1>10. CASE DropView
  BY <1>10, UsageEmpty DEF DropView, tipVars
<1>11. CASE FlushTip
  BY <1>11, UsageEmpty DEF FlushTip, viewVars
<1>12. CASE UNCHANGED vars
  BY <1>12 DEF vars, tipVars, viewVars
<1> QED
  BY <1>2, <1>3, <1>4, <1>5, <1>6, <1>7, <1>8, <1>9, <1>10, <1>11, <1>12 DEF Next

(* cachedCoinsUsage is exactly the usage of the coins in the cache, for    *)
(* both caches and after any sequence of calls: fetches, additions,        *)
(* spends, merges and evictions give back what they took.                  *)
THEOREM UsageAlwaysExact == Spec => []UsageExact
<1>1. Init => Counted
  BY UsageEmpty DEF Init, Counted
<1>2. IInv /\ Counted /\ [Next]_vars => Counted'
  BY CountedNext
<1>3. Counted => UsageExact
  BY DEF Counted, UsageExact, UsageOf
<1> QED
  BY <1>1, <1>2, <1>3, InvariantHolds, PTL DEF Spec
=============================================================================
