-------------------------- MODULE BlockCoinsProofs --------------------------
(***************************************************************************)
(* What connecting, disconnecting and replaying a block does to a cache    *)
(* and what the cache then answers, for any blocks and any cache that is   *)
(* sound over its parent.                                                  *)
(***************************************************************************)
EXTENDS BlockCoins, Recursion

-----------------------------------------------------------------------------
(***************************************************************************)
(* What each method of a single cache does, for any outpoints and coins:   *)
(* it changes what the cache answers in the way its caller expects, and    *)
(* the flags stay sound over the parent.                                   *)
(***************************************************************************)

(* What a cache answers is again a well-formed UTXO set.                   *)
LEMMA AnswersType ==
    ASSUME NEW cache \in CCoinsMap, NEW base \in Contents
    PROVE  Answers(cache, base) \in Contents
BY DEF Answers, CCoinsMap, Contents, Entry

(* An empty cache answers as its parent does, and is sound over it.        *)
LEMMA EmptyFacts ==
    ASSUME NEW base \in Contents
    PROVE  /\ EmptyCache \in CCoinsMap
           /\ Answers(EmptyCache, base) = base
           /\ SoundOver(EmptyCache, base)
BY DEF EmptyCache, CCoinsMap, Answers, Contents, SoundOver, SoundEntry

(* FetchCoin is invisible: it changes neither the answers nor soundness,   *)
(* and finds an entry for every unspent coin.                              *)
LEMMA FetchFacts ==
    ASSUME NEW cache \in CCoinsMap, NEW base \in Contents, NEW o \in Outpoint,
           SoundOver(cache, base)
    PROVE  /\ FetchCoin(cache, base, o) \in CCoinsMap
           /\ Answers(FetchCoin(cache, base, o), base) = Answers(cache, base)
           /\ SoundOver(FetchCoin(cache, base, o), base)
           /\ FetchCoin(cache, base, o)[o] = NoEntry => base[o] = Spent
<1> DEFINE new == FetchCoin(cache, base, o)
<1>1. CASE cache[o] # NoEntry \/ base[o] = Spent
  BY <1>1 DEF FetchCoin
<1>2. CASE cache[o] = NoEntry /\ base[o] # Spent
  <2> DEFINE e == [coin |-> base[o], flags |-> {}]
  <2>1. e \in Entry
    BY DEF Entry, Contents
  <2>2. new = [cache EXCEPT ![o] = e]
    BY <1>2 DEF FetchCoin
  <2>3. new \in CCoinsMap
    BY <2>1, <2>2 DEF CCoinsMap
  <2>4. e # NoEntry
    BY <2>1, CoinsViewAssumption
  <2>5. new[o] = e /\ \A p \in Outpoint \ {o} : new[p] = cache[p]
    BY <2>2 DEF CCoinsMap
  <2>6. Answers(new, base) = Answers(cache, base)
    BY <2>4, <2>5, <1>2 DEF Answers
  <2>7. SoundOver(new, base)
    BY <2>5, <1>2 DEF SoundOver, SoundEntry, IsFresh, IsDirty
  <2> QED
    BY <2>3, <2>4, <2>5, <2>6, <2>7
<1> QED
  BY <1>1, <1>2

(* AddCoin, called by the possible_overwrite rule, does not throw, makes   *)
(* the cache answer the new coin and keeps the flags sound.                *)
LEMMA AddFacts ==
    ASSUME NEW cache \in CCoinsMap, NEW base \in Contents, NEW o \in Outpoint,
           NEW c \in Coin, NEW overwrite \in BOOLEAN,
           SoundOver(cache, base),
           overwrite \/ Answers(cache, base)[o] = Spent
    PROVE  /\ ~AddCoinThrows(cache, o, c, overwrite)
           /\ AddCoin(cache, o, c, overwrite) \in CCoinsMap
           /\ Answers(AddCoin(cache, o, c, overwrite), base)
                = IF c \in Unspendable THEN Answers(cache, base)
                  ELSE [Answers(cache, base) EXCEPT ![o] = c]
           /\ SoundOver(AddCoin(cache, o, c, overwrite), base)
<1> DEFINE new == AddCoin(cache, o, c, overwrite)
           old == Emplaced(cache, o)
           e   == [coin |-> c, flags |-> AddedFlags(old, overwrite)]
<1>1. old \in Entry /\ SoundEntry(cache[o], base[o])
  BY DEF Emplaced, CCoinsMap, Entry, SoundOver
<1>2. ~overwrite => old.coin = Spent
  BY DEF Emplaced, Answers
<1>3. ~AddCoinThrows(cache, o, c, overwrite)
  BY <1>2 DEF AddCoinThrows
<1>4. CASE c \in Unspendable
  BY <1>3, <1>4 DEF AddCoin
<1>5. CASE c \notin Unspendable
  <2>1. e \in Entry /\ e # NoEntry
    BY <1>1, CoinsViewAssumption DEF Entry, AddedFlags
  <2>2. new = [cache EXCEPT ![o] = e]
    BY <1>5 DEF AddCoin
  <2>3. new \in CCoinsMap
    BY <2>1, <2>2 DEF CCoinsMap
  <2>4. new[o] = e /\ \A p \in Outpoint \ {o} : new[p] = cache[p]
    BY <2>2 DEF CCoinsMap
  <2>5. Answers(new, base) = [Answers(cache, base) EXCEPT ![o] = c]
    <3>1. e.coin = c
      OBVIOUS
    <3> HIDE DEF new, e
    <3> QED
      BY <2>1, <2>4, <3>1, Zenon DEF Answers
  <2>6. IsFresh(e) => base[o] = Spent
    <3> SUFFICES ASSUME IsFresh(e) PROVE base[o] = Spent
      OBVIOUS
    <3>1. CASE "FRESH" \in old.flags
      BY <3>1, <1>1 DEF Emplaced, SoundEntry, IsFresh
    <3>2. CASE ~overwrite /\ ~IsDirty(old)
      BY <3>2, <1>1, <1>2 DEF Emplaced, SoundEntry, Answers, IsDirty
    <3> QED
      BY <3>1, <3>2 DEF IsFresh, AddedFlags
  <2>7. IsDirty(e) /\ e.coin # Spent
    BY CoinsViewAssumption DEF IsDirty, AddedFlags
  <2>8. SoundOver(new, base)
    BY <2>4, <2>6, <2>7 DEF SoundOver, SoundEntry
  <2> QED
    BY <1>3, <1>5, <2>3, <2>5, <2>8
<1> QED
  BY <1>4, <1>5

(* SpendCoin, on an outpoint that was fetched, makes the cache answer      *)
(* Spent there and keeps the flags sound.                                  *)
LEMMA SpendFacts ==
    ASSUME NEW cache \in CCoinsMap, NEW base \in Contents, NEW o \in Outpoint,
           SoundOver(cache, base),
           cache[o] = NoEntry => base[o] = Spent
    PROVE  /\ SpendCoin(cache, o) \in CCoinsMap
           /\ Answers(SpendCoin(cache, o), base)
                = [Answers(cache, base) EXCEPT ![o] = Spent]
           /\ SoundOver(SpendCoin(cache, o), base)
<1> DEFINE new == SpendCoin(cache, o)
           e   == SpentEntry(cache[o])
<1>1. CASE cache[o] = NoEntry
  BY <1>1 DEF SpendCoin, Answers
<1>2. CASE cache[o] # NoEntry
  <2>1. cache[o] \in Entry /\ SoundEntry(cache[o], base[o])
    BY <1>2 DEF CCoinsMap, SoundOver
  <2>2. e \in Entry \cup {NoEntry}
    BY <2>1 DEF SpentEntry, Entry
  <2>3. new = [cache EXCEPT ![o] = e]
    BY <1>2 DEF SpendCoin
  <2>4. new \in CCoinsMap
    BY <2>2, <2>3 DEF CCoinsMap
  <2>5. new[o] = e /\ \A p \in Outpoint \ {o} : new[p] = cache[p]
    BY <2>3 DEF CCoinsMap
  <2>6. IF e = NoEntry THEN base[o] = Spent ELSE e.coin = Spent
    <3>1. CASE IsFresh(cache[o])
      BY <1>2, <2>1, <3>1 DEF SpentEntry, SoundEntry
    <3>2. CASE ~IsFresh(cache[o])
      <4>1. e = [coin |-> Spent, flags |-> cache[o].flags \cup {"DIRTY"}]
        BY <3>2 DEF SpentEntry
      <4>2. e \in Entry
        BY <4>1, <2>1 DEF Entry
      <4> QED
        BY <4>1, <4>2, CoinsViewAssumption
    <3> QED
      BY <3>1, <3>2
  <2>7. Answers(new, base) = [Answers(cache, base) EXCEPT ![o] = Spent]
    BY <2>5, <2>6, Zenon DEF Answers
  <2>8. SoundEntry(e, base[o])
    BY <2>1 DEF SpentEntry, SoundEntry, IsFresh, IsDirty, Entry
  <2>9. SoundOver(new, base)
    BY <2>5, <2>8 DEF SoundOver
  <2> QED
    BY <2>4, <2>7, <2>9
<1> QED
  BY <1>1, <1>2

(* One entry of BatchWrite: with "them" sound over the answer of "us", and *)
(* "us" sound over the grandparent's coin c, the merged entry answers what *)
(* the child answered and is sound over c.                                 *)
LEMMA MergeEntryFacts ==
    ASSUME NEW us \in Entry \cup {NoEntry}, NEW them \in Entry \cup {NoEntry},
           NEW c \in Coin \cup {Spent},
           SoundEntry(us, c),
           SoundEntry(them, IF us = NoEntry THEN c ELSE us.coin)
    PROVE  LET m == MergeEntry(us, them)
               parent == IF us = NoEntry THEN c ELSE us.coin
           IN  /\ m \in Entry \cup {NoEntry}
               /\ (IF m = NoEntry THEN c ELSE m.coin)
                    = (IF them = NoEntry THEN parent ELSE them.coin)
               /\ SoundEntry(m, c)
<1> DEFINE m == MergeEntry(us, them)
<1>1. CASE them = NoEntry
  BY <1>1 DEF MergeEntry
<1>2. CASE them # NoEntry /\ ~IsDirty(them)
  BY <1>2 DEF MergeEntry, SoundEntry
<1>3. CASE them # NoEntry /\ IsDirty(them) /\ us = NoEntry
  <2>1. them \in Entry /\ ~(IsFresh(them) /\ them.coin = Spent)
    BY <1>3 DEF SoundEntry
  <2>2. m = [coin |-> them.coin,
             flags |-> {"DIRTY"} \cup (them.flags \cap {"FRESH"})]
    BY <1>3, <2>1 DEF MergeEntry
  <2>3. m \in Entry /\ m # NoEntry
    BY <2>1, <2>2, CoinsViewAssumption DEF Entry
  <2>4. IsDirty(m) /\ (IsFresh(m) <=> IsFresh(them)) /\ m.coin = them.coin
    BY <2>2 DEF IsDirty, IsFresh
  <2> QED
    BY <1>3, <2>3, <2>4 DEF SoundEntry
<1>4. CASE them # NoEntry /\ IsDirty(them) /\ us # NoEntry
           /\ IsFresh(us) /\ them.coin = Spent
  BY <1>4 DEF MergeEntry, SoundEntry
<1>5. CASE them # NoEntry /\ IsDirty(them) /\ us # NoEntry
           /\ ~(IsFresh(us) /\ them.coin = Spent)
  <2>1. us \in Entry /\ them \in Entry
    BY <1>5
  <2>2. m = [coin |-> them.coin, flags |-> us.flags \cup {"DIRTY"}]
    BY <1>5 DEF MergeEntry
  <2>3. m \in Entry /\ m # NoEntry
    BY <2>1, <2>2, CoinsViewAssumption DEF Entry
  <2>4. IsDirty(m) /\ (IsFresh(m) <=> IsFresh(us)) /\ m.coin = them.coin
    BY <2>2 DEF IsDirty, IsFresh
  <2> QED
    BY <1>5, <2>3, <2>4 DEF SoundEntry
<1> QED
  BY <1>1, <1>2, <1>3, <1>4, <1>5

(* BatchWrite of a child that is sound over a cache: no logic_error, the   *)
(* cache then answers what the child answered, and is sound over its own   *)
(* parent.                                                                 *)
LEMMA BatchWriteFacts ==
    ASSUME NEW us \in CCoinsMap, NEW them \in CCoinsMap, NEW base \in Contents,
           SoundOver(us, base), SoundOver(them, Answers(us, base))
    PROVE  /\ ~BatchWriteThrows(us, them)
           /\ BatchWrite(us, them) \in CCoinsMap
           /\ Answers(BatchWrite(us, them), base)
                = Answers(them, Answers(us, base))
           /\ SoundOver(BatchWrite(us, them), base)
<1> DEFINE m(o) == MergeEntry(us[o], them[o])
           parent(o) == IF us[o] = NoEntry THEN base[o] ELSE us[o].coin
<1>1. \A o \in Outpoint : Answers(us, base)[o] = parent(o)
  BY DEF Answers
<1>2. ASSUME NEW o \in Outpoint
      PROVE  /\ us[o] \in Entry \cup {NoEntry}
             /\ them[o] \in Entry \cup {NoEntry}
             /\ base[o] \in Coin \cup {Spent}
             /\ SoundEntry(us[o], base[o])
             /\ SoundEntry(them[o], parent(o))
  BY <1>1 DEF CCoinsMap, Contents, SoundOver
<1>3. ASSUME NEW o \in Outpoint
      PROVE  /\ m(o) \in Entry \cup {NoEntry}
             /\ (IF m(o) = NoEntry THEN base[o] ELSE m(o).coin)
                  = (IF them[o] = NoEntry THEN parent(o) ELSE them[o].coin)
             /\ SoundEntry(m(o), base[o])
  BY <1>2, MergeEntryFacts
<1>4. ~BatchWriteThrows(us, them)
  BY <1>2 DEF BatchWriteThrows, SoundEntry
<1>5. BatchWrite(us, them) = [o \in Outpoint |-> m(o)]
  BY DEF BatchWrite
<1> HIDE DEF m
<1>6. BatchWrite(us, them) \in CCoinsMap
  BY <1>3, <1>5 DEF CCoinsMap
<1>7. Answers(BatchWrite(us, them), base) = Answers(them, Answers(us, base))
  BY <1>1, <1>3, <1>5 DEF Answers
<1>8. SoundOver(BatchWrite(us, them), base)
  BY <1>3, <1>5 DEF SoundOver
<1> QED
  BY <1>4, <1>6, <1>7, <1>8

(* Writing a sound cache to the database leaves in it exactly what the     *)
(* cache answered: an entry that is skipped agreed with the database.      *)
LEMMA DBBatchWriteFacts ==
    ASSUME NEW cache \in CCoinsMap, NEW disk \in Contents,
           SoundOver(cache, disk)
    PROVE  DBBatchWrite(disk, cache) = Answers(cache, disk)
BY DEF DBBatchWrite, WriteKey, Answers, SoundOver, SoundEntry

-----------------------------------------------------------------------------
(***************************************************************************)
(* The blocks.                                                             *)
(***************************************************************************)

(* The caches that are sound over a parent.                                *)
Sound(base) == {view \in CCoinsMap : SoundOver(view, base)}

(* A cache that takes each entry from some sound cache is sound, and each  *)
(* of its answers is that cache's.                                         *)
LEMMA PointwiseFacts ==
    ASSUME NEW base \in Contents, NEW view, NEW c,
           view = [o \in Outpoint |-> view[o]],
           \A o \in Outpoint : \E w \in Sound(base) :
                view[o] = w[o] /\ Answers(w, base)[o] = c[o]
    PROVE  view \in Sound(base) /\ \A o \in Outpoint : Answers(view, base)[o] = c[o]
<1>1. ASSUME NEW o \in Outpoint
      PROVE  /\ view[o] \in Entry \cup {NoEntry}
             /\ SoundEntry(view[o], base[o])
             /\ Answers(view, base)[o] = c[o]
  <2>1. PICK w \in Sound(base) : view[o] = w[o] /\ Answers(w, base)[o] = c[o]
    OBVIOUS
  <2>2. w[o] \in Entry \cup {NoEntry} /\ SoundEntry(w[o], base[o])
    BY DEF Sound, CCoinsMap, SoundOver
  <2>3. Answers(view, base)[o] = Answers(w, base)[o]
    BY <2>1 DEF Answers
  <2> QED
    BY <2>1, <2>2, <2>3
<1>2. view \in CCoinsMap
  BY <1>1, Zenon DEF CCoinsMap
<1>3. SoundOver(view, base)
  BY <1>1, Zenon DEF SoundOver
<1> QED
  BY <1>1, <1>2, <1>3 DEF Sound

(* SpendCoin of an outpoint, with its FetchCoin.                           *)
LEMMA FetchAndSpendFacts ==
    ASSUME NEW base \in Contents, NEW view \in Sound(base), NEW o \in Outpoint
    PROVE  /\ FetchAndSpend(view, base, o) \in Sound(base)
           /\ Answers(FetchAndSpend(view, base, o), base)[o] = Spent
<1> DEFINE f == FetchCoin(view, base, o)
<1>1. view \in CCoinsMap /\ SoundOver(view, base)
  BY DEF Sound
<1>2. f \in CCoinsMap /\ SoundOver(f, base) /\ (f[o] = NoEntry => base[o] = Spent)
  BY <1>1, FetchFacts
<1> HIDE DEF f
<1>3. /\ SpendCoin(f, o) \in CCoinsMap /\ SoundOver(SpendCoin(f, o), base)
      /\ Answers(SpendCoin(f, o), base) = [Answers(f, base) EXCEPT ![o] = Spent]
  BY <1>2, SpendFacts
<1>4. Answers(f, base) \in Contents
  BY <1>2, AnswersType
<1>5. Answers(SpendCoin(f, o), base)[o] = Spent
  BY <1>3, <1>4 DEF Contents
<1> QED
  BY <1>3, <1>5 DEF FetchAndSpend, Sound, f

(* Spending a set of outpoints.                                            *)
LEMMA SpendCoinsFacts ==
    ASSUME NEW base \in Contents, NEW view \in Sound(base), NEW S
    PROVE  /\ SpendCoins(view, base, S) \in Sound(base)
           /\ \A o \in Outpoint :
                Answers(SpendCoins(view, base, S), base)[o]
                  = IF o \in S THEN Spent ELSE Answers(view, base)[o]
<1> DEFINE new == SpendCoins(view, base, S)
           c == [o \in Outpoint |-> IF o \in S THEN Spent
                                    ELSE Answers(view, base)[o]]
<1>1. new = [o \in Outpoint |-> new[o]]
  BY DEF SpendCoins
<1>2. ASSUME NEW o \in Outpoint
      PROVE  \E w \in Sound(base) : new[o] = w[o] /\ Answers(w, base)[o] = c[o]
  <2>1. CASE o \in S
    <3>1. new[o] = FetchAndSpend(view, base, o)[o]
      BY <2>1 DEF SpendCoins
    <3> QED
      BY <2>1, <3>1, FetchAndSpendFacts
  <2>2. CASE o \notin S
    BY <2>2 DEF SpendCoins
  <2> QED
    BY <2>1, <2>2
<1>3. new \in Sound(base) /\ \A o \in Outpoint : Answers(new, base)[o] = c[o]
  <2> HIDE DEF new, c
  <2>1. \A o \in Outpoint :
           \E w \in Sound(base) : new[o] = w[o] /\ Answers(w, base)[o] = c[o]
    BY <1>2
  <2> QED
    BY <1>1, <2>1, PointwiseFacts, SMTT(40)
<1> QED
  BY <1>3

(* FetchCoin keeps a cache sound and is invisible.                         *)
LEMMA FetchOneFacts ==
    ASSUME NEW base \in Contents, NEW view \in Sound(base), NEW o \in Outpoint
    PROVE  /\ FetchCoin(view, base, o) \in Sound(base)
           /\ Answers(FetchCoin(view, base, o), base) = Answers(view, base)
BY FetchFacts DEF Sound

(* AddCoin of a spendable coin by the possible_overwrite rule.             *)
LEMMA AddOneFacts ==
    ASSUME NEW base \in Contents, NEW view \in Sound(base), NEW o \in Outpoint,
           NEW c \in Coin \ Unspendable, NEW overwrite \in BOOLEAN,
           overwrite \/ Answers(view, base)[o] = Spent
    PROVE  /\ AddCoin(view, o, c, overwrite) \in Sound(base)
           /\ Answers(AddCoin(view, o, c, overwrite), base)[o] = c
<1> DEFINE new == AddCoin(view, o, c, overwrite)
<1>1. view \in CCoinsMap /\ SoundOver(view, base)
  BY DEF Sound
<1>2. /\ new \in CCoinsMap /\ SoundOver(new, base)
      /\ Answers(new, base) = [Answers(view, base) EXCEPT ![o] = c]
  BY <1>1, AddFacts
<1>3. Answers(view, base) \in Contents
  BY <1>1, AnswersType
<1> HIDE DEF new
<1>4. Answers(new, base)[o] = c
  BY <1>2, <1>3 DEF Contents
<1> QED
  BY <1>2, <1>4 DEF Sound, new

(* The addition that asks the cache first, of AddCoins with check and of   *)
(* ApplyTxInUndo, needs no assumption on what is there.                    *)
LEMMA AddCheckedFacts ==
    ASSUME NEW base \in Contents, NEW view \in Sound(base), NEW o \in Outpoint,
           NEW c \in Coin \ Unspendable
    PROVE  LET new == AddCoin(FetchCoin(view, base, o), o, c,
                              HaveCoin(view, base, o))
           IN  new \in Sound(base) /\ Answers(new, base)[o] = c
<1> DEFINE f == FetchCoin(view, base, o)
           overwrite == HaveCoin(view, base, o)
<1>1. f \in Sound(base) /\ Answers(f, base) = Answers(view, base)
  BY FetchOneFacts
<1>2. overwrite \in BOOLEAN /\ (overwrite \/ Answers(f, base)[o] = Spent)
  BY <1>1 DEF HaveCoin
<1> HIDE DEF f, overwrite
<1>3. /\ AddCoin(f, o, c, overwrite) \in Sound(base)
      /\ Answers(AddCoin(f, o, c, overwrite), base)[o] = c
  BY <1>1, <1>2, AddOneFacts
<1> QED
  BY <1>3 DEF f, overwrite

(* AddCoins: checked, or where none of the outputs is there.               *)
LEMMA AddCoinsFacts ==
    ASSUME NEW base \in Contents, NEW view \in Sound(base), NEW tx \in Tx,
           NEW h \in Coin \ Unspendable, NEW check \in BOOLEAN,
           check \/ \A o \in tx.vout : Answers(view, base)[o] = Spent
    PROVE  /\ AddCoins(view, base, tx, h, check) \in Sound(base)
           /\ \A o \in Outpoint :
                Answers(AddCoins(view, base, tx, h, check), base)[o]
                  = IF o \in tx.vout THEN h ELSE Answers(view, base)[o]
<1> DEFINE new == AddCoins(view, base, tx, h, check)
           c == [o \in Outpoint |-> IF o \in tx.vout THEN h
                                    ELSE Answers(view, base)[o]]
<1>1. new = [o \in Outpoint |-> new[o]]
  BY DEF AddCoins
<1>2. ASSUME NEW o \in Outpoint
      PROVE  \E w \in Sound(base) : new[o] = w[o] /\ Answers(w, base)[o] = c[o]
  <2>1. CASE o \in tx.vout
    <3> DEFINE w == AddOutput(view, base, o, h, IsCoinBase(tx), check)
    <3>1. new[o] = w[o]
      BY <2>1 DEF AddCoins
    <3>2. w \in Sound(base) /\ Answers(w, base)[o] = h
      <4>1. CASE check
        BY <4>1, AddCheckedFacts DEF AddOutput
      <4>2. CASE ~check
        <5>1. Answers(view, base)[o] = Spent /\ IsCoinBase(tx) \in BOOLEAN
          BY <2>1, <4>2 DEF IsCoinBase
        <5>2. w = AddCoin(view, o, h, IsCoinBase(tx))
          BY <4>2 DEF AddOutput
        <5> QED
          BY <5>1, <5>2, AddOneFacts
      <4> QED
        BY <4>1, <4>2
    <3> HIDE DEF w
    <3> QED
      BY <2>1, <3>1, <3>2
  <2>2. CASE o \notin tx.vout
    BY <2>2 DEF AddCoins
  <2> QED
    BY <2>1, <2>2
<1>3. new \in Sound(base) /\ \A o \in Outpoint : Answers(new, base)[o] = c[o]
  <2> HIDE DEF new, c
  <2> QED
    BY <1>1, <1>2, PointwiseFacts
<1> QED
  BY <1>3

-----------------------------------------------------------------------------
(* What undoing a transaction leaves of a UTXO set.                        *)
UnapplyTx(utxo, tx, undo) ==
    [o \in Outpoint |-> IF o \in tx.vin THEN undo[o]
                        ELSE IF o \in tx.vout THEN Spent ELSE utxo[o]]

(* One transaction rolled forward: the cache answers as if it had been     *)
(* applied, whatever was there before.                                     *)
LEMMA RollforwardTxFacts ==
    ASSUME NEW base \in Contents, NEW view \in Sound(base), NEW tx \in Tx,
           NEW h \in Coin \ Unspendable
    PROVE  /\ RollforwardTx(view, base, tx, h) \in Sound(base)
           /\ Answers(RollforwardTx(view, base, tx, h), base)
                = ApplyTx(Answers(view, base), tx, h)
<1> DEFINE spent == SpendCoins(view, base, tx.vin)
           check == TRUE
           new == AddCoins(spent, base, tx, h, check)
<1>1. /\ spent \in Sound(base)
      /\ \A o \in Outpoint : Answers(spent, base)[o]
            = IF o \in tx.vin THEN Spent ELSE Answers(view, base)[o]
  BY SpendCoinsFacts
<1> HIDE DEF spent
<1>2. /\ check \in BOOLEAN
      /\ check \/ \A o \in tx.vout : Answers(spent, base)[o] = Spent
  OBVIOUS
<1> HIDE DEF check
<1>3. /\ new \in Sound(base)
      /\ \A o \in Outpoint : Answers(new, base)[o]
            = IF o \in tx.vout THEN h ELSE Answers(spent, base)[o]
  BY <1>1, <1>2, AddCoinsFacts
<1> HIDE DEF new
<1>4. Answers(new, base) = ApplyTx(Answers(view, base), tx, h)
  BY <1>1, <1>3 DEF ApplyTx, Answers
<1> QED
  BY <1>3, <1>4, Zenon DEF RollforwardTx, new, spent, check

(* One transaction connected, where none of its outputs is there.          *)
LEMMA UpdateCoinsFacts ==
    ASSUME NEW base \in Contents, NEW view \in Sound(base), NEW tx \in Tx,
           NEW h \in Coin \ Unspendable,
           \A o \in tx.vout : Answers(view, base)[o] = Spent
    PROVE  /\ UpdateCoins(view, base, tx, h) \in Sound(base)
           /\ Answers(UpdateCoins(view, base, tx, h), base)
                = ApplyTx(Answers(view, base), tx, h)
<1> DEFINE spent == SpendCoins(view, base, tx.vin)
           check == FALSE
           new == AddCoins(spent, base, tx, h, check)
<1>1. /\ spent \in Sound(base)
      /\ \A o \in Outpoint : Answers(spent, base)[o]
            = IF o \in tx.vin THEN Spent ELSE Answers(view, base)[o]
  BY SpendCoinsFacts
<1> HIDE DEF spent
<1>2. /\ check \in BOOLEAN
      /\ check \/ \A o \in tx.vout : Answers(spent, base)[o] = Spent
  BY <1>1 DEF Tx
<1> HIDE DEF check
<1>3. /\ new \in Sound(base)
      /\ \A o \in Outpoint : Answers(new, base)[o]
            = IF o \in tx.vout THEN h ELSE Answers(spent, base)[o]
  BY <1>1, <1>2, AddCoinsFacts
<1> HIDE DEF new
<1>4. Answers(new, base) = ApplyTx(Answers(view, base), tx, h)
  BY <1>1, <1>3 DEF ApplyTx, Answers
<1> QED
  BY <1>3, <1>4, Zenon DEF UpdateCoins, new, spent, check

(* One transaction disconnected: the cache answers as if it had been       *)
(* undone, whatever was there before.                                      *)
LEMMA DisconnectTxFacts ==
    ASSUME NEW base \in Contents, NEW view \in Sound(base), NEW tx \in Tx,
           NEW h, NEW undo, \A o \in tx.vin : undo[o] \in Coin \ Unspendable,
           NEW clean
    PROVE  LET d == DisconnectTx([clean |-> clean, view |-> view], base, tx, h,
                                 undo)
           IN  /\ d.view \in Sound(base)
               /\ Answers(d.view, base) = UnapplyTx(Answers(view, base), tx, undo)
<1> DEFINE spent == SpendCoins(view, base, tx.vout)
           new == [o \in Outpoint |-> IF o \in tx.vin
                                      THEN ApplyTxInUndo(spent, base, o, undo)[o]
                                      ELSE spent[o]]
           c == UnapplyTx(Answers(view, base), tx, undo)
<1>1. /\ spent \in Sound(base)
      /\ \A o \in Outpoint : Answers(spent, base)[o]
            = IF o \in tx.vout THEN Spent ELSE Answers(view, base)[o]
  BY SpendCoinsFacts
<1>2. DisconnectTx([clean |-> clean, view |-> view], base, tx, h, undo).view = new
  BY DEF DisconnectTx
<1> HIDE DEF spent
<1>3. new = [o \in Outpoint |-> new[o]]
  OBVIOUS
<1>4. ASSUME NEW o \in Outpoint
      PROVE  \E w \in Sound(base) : new[o] = w[o] /\ Answers(w, base)[o] = c[o]
  <2>1. CASE o \in tx.vin
    <3> DEFINE w == ApplyTxInUndo(spent, base, o, undo)
    <3>1. new[o] = w[o]
      BY <2>1
    <3>2. w \in Sound(base) /\ Answers(w, base)[o] = undo[o]
      BY <1>1, <2>1, AddCheckedFacts DEF ApplyTxInUndo
    <3>3. c[o] = undo[o]
      BY <2>1 DEF UnapplyTx
    <3> HIDE DEF w, new, c
    <3> QED
      BY <3>1, <3>2, <3>3
  <2>2. CASE o \notin tx.vin
    <3>1. new[o] = spent[o]
      BY <2>2
    <3>2. c[o] = Answers(spent, base)[o]
      BY <2>2, <1>1 DEF UnapplyTx
    <3> QED
      BY <1>1, <3>1, <3>2
  <2> QED
    BY <2>1, <2>2
<1>5. new \in Sound(base) /\ \A o \in Outpoint : Answers(new, base)[o] = c[o]
  <2> HIDE DEF new, c
  <2>1. \A o \in Outpoint :
           \E w \in Sound(base) : new[o] = w[o] /\ Answers(w, base)[o] = c[o]
    BY <1>4
  <2> QED
    BY <1>3, <2>1, PointwiseFacts
<1>6. Answers(new, base) = c
  <2> HIDE DEF new
  <2> QED
    BY <1>5 DEF Answers, UnapplyTx
<1> QED
  BY <1>2, <1>5, <1>6

-----------------------------------------------------------------------------
(***************************************************************************)
(* The loops over the transactions of a block.  Each is a function defined *)
(* by recursion, which has to be shown to exist.                           *)
(***************************************************************************)

(* A block has a number of transactions, and a height that is a coin.      *)
LEMMA BlockFacts ==
    ASSUME NEW b \in Block
    PROVE  /\ Len(Vtx[b]) \in Nat
           /\ DOMAIN Vtx[b] = 1 .. Len(Vtx[b])
           /\ \A n \in 1 .. Len(Vtx[b]) : Vtx[b][n] \in Tx
           /\ Height[b] \in Coin \ Unspendable
BY BlockAssumption

(* The UTXO sets proper: no coin in them is unspendable.                   *)
Utxos == [Outpoint -> (Coin \ Unspendable) \cup {Spent}]

(* Applying a transaction to a UTXO set gives a UTXO set.                  *)
LEMMA ApplyTxType ==
    ASSUME NEW utxo \in Utxos, NEW tx \in Tx, NEW h \in Coin \ Unspendable
    PROVE  ApplyTx(utxo, tx, h) \in Utxos
BY DEF ApplyTx, Utxos

(* The UTXO sets between the transactions of a block.                      *)
LEMMA ApplyTxsFacts ==
    ASSUME NEW utxo \in Utxos, NEW b \in Block
    PROVE  /\ ApplyTxs(utxo, b) \in [0 .. Len(Vtx[b]) -> Utxos]
           /\ ApplyTxs(utxo, b)[0] = utxo
           /\ \A n \in 1 .. Len(Vtx[b]) :
                ApplyTxs(utxo, b)[n]
                  = ApplyTx(ApplyTxs(utxo, b)[n - 1], Vtx[b][n], Height[b])
<1> DEFINE N == Len(Vtx[b])
           Step(t, k) == ApplyTx(t, Vtx[b][k], Height[b])
           Body(g) == [n \in 0 .. N |-> IF n = 0 THEN utxo
                                        ELSE Step(g[n - 1], n)]
           F == [k \in 1 .. N |-> [t \in Utxos |-> Step(t, k)]]
           f == ApplyTxs(utxo, b)
<1>1. N \in Nat
  BY BlockFacts
<1>2. ASSUME NEW k \in 1 .. N, NEW t \in Utxos PROVE Step(t, k) \in Utxos
  BY BlockFacts, ApplyTxType
<1>3. f = CHOOSE g : g = Body(g)
  BY DEF ApplyTxs
<1> HIDE DEF N, Step, f
<1>4. F \in [1 .. N -> [Utxos -> Utxos]]
  BY <1>2
<1>5. PICK g : LoopOf(g, N, Utxos, utxo, F)
  <2> HIDE DEF F
  <2> QED
    BY <1>1, <1>4, LoopExists
<1>6. g = Body(g)
  <2>1. g \in [0 .. N -> Utxos] /\ g[0] = utxo
    BY <1>5 DEF LoopOf
  <2>2. ASSUME NEW k \in 1 .. N PROVE g[k] = Step(g[k - 1], k)
    <3>1. g[k] = F[k][g[k - 1]] /\ g[k - 1] \in Utxos
      BY <1>1, <1>5, <2>1 DEF LoopOf
    <3> QED
      BY <3>1
  <2> QED
    BY <1>1, <2>1, <2>2
<1>7. f = Body(f)
  BY <1>3, <1>6, Zenon
<1>8. f[0] = utxo /\ \A n \in 1 .. N : f[n] = Step(f[n - 1], n)
  BY <1>1, <1>7
<1> DEFINE S == {k \in 0 .. N : f[k] \in Utxos}
<1>9. 0 .. N \subseteq S
  <2>1. 0 \in S /\ \A k \in 1 .. N : k - 1 \in S => k \in S
    BY <1>1, <1>2, <1>8
  <2> HIDE DEF S
  <2> QED
    BY <1>1, <2>1, LoopInduct
<1>10. f \in [0 .. N -> Utxos]
  BY <1>7, <1>9
<1> QED
  BY <1>8, <1>10 DEF f, N, Step

(* The methods keep a cache a cache, sound or not.                         *)
LEMMA UpdateCoinsType ==
    ASSUME NEW base \in Contents, NEW view \in CCoinsMap, NEW tx \in Tx,
           NEW h \in Coin
    PROVE  UpdateCoins(view, base, tx, h) \in CCoinsMap
<1>1. ASSUME NEW v \in CCoinsMap, NEW o \in Outpoint
      PROVE  FetchAndSpend(v, base, o) \in CCoinsMap
  <2> DEFINE f == FetchCoin(v, base, o)
  <2>1. f \in CCoinsMap
    BY DEF FetchCoin, CCoinsMap, Entry, Contents
  <2>2. SpentEntry(f[o]) \in Entry \cup {NoEntry} \/ f[o] = NoEntry
    BY <2>1 DEF CCoinsMap, Entry, SpentEntry
  <2> HIDE DEF f
  <2>3. SpendCoin(f, o) \in CCoinsMap
    BY <2>1, <2>2 DEF SpendCoin, CCoinsMap
  <2> QED
    BY <2>3 DEF FetchAndSpend, f
<1>2. ASSUME NEW v \in CCoinsMap, NEW o \in Outpoint, NEW overwrite
      PROVE  AddCoin(v, o, h, overwrite) \in CCoinsMap
  <2> DEFINE e == [coin |-> h, flags |-> AddedFlags(Emplaced(v, o), overwrite)]
  <2>1. e \in Entry
    BY DEF CCoinsMap, Entry, Emplaced, AddedFlags
  <2> QED
    BY <2>1 DEF AddCoin, CCoinsMap
<1> DEFINE spent == SpendCoins(view, base, tx.vin)
<1>3. spent \in CCoinsMap
  <2>1. ASSUME NEW o \in Outpoint
        PROVE  FetchAndSpend(view, base, o)[o] \in Entry \cup {NoEntry}
    BY <1>1 DEF CCoinsMap
  <2> QED
    BY <2>1 DEF SpendCoins, CCoinsMap
<1> HIDE DEF spent
<1>4. ASSUME NEW o \in Outpoint
      PROVE  AddOutput(spent, base, o, h, IsCoinBase(tx), FALSE)[o]
                \in Entry \cup {NoEntry}
  BY <1>2, <1>3 DEF AddOutput, CCoinsMap
<1>5. AddCoins(spent, base, tx, h, FALSE) \in CCoinsMap
  BY <1>3, <1>4, Zenon DEF AddCoins, CCoinsMap
<1> QED
  BY <1>5, Zenon DEF UpdateCoins, spent

(* The state of ConnectBlock between two transactions.                     *)
ConnectState == [ok: BOOLEAN, view: CCoinsMap, undo: Contents]

(* The states ConnectBlock goes through.                                   *)
LEMMA ConnectTxsFacts ==
    ASSUME NEW base \in Contents, NEW view \in CCoinsMap, NEW b \in Block
    PROVE  /\ ConnectTxs(view, base, b) \in [0 .. Len(Vtx[b]) -> ConnectState]
           /\ ConnectTxs(view, base, b)[0]
                = [ok |-> TRUE, view |-> view, undo |-> NoCoins]
           /\ \A n \in 1 .. Len(Vtx[b]) :
                ConnectTxs(view, base, b)[n]
                  = ConnectTx(ConnectTxs(view, base, b)[n - 1], base, Vtx[b][n],
                              Height[b])
<1> DEFINE N == Len(Vtx[b])
           start == [ok |-> TRUE, view |-> view, undo |-> NoCoins]
           Step(t, k) == ConnectTx(t, base, Vtx[b][k], Height[b])
           Body(g) == [n \in 0 .. N |-> IF n = 0 THEN start
                                        ELSE Step(g[n - 1], n)]
           F == [k \in 1 .. N |-> [t \in ConnectState |-> Step(t, k)]]
           f == ConnectTxs(view, base, b)
<1>1. N \in Nat
  BY BlockFacts
<1>2. ASSUME NEW k \in 1 .. N, NEW t \in ConnectState
      PROVE  Step(t, k) \in ConnectState
  <2> DEFINE tx == Vtx[b][k]
             answers == Answers(t.view, base)
             u == [o \in Outpoint |-> IF o \in tx.vin THEN answers[o] ELSE t.undo[o]]
  <2>1. tx \in Tx /\ Height[b] \in Coin
    BY BlockFacts
  <2>2. t.view \in CCoinsMap /\ t.undo \in Contents
    BY DEF ConnectState
  <2>3. answers \in Contents
    BY <2>2, AnswersType
  <2> HIDE DEF tx, answers
  <2>4. u \in Contents
    BY <2>2, <2>3 DEF Contents
  <2>5. UpdateCoins(t.view, base, tx, Height[b]) \in CCoinsMap
    BY <2>1, <2>2, UpdateCoinsType
  <2>6. \/ Step(t, k) = [ok |-> FALSE, view |-> t.view, undo |-> t.undo]
        \/ Step(t, k) = [ok |-> TRUE, undo |-> u,
                         view |-> UpdateCoins(t.view, base, tx, Height[b])]
    BY DEF ConnectTx, tx, answers
  <2> HIDE DEF u, Step
  <2>7. [ok |-> FALSE, view |-> t.view, undo |-> t.undo] \in ConnectState
    BY <2>2 DEF ConnectState
  <2>8. [ok |-> TRUE, undo |-> u, view |-> UpdateCoins(t.view, base, tx, Height[b])]
            \in ConnectState
    BY <2>4, <2>5 DEF ConnectState
  <2> QED
    BY <2>6, <2>7, <2>8, Zenon
<1>3. f = CHOOSE g : g = Body(g)
  BY DEF ConnectTxs
<1>4. start \in ConnectState
  BY DEF ConnectState, NoCoins, Contents
<1> HIDE DEF N, Step, f, start
<1>5. F \in [1 .. N -> [ConnectState -> ConnectState]]
  BY <1>2
<1>6. PICK g : LoopOf(g, N, ConnectState, start, F)
  <2> HIDE DEF F
  <2> QED
    BY <1>1, <1>4, <1>5, LoopExists
<1>7. g = Body(g)
  <2>1. g \in [0 .. N -> ConnectState] /\ g[0] = start
    BY <1>6 DEF LoopOf
  <2>2. ASSUME NEW k \in 1 .. N PROVE g[k] = Step(g[k - 1], k)
    <3>1. g[k] = F[k][g[k - 1]] /\ g[k - 1] \in ConnectState
      BY <1>1, <1>6, <2>1 DEF LoopOf
    <3> QED
      BY <3>1
  <2> QED
    BY <1>1, <2>1, <2>2
<1>8. f = Body(f)
  BY <1>3, <1>7, Zenon
<1>9. f[0] = start /\ \A n \in 1 .. N : f[n] = Step(f[n - 1], n)
  BY <1>1, <1>8
<1> DEFINE S == {k \in 0 .. N : f[k] \in ConnectState}
<1>10. 0 .. N \subseteq S
  <2>1. 0 \in S /\ \A k \in 1 .. N : k - 1 \in S => k \in S
    BY <1>1, <1>2, <1>4, <1>9
  <2> HIDE DEF S
  <2> QED
    BY <1>1, <2>1, LoopInduct
<1>11. f \in [0 .. N -> ConnectState]
  BY <1>8, <1>10
<1> QED
  BY <1>9, <1>11 DEF f, N, Step, start

-----------------------------------------------------------------------------
(***************************************************************************)
(* The UTXO set of a chain.                                                *)
(***************************************************************************)

(* Induction along the chains of the block tree.                           *)
LEMMA TreeInduct ==
    ASSUME NEW S, Null \in S, \A b \in Block : Parent[b] \in S => b \in S
    PROVE  Block \cup {Null} \subseteq S
<1> DEFINE D == Block \cup {Null}
           rank == [b \in D |-> IF b = Null THEN 0 ELSE Height[b] + 1]
<1>1. rank \in [D -> Nat]
  BY BlockAssumption
<1>2. \A b \in Block : Parent[b] \in D /\ rank[Parent[b]] < rank[b]
  BY BlockAssumption
<1>3. \A d \in D : (\A e \in D : rank[e] < rank[d] => e \in S) => d \in S
  <2> HIDE DEF rank
  <2> QED
    BY <1>2
<1> HIDE DEF rank, D
<1>4. D \subseteq S
  BY <1>1, <1>3, RankedInduct
<1> QED
  BY <1>4 DEF D

(* UtxoAt gives every block a UTXO set, which follows from its parent's.   *)
LEMMA UtxoAtFacts ==
    /\ UtxoAt \in [Block \cup {Null} -> Utxos]
    /\ UtxoAt[Null] = NoCoins /\ UtxoAt[Genesis] = NoCoins
    /\ \A b \in Block \ {Genesis} :
            UtxoAt[b] = ApplyTxs(UtxoAt[Parent[b]], b)[Len(Vtx[b])]
<1> DEFINE D == Block \cup {Null}
           R == {Null, Genesis}
           rank == [b \in D |-> IF b = Null THEN 0 ELSE Height[b] + 1]
           Step(t, b) == ApplyTxs(t, b)[Len(Vtx[b])]
           Body(g) == [b \in D |-> IF b \in R THEN NoCoins
                                   ELSE Step(g[Parent[b]], b)]
           base == [b \in D |-> NoCoins]
           F == [b \in Block |-> [t \in Utxos |-> Step(t, b)]]
<1>1. NoCoins \in Utxos
  BY DEF NoCoins, Utxos
<1>2. ASSUME NEW b \in Block, NEW t \in Utxos PROVE Step(t, b) \in Utxos
  <2>1. Len(Vtx[b]) \in 0 .. Len(Vtx[b])
    BY BlockFacts
  <2> QED
    BY <2>1, ApplyTxsFacts
<1>3. UtxoAt = CHOOSE g : g = Body(g)
  BY DEF UtxoAt
<1> HIDE DEF Step
<1>4. RecursionOn(D, rank, R, Parent, Utxos, base, F)
  <2>1. rank \in [D -> Nat]
    BY BlockAssumption
  <2>2. \A d \in D \ R : Parent[d] \in D /\ rank[Parent[d]] < rank[d]
    BY BlockAssumption
  <2>3. \A d \in D \cap R : base[d] \in Utxos
    BY <1>1
  <2>4. \A d \in D \ R, t \in Utxos : F[d][t] \in Utxos
    BY <1>2
  <2> HIDE DEF D, R, rank, base, F
  <2> QED
    BY <2>1, <2>2, <2>3, <2>4 DEF RecursionOn
<1>5. PICK g : RecursiveOn(g, D, R, Parent, Utxos, base, F)
  <2> HIDE DEF D, R, rank, base, F
  <2> QED
    BY <1>4, RankedRecursion
<1>6. g \in [D -> Utxos]
  BY <1>5 DEF RecursiveOn
<1>7. g = Body(g)
  <2>1. ASSUME NEW b \in D
        PROVE  g[b] = IF b \in R THEN NoCoins ELSE Step(g[Parent[b]], b)
    <3>1. g[b] = IF b \in R THEN base[b] ELSE F[b][g[Parent[b]]]
      BY <1>5 DEF RecursiveOn
    <3>2. CASE b \in R
      BY <3>1, <3>2
    <3>3. CASE b \notin R
      <4>1. b \in Block /\ Parent[b] \in D
        BY <3>3, BlockAssumption
      <4> QED
        BY <1>6, <3>1, <3>3, <4>1
    <3> QED
      BY <3>2, <3>3
  <2> QED
    BY <1>6, <2>1
<1>8. UtxoAt = Body(UtxoAt)
  BY <1>3, <1>7
<1>9. /\ UtxoAt[Null] = NoCoins /\ UtxoAt[Genesis] = NoCoins
      /\ \A b \in Block \ {Genesis} : UtxoAt[b] = Step(UtxoAt[Parent[b]], b)
  <2> HIDE DEF Body
  <2>1. \A b \in D : Body(UtxoAt)[b] = IF b \in R THEN NoCoins
                                       ELSE Step(UtxoAt[Parent[b]], b)
    BY DEF Body
  <2>2. \A b \in D : UtxoAt[b] = IF b \in R THEN NoCoins
                                 ELSE Step(UtxoAt[Parent[b]], b)
    BY <1>8, <2>1
  <2> QED
    BY <2>2, BlockAssumption
<1> DEFINE S == {b \in D : UtxoAt[b] \in Utxos}
<1>10. D \subseteq S
  <2>1. Null \in S
    BY <1>1, <1>9
  <2>2. ASSUME NEW b \in Block, Parent[b] \in S PROVE b \in S
    <3>1. CASE b = Genesis
      BY <3>1, <1>1, <1>9
    <3>2. CASE b # Genesis
      BY <2>2, <3>2, <1>2, <1>9
    <3> QED
      BY <3>1, <3>2
  <2> HIDE DEF S
  <2> QED
    BY <2>1, <2>2, TreeInduct
<1>11. UtxoAt \in [D -> Utxos]
  BY <1>8, <1>10
<1> QED
  BY <1>9, <1>11 DEF Step

-----------------------------------------------------------------------------
(***************************************************************************)
(* A block in its chain.                                                   *)
(***************************************************************************)

(* The UTXO sets between the transactions of a block.                      *)
Between(b) == ApplyTxs(UtxoAt[Parent[b]], b)

TxTouches(tx, o) == o \in tx.vin \/ o \in tx.vout

Touches(b, o) == \E n \in 1 .. Len(Vtx[b]) : TxTouches(Vtx[b][n], o)

(* Every input of the block is there when its turn comes.                  *)
Applicable(b) ==
    \A n \in 1 .. Len(Vtx[b]) : \A o \in Vtx[b][n].vin : Between(b)[n - 1][o] # Spent

(* u is the undo record of the block: the coins its inputs spent.          *)
UndoRecord(b, u) ==
    \A n \in 1 .. Len(Vtx[b]) : \A o \in Vtx[b][n].vin : u[o] = Between(b)[n - 1][o]

(* The UTXO sets within a block lead from its parent's to its own.         *)
LEMMA BetweenFacts ==
    ASSUME NEW b \in Block \ {Genesis}
    PROVE  /\ Between(b) \in [0 .. Len(Vtx[b]) -> Utxos]
           /\ Between(b)[0] = UtxoAt[Parent[b]]
           /\ Between(b)[Len(Vtx[b])] = UtxoAt[b]
           /\ \A n \in 1 .. Len(Vtx[b]) : \A o \in Outpoint :
                Between(b)[n][o] = IF o \in Vtx[b][n].vout THEN Height[b]
                                   ELSE IF o \in Vtx[b][n].vin THEN Spent
                                   ELSE Between(b)[n - 1][o]
<1>1. Parent[b] \in Block
  BY BlockAssumption
<1>2. UtxoAt[Parent[b]] \in Utxos
  BY <1>1, UtxoAtFacts
<1>3. /\ Between(b) \in [0 .. Len(Vtx[b]) -> Utxos]
      /\ Between(b)[0] = UtxoAt[Parent[b]]
      /\ \A n \in 1 .. Len(Vtx[b]) :
            Between(b)[n] = ApplyTx(Between(b)[n - 1], Vtx[b][n], Height[b])
  BY <1>2, ApplyTxsFacts DEF Between
<1>4. Between(b)[Len(Vtx[b])] = UtxoAt[b]
  BY UtxoAtFacts DEF Between
<1>5. \A n \in 1 .. Len(Vtx[b]) : \A o \in Outpoint :
        Between(b)[n][o] = IF o \in Vtx[b][n].vout THEN Height[b]
                           ELSE IF o \in Vtx[b][n].vin THEN Spent
                           ELSE Between(b)[n - 1][o]
  <2> SUFFICES ASSUME NEW n \in 1 .. Len(Vtx[b]), NEW o \in Outpoint
               PROVE  Between(b)[n][o] = IF o \in Vtx[b][n].vout THEN Height[b]
                                         ELSE IF o \in Vtx[b][n].vin THEN Spent
                                         ELSE Between(b)[n - 1][o]
    OBVIOUS
  <2>1. Between(b)[n] = ApplyTx(Between(b)[n - 1], Vtx[b][n], Height[b])
    BY <1>3
  <2> QED
    BY <2>1 DEF ApplyTx
<1> QED
  BY <1>3, <1>4, <1>5

(* An output is not there before the transaction that creates it.          *)
LEMMA OutputsAbsent ==
    ASSUME NEW b \in Block \ {Genesis}, NEW n \in 1 .. Len(Vtx[b]),
           NEW o \in Vtx[b][n].vout, NEW m \in 0 .. n - 1
    PROVE  Between(b)[m][o] = Spent
<1> DEFINE S == {k \in 0 .. n - 1 : Between(b)[k][o] = Spent}
<1>1. /\ Len(Vtx[b]) \in Nat /\ DOMAIN Vtx[b] = 1 .. Len(Vtx[b])
      /\ o \in Outpoint
  BY BlockFacts DEF Tx
<1>2. 0 \in S
  BY <1>1, BetweenFacts, DistinctTxids
<1>3. ASSUME NEW k \in 1 .. n - 1, k - 1 \in S PROVE k \in S
  <2>1. k \in DOMAIN Vtx[b] /\ n \in DOMAIN Vtx[b] /\ k # n
    BY <1>1
  <2>2. o \notin Vtx[b][k].vout
    BY <2>1, DistinctTxids
  <2> QED
    BY <1>1, <1>3, <2>1, <2>2, BetweenFacts
<1>4. 0 .. n - 1 \subseteq S
  <2>1. n - 1 \in Nat
    BY <1>1
  <2> HIDE DEF S
  <2> QED
    BY <1>2, <1>3, <2>1, LoopInduct, Zenon
<1> QED
  BY <1>4

(* A coin that a transaction of a block spends is gone for the rest of it. *)
LEMMA SpentOnce ==
    ASSUME NEW b \in Block \ {Genesis}, NEW n \in 1 .. Len(Vtx[b]),
           NEW o \in Vtx[b][n].vin, Between(b)[n - 1][o] # Spent,
           NEW m \in n .. Len(Vtx[b])
    PROVE  Between(b)[m][o] = Spent
<1> DEFINE N == Len(Vtx[b])
           S == {k \in 0 .. N - n : Between(b)[n + k][o] = Spent}
<1>1. N \in Nat /\ o \in Outpoint
  BY BlockFacts DEF Tx
<1>2. \A k \in n .. N : o \notin Vtx[b][k].vout
  BY <1>1, OutputsAbsent
<1>3. 0 \in S
  BY <1>1, <1>2, BetweenFacts
<1>4. ASSUME NEW k \in 1 .. N - n, k - 1 \in S PROVE k \in S
  <2>1. n + k \in 1 .. N /\ n + k \in n .. N /\ (n + k) - 1 = n + (k - 1)
    BY <1>1
  <2>2. o \notin Vtx[b][n + k].vout /\ Between(b)[(n + k) - 1][o] = Spent
    BY <1>2, <1>4, <2>1
  <2>3. Between(b)[n + k][o] = Spent
    BY <1>1, <2>1, <2>2, BetweenFacts
  <2> QED
    BY <2>3
<1>5. 0 .. N - n \subseteq S
  <2>1. N - n \in Nat
    BY <1>1
  <2> HIDE DEF S
  <2> QED
    BY <1>3, <1>4, <2>1, LoopInduct, Zenon
<1>6. m - n \in S /\ n + (m - n) = m
  <2>1. m - n \in 0 .. N - n /\ n + (m - n) = m
    BY <1>1
  <2> HIDE DEF S
  <2> QED
    BY <1>5, <2>1
<1> QED
  BY <1>6

(* A block changes only what its transactions touch.                       *)
LEMMA UntouchedSame ==
    ASSUME NEW b \in Block \ {Genesis}, NEW o \in Outpoint, ~Touches(b, o)
    PROVE  UtxoAt[b][o] = UtxoAt[Parent[b]][o]
<1> DEFINE N == Len(Vtx[b])
           S == {k \in 0 .. N : Between(b)[k][o] = Between(b)[0][o]}
<1>1. N \in Nat
  BY BlockFacts
<1>2. ASSUME NEW k \in 1 .. N, k - 1 \in S PROVE k \in S
  BY <1>1, <1>2, BetweenFacts DEF Touches, TxTouches
<1>3. 0 .. N \subseteq S
  <2>1. 0 \in S
    BY <1>1
  <2> HIDE DEF S
  <2> QED
    BY <1>1, <1>2, <2>1, LoopInduct, Zenon
<1>4. Between(b)[N][o] = Between(b)[0][o]
  BY <1>1, <1>3
<1> QED
  BY <1>4, BetweenFacts

(* The caches RollforwardBlock goes through.                               *)
LEMMA RollforwardTxsFacts ==
    ASSUME NEW base \in Contents, NEW view \in Sound(base), NEW b \in Block
    PROVE  /\ RollforwardTxs(view, base, b) \in [0 .. Len(Vtx[b]) -> Sound(base)]
           /\ RollforwardTxs(view, base, b)[0] = view
           /\ \A n \in 1 .. Len(Vtx[b]) :
                Answers(RollforwardTxs(view, base, b)[n], base)
                  = ApplyTx(Answers(RollforwardTxs(view, base, b)[n - 1], base),
                            Vtx[b][n], Height[b])
<1> DEFINE N == Len(Vtx[b])
           T == Sound(base)
           Step(t, k) == RollforwardTx(t, base, Vtx[b][k], Height[b])
           Body(g) == [n \in 0 .. N |-> IF n = 0 THEN view
                                        ELSE Step(g[n - 1], n)]
           F == [k \in 1 .. N |-> [t \in T |-> Step(t, k)]]
           f == RollforwardTxs(view, base, b)
<1>1. N \in Nat
  BY BlockFacts
<1>2. ASSUME NEW k \in 1 .. N, NEW t \in T
      PROVE  /\ Step(t, k) \in T
             /\ Answers(Step(t, k), base)
                  = ApplyTx(Answers(t, base), Vtx[b][k], Height[b])
  BY BlockFacts, RollforwardTxFacts
<1>3. f = CHOOSE g : g = Body(g)
  BY DEF RollforwardTxs
<1> HIDE DEF N, T, Step, f
<1>4. F \in [1 .. N -> [T -> T]] /\ view \in T
  BY <1>2 DEF T
<1>5. PICK g : LoopOf(g, N, T, view, F)
  <2> HIDE DEF F
  <2> QED
    BY <1>1, <1>4, LoopExists
<1>6. g = Body(g)
  <2>1. g \in [0 .. N -> T] /\ g[0] = view
    BY <1>5 DEF LoopOf
  <2>2. ASSUME NEW k \in 1 .. N PROVE g[k] = Step(g[k - 1], k)
    <3>1. g[k] = F[k][g[k - 1]] /\ g[k - 1] \in T
      BY <1>1, <1>5, <2>1 DEF LoopOf
    <3> QED
      BY <3>1
  <2> QED
    BY <1>1, <2>1, <2>2
<1>7. f = Body(f)
  BY <1>3, <1>6, Zenon
<1>8. f[0] = view /\ \A n \in 1 .. N : f[n] = Step(f[n - 1], n)
  BY <1>1, <1>7
<1> DEFINE S == {k \in 0 .. N : f[k] \in T}
<1>9. 0 .. N \subseteq S
  <2>1. 0 \in S /\ \A k \in 1 .. N : k - 1 \in S => k \in S
    BY <1>1, <1>2, <1>4, <1>8
  <2> HIDE DEF S
  <2> QED
    BY <1>1, <2>1, LoopInduct
<1>10. f \in [0 .. N -> T]
  BY <1>7, <1>9
<1>11. ASSUME NEW n \in 1 .. N
       PROVE  Answers(f[n], base)
                = ApplyTx(Answers(f[n - 1], base), Vtx[b][n], Height[b])
  <2>1. f[n - 1] \in T /\ f[n] = Step(f[n - 1], n)
    BY <1>1, <1>8, <1>10
  <2> QED
    BY <1>2, <2>1
<1> QED
  BY <1>8, <1>10, <1>11 DEF f, N, T

(* The undo record has a coin for every input of the block.                *)
HasCoins(b, undo) ==
    \A n \in 1 .. Len(Vtx[b]) : \A o \in Vtx[b][n].vin :
        undo[o] \in Coin \ Unspendable

(* The states DisconnectBlock goes through.                                *)
LEMMA DisconnectTxsFacts ==
    ASSUME NEW base \in Contents, NEW view \in Sound(base), NEW b \in Block,
           NEW undo, HasCoins(b, undo)
    PROVE  /\ DisconnectTxs(view, base, b, undo)
                \in [0 .. Len(Vtx[b]) -> [clean: BOOLEAN, view: Sound(base)]]
           /\ DisconnectTxs(view, base, b, undo)[0]
                = [clean |-> TRUE, view |-> view]
           /\ \A n \in 1 .. Len(Vtx[b]) :
                DisconnectTxs(view, base, b, undo)[n]
                  = DisconnectTx(DisconnectTxs(view, base, b, undo)[n - 1], base,
                                 Vtx[b][Len(Vtx[b]) + 1 - n], Height[b], undo)
<1> DEFINE N == Len(Vtx[b])
           T == [clean: BOOLEAN, view: Sound(base)]
           start == [clean |-> TRUE, view |-> view]
           Step(t, k) == DisconnectTx(t, base, Vtx[b][N + 1 - k], Height[b], undo)
           Body(g) == [n \in 0 .. N |-> IF n = 0 THEN start
                                        ELSE Step(g[n - 1], n)]
           F == [k \in 1 .. N |-> [t \in T |-> Step(t, k)]]
           f == DisconnectTxs(view, base, b, undo)
<1>1. N \in Nat
  BY BlockFacts
<1>2. ASSUME NEW k \in 1 .. N, NEW t \in T PROVE Step(t, k) \in T
  <2> DEFINE n == N + 1 - k
             tx == Vtx[b][n]
  <2>1. n \in 1 .. N
    BY <1>1
  <2>2. tx \in Tx /\ \A o \in tx.vin : undo[o] \in Coin \ Unspendable
    BY <2>1, BlockFacts DEF HasCoins
  <2>3. t = [clean |-> t.clean, view |-> t.view] /\ t.view \in Sound(base)
    OBVIOUS
  <2> DEFINE d == DisconnectTx([clean |-> t.clean, view |-> t.view], base, tx,
                               Height[b], undo)
  <2>4. Step(t, k) = d
    BY <2>3
  <2>5. d = [clean |-> d.clean, view |-> d.view] /\ d.clean \in BOOLEAN
    BY DEF DisconnectTx
  <2> HIDE DEF tx
  <2>6. d.view \in Sound(base)
    BY <2>2, <2>3, DisconnectTxFacts
  <2> HIDE DEF d, Step
  <2> QED
    BY <2>4, <2>5, <2>6
<1>3. f = CHOOSE g : g = Body(g)
  BY DEF DisconnectTxs
<1>4. start \in T
  OBVIOUS
<1> HIDE DEF N, T, Step, f, start
<1>5. F \in [1 .. N -> [T -> T]]
  BY <1>2
<1>6. PICK g : LoopOf(g, N, T, start, F)
  <2> HIDE DEF F
  <2> QED
    BY <1>1, <1>4, <1>5, LoopExists
<1>7. g = Body(g)
  <2>1. g \in [0 .. N -> T] /\ g[0] = start
    BY <1>6 DEF LoopOf
  <2>2. ASSUME NEW k \in 1 .. N PROVE g[k] = Step(g[k - 1], k)
    <3>1. g[k] = F[k][g[k - 1]] /\ g[k - 1] \in T
      BY <1>1, <1>6, <2>1 DEF LoopOf
    <3> QED
      BY <3>1
  <2> QED
    BY <1>1, <2>1, <2>2
<1>8. f = Body(f)
  BY <1>3, <1>7, Zenon
<1>9. f[0] = start /\ \A n \in 1 .. N : f[n] = Step(f[n - 1], n)
  BY <1>1, <1>8
<1> DEFINE S == {k \in 0 .. N : f[k] \in T}
<1>10. 0 .. N \subseteq S
  <2>1. 0 \in S /\ \A k \in 1 .. N : k - 1 \in S => k \in S
    BY <1>1, <1>2, <1>4, <1>9
  <2> HIDE DEF S
  <2> QED
    BY <1>1, <2>1, LoopInduct
<1>11. f \in [0 .. N -> T]
  BY <1>8, <1>10
<1> QED
  BY <1>9, <1>11 DEF f, N, T, Step, start

-----------------------------------------------------------------------------
(* A block that connects: the new cache is sound, it answers with the      *)
(* block's UTXO set, and the undo record holds what the inputs spent.      *)
THEOREM ConnectBlockExact ==
    ASSUME NEW b \in Block \ {Genesis}, NEW base, base = UtxoAt[Parent[b]],
           ConnectBlock(EmptyCache, base, b).ok
    PROVE  /\ ConnectBlock(EmptyCache, base, b).view \in Sound(base)
           /\ Answers(ConnectBlock(EmptyCache, base, b).view, base) = UtxoAt[b]
           /\ Applicable(b)
           /\ UndoRecord(b, ConnectBlock(EmptyCache, base, b).undo)
<1> DEFINE N == Len(Vtx[b])
           f == ConnectTxs(EmptyCache, base, b)
           There(n) == \A o \in Vtx[b][n].vin : Between(b)[n - 1][o] # Spent
           Kept(n, u) == \A o \in Vtx[b][n].vin : u[o] = Between(b)[n - 1][o]
           J(k) == f[k].ok => /\ f[k].view \in Sound(base)
                              /\ Answers(f[k].view, base) = Between(b)[k]
                              /\ \A n \in 1 .. k : There(n) /\ Kept(n, f[k].undo)
           S == {k \in 0 .. N : J(k)}
<1>1. N \in Nat /\ \A n \in 1 .. N : Vtx[b][n] \in Tx
  BY BlockFacts
<1>2. base \in Contents
  BY UtxoAtFacts, BlockAssumption DEF Utxos, Contents
<1>3. EmptyCache \in Sound(base) /\ Answers(EmptyCache, base) = base
  BY <1>2, EmptyFacts DEF Sound
<1>4. /\ f \in [0 .. N -> ConnectState]
      /\ f[0] = [ok |-> TRUE, view |-> EmptyCache, undo |-> NoCoins]
      /\ \A n \in 1 .. N : f[n] = ConnectTx(f[n - 1], base, Vtx[b][n], Height[b])
  BY <1>2, <1>3, ConnectTxsFacts DEF Sound
<1> HIDE DEF f
<1>5. 0 \in S
  BY <1>1, <1>3, <1>4, BetweenFacts, SMTT(40)
<1>6. ASSUME NEW k \in 1 .. N, k - 1 \in S, f[k].ok PROVE J(k)
  <2> DEFINE s == f[k - 1]
             tx == Vtx[b][k]
             a == Answers(s.view, base)
             new == UpdateCoins(s.view, base, tx, Height[b])
             u == [o \in Outpoint |-> IF o \in tx.vin THEN a[o] ELSE s.undo[o]]
  <2>1. /\ s.ok /\ \A o \in tx.vin : a[o] # Spent
        /\ f[k].view = new /\ f[k].undo = u
    <3>1. f[k] = ConnectTx(s, base, tx, Height[b])
      BY <1>4
    <3>2. f[k] = IF ~s.ok \/ \E o \in tx.vin : a[o] = Spent
                 THEN [ok |-> FALSE, view |-> s.view, undo |-> s.undo]
                 ELSE [ok |-> TRUE, view |-> new, undo |-> u]
      BY <3>1 DEF ConnectTx
    <3> HIDE DEF s, tx, a, new, u
    <3> QED
      BY <1>6, <3>2
  <2>2. /\ s.view \in Sound(base) /\ a = Between(b)[k - 1]
        /\ \A n \in 1 .. k - 1 : There(n) /\ Kept(n, s.undo)
    BY <1>6, <2>1
  <2>3. \A o \in tx.vout : a[o] = Spent
    BY <1>1, <2>2, OutputsAbsent
  <2>4. tx \in Tx /\ Height[b] \in Coin \ Unspendable
    BY <1>1, BlockFacts
  <2> HIDE DEF There, Kept
  <2>5. new \in Sound(base) /\ Answers(new, base) = ApplyTx(a, tx, Height[b])
    <3> HIDE DEF tx, s
    <3> QED
      BY <1>2, <2>2, <2>3, <2>4, UpdateCoinsFacts
  <2>6. Answers(new, base) = Between(b)[k]
    BY <2>2, <2>5, ApplyTxsFacts, UtxoAtFacts, BlockAssumption, SMTT(40) DEF Between
  <2>7. There(k) /\ Kept(k, u)
    <3>1. \A o \in tx.vin : o \in Outpoint
      BY <2>4 DEF Tx
    <3> QED
      BY <2>1, <2>2, <3>1 DEF There, Kept
  <2>8. ASSUME NEW n \in 1 .. k - 1 PROVE Kept(n, u)
    <3> SUFFICES ASSUME NEW o \in Vtx[b][n].vin
                 PROVE  u[o] = Between(b)[n - 1][o]
      BY Zenon DEF Kept
    <3>1. n \in 1 .. N /\ o \in Outpoint /\ k - 1 \in n .. N
      BY <1>1 DEF Tx
    <3>2. Between(b)[n - 1][o] # Spent /\ s.undo[o] = Between(b)[n - 1][o]
      BY <2>2 DEF There, Kept
    <3>3. Between(b)[k - 1][o] = Spent
      BY <3>1, <3>2, SpentOnce
    <3>4. o \notin tx.vin
      BY <2>1, <2>2, <3>3
    <3> QED
      BY <3>1, <3>2, <3>4
  <2>9. \A n \in 1 .. k : n \in 1 .. k - 1 \/ n = k
    BY <1>1, SMTT(40)
  <2>10. \A n \in 1 .. k : There(n) /\ Kept(n, u)
    BY <2>2, <2>7, <2>8, <2>9
  <2> HIDE DEF new, u
  <2> QED
    BY <2>1, <2>5, <2>6, <2>10
<1>7. 0 .. N \subseteq S
  <2>1. \A k \in 1 .. N : k - 1 \in S => k \in S
    BY <1>6
  <2> HIDE DEF S
  <2> QED
    BY <1>1, <1>5, <2>1, LoopInduct, Zenon
<1>8. ConnectBlock(EmptyCache, base, b) = f[N]
  BY DEF ConnectBlock, f
<1>9. J(N) /\ f[N].ok
  BY <1>1, <1>7, <1>8
<1> QED
  BY <1>8, <1>9, BetweenFacts, SMTT(40) DEF Applicable, UndoRecord

(* ConnectBlock does nothing to the cache for the genesis block.           *)
LEMMA ConnectGenesis ==
    ASSUME NEW base \in Contents
    PROVE  /\ ConnectBlock(EmptyCache, base, Genesis).ok
           /\ ConnectBlock(EmptyCache, base, Genesis).view = EmptyCache
<1>1. Genesis \in Block /\ EmptyCache \in CCoinsMap
  BY BlockAssumption, EmptyFacts
<1>2. ConnectTxs(EmptyCache, base, Genesis)[0]
        = [ok |-> TRUE, view |-> EmptyCache, undo |-> NoCoins]
  BY <1>1, ConnectTxsFacts
<1> QED
  BY <1>2 DEF ConnectBlock

(* A block rolled forward over any database: what it touches is then as in *)
(* its UTXO set, and nothing else changes.                                 *)
THEOREM RollforwardBlockExact ==
    ASSUME NEW base \in Contents, NEW view \in Sound(base),
           NEW b \in Block \ {Genesis}
    PROVE  /\ RollforwardBlock(view, base, b) \in Sound(base)
           /\ \A o \in Outpoint :
                Answers(RollforwardBlock(view, base, b), base)[o]
                  = IF Touches(b, o) THEN UtxoAt[b][o] ELSE Answers(view, base)[o]
<1> DEFINE N == Len(Vtx[b])
           f == RollforwardTxs(view, base, b)
           A(k) == Answers(f[k], base)
           Before(k, o) == \E n \in 1 .. k : TxTouches(Vtx[b][n], o)
           J(k) == \A o \in Outpoint :
                     A(k)[o] = IF Before(k, o) THEN Between(b)[k][o] ELSE A(0)[o]
           S == {k \in 0 .. N : J(k)}
<1>1. N \in Nat
  BY BlockFacts
<1>2. /\ f \in [0 .. N -> Sound(base)] /\ f[0] = view
      /\ \A n \in 1 .. N : A(n) = ApplyTx(A(n - 1), Vtx[b][n], Height[b])
  BY RollforwardTxsFacts
<1> HIDE DEF f
<1>3. 0 \in S
  BY <1>1, SMTT(40)
<1>4. ASSUME NEW k \in 1 .. N, k - 1 \in S PROVE k \in S
  <2> SUFFICES ASSUME NEW o \in Outpoint
               PROVE  A(k)[o] = IF Before(k, o) THEN Between(b)[k][o] ELSE A(0)[o]
    BY <1>1
  <2>1. Before(k, o) <=> Before(k - 1, o) \/ TxTouches(Vtx[b][k], o)
    <3>1. \A n : n \in 1 .. k <=> n \in 1 .. k - 1 \/ n = k
      BY <1>1
    <3> QED
      BY <3>1
  <2>2. A(k)[o] = IF o \in Vtx[b][k].vout THEN Height[b]
                  ELSE IF o \in Vtx[b][k].vin THEN Spent ELSE A(k - 1)[o]
    <3>1. A(k) = ApplyTx(A(k - 1), Vtx[b][k], Height[b])
      BY <1>2
    <3> HIDE DEF A
    <3> QED
      BY <3>1 DEF ApplyTx
  <2>3. Between(b)[k][o] = IF o \in Vtx[b][k].vout THEN Height[b]
                           ELSE IF o \in Vtx[b][k].vin THEN Spent
                           ELSE Between(b)[k - 1][o]
    BY BetweenFacts
  <2>4. A(k - 1)[o] = IF Before(k - 1, o) THEN Between(b)[k - 1][o] ELSE A(0)[o]
    BY <1>4
  <2> HIDE DEF A, Before
  <2> QED
    BY <2>1, <2>2, <2>3, <2>4 DEF TxTouches
<1>5. 0 .. N \subseteq S
  <2> HIDE DEF S
  <2> QED
    BY <1>1, <1>3, <1>4, LoopInduct, Zenon
<1>6. J(N) /\ f[N] \in Sound(base)
  <2>1. N \in 0 .. N
    BY <1>1
  <2>2. f[N] \in Sound(base)
    BY <1>2, <2>1
  <2> HIDE DEF J
  <2> QED
    BY <1>5, <2>1, <2>2
<1>7. RollforwardBlock(view, base, b) = f[N]
  BY DEF RollforwardBlock, f
<1>8. \A o \in Outpoint : Before(N, o) <=> Touches(b, o)
  BY DEF Touches
<1>9. Between(b)[N] = UtxoAt[b]
  BY BetweenFacts
<1> HIDE DEF Before, N
<1> QED
  BY <1>2, <1>6, <1>7, <1>8, <1>9

(* The undo record of a block that could be applied has a coin for every   *)
(* input.                                                                  *)
LEMMA UndoHasCoins ==
    ASSUME NEW b \in Block \ {Genesis}, NEW u, Applicable(b), UndoRecord(b, u)
    PROVE  HasCoins(b, u)
<1> SUFFICES ASSUME NEW n \in 1 .. Len(Vtx[b]), NEW o \in Vtx[b][n].vin
             PROVE  u[o] \in Coin \ Unspendable
  BY DEF HasCoins
<1>1. o \in Outpoint /\ n - 1 \in 0 .. Len(Vtx[b])
  BY BlockFacts DEF Tx
<1>2. Between(b)[n - 1] \in Utxos
  BY <1>1, BetweenFacts, SMTT(40)
<1>3. Between(b)[n - 1][o] \in (Coin \ Unspendable) \cup {Spent}
  BY <1>1, <1>2 DEF Utxos
<1> QED
  BY <1>3 DEF Applicable, UndoRecord

(* A block disconnected over any database: what it touches is then as in   *)
(* its parent's UTXO set, and nothing else changes.  If the cache stood at *)
(* the block, the disconnection is clean.                                  *)
THEOREM DisconnectBlockExact ==
    ASSUME NEW base \in Contents, NEW view \in Sound(base),
           NEW b \in Block \ {Genesis}, NEW u, Applicable(b), UndoRecord(b, u)
    PROVE  /\ DisconnectBlock(view, base, b, u).view \in Sound(base)
           /\ \A o \in Outpoint :
                Answers(DisconnectBlock(view, base, b, u).view, base)[o]
                  = IF Touches(b, o) THEN UtxoAt[Parent[b]][o]
                    ELSE Answers(view, base)[o]
           /\ Answers(view, base) = UtxoAt[b]
                => /\ DisconnectBlock(view, base, b, u).clean
                   /\ Answers(DisconnectBlock(view, base, b, u).view, base)
                        = UtxoAt[Parent[b]]
<1> DEFINE N == Len(Vtx[b])
           f == DisconnectTxs(view, base, b, u)
           A(k) == Answers(f[k].view, base)
           TxOf(k) == Vtx[b][N + 1 - k]
           After(k, o) == \E n \in 1 .. k : TxTouches(TxOf(n), o)
           J(k) == /\ \A o \in Outpoint :
                        A(k)[o] = IF After(k, o) THEN Between(b)[N - k][o]
                                  ELSE A(0)[o]
                   /\ A(0) = UtxoAt[b] => f[k].clean /\ A(k) = Between(b)[N - k]
           S == {k \in 0 .. N : J(k)}

<1>1. N \in Nat
  BY BlockFacts
<1>2. HasCoins(b, u)
  BY UndoHasCoins
<1>3. /\ f \in [0 .. N -> [clean: BOOLEAN, view: Sound(base)]]
      /\ f[0] = [clean |-> TRUE, view |-> view]
      /\ \A n \in 1 .. N : f[n] = DisconnectTx(f[n - 1], base, TxOf(n), Height[b], u)
  BY <1>2, DisconnectTxsFacts
<1> HIDE DEF f
<1>4. 0 \in S
  <2>1. N - 0 = N /\ 1 .. 0 = {}
    BY <1>1
  <2>2. Between(b)[N] = UtxoAt[b]
    BY BetweenFacts
  <2> HIDE DEF A, N
  <2> QED
    BY <1>1, <1>3, <2>1, <2>2
<1>5. ASSUME NEW k \in 1 .. N, k - 1 \in S PROVE k \in S
  <2> DEFINE s == f[k - 1]
             n == N + 1 - k
             tx == Vtx[b][n]
             spent == SpendCoins(s.view, base, tx.vout)
  <2>1. /\ n \in 1 .. N /\ n - 1 = N - k /\ n = N - (k - 1) /\ k - 1 \in 0 .. N
        /\ k \in 0 .. N
    BY <1>1
  <2>2. tx \in Tx /\ \A o \in tx.vin : u[o] \in Coin \ Unspendable
    BY <2>1, <1>2, BlockFacts DEF HasCoins
  <2>3. /\ s = [clean |-> s.clean, view |-> s.view]
        /\ s.view \in Sound(base) /\ s.clean \in BOOLEAN
    BY <1>3, <2>1, Zenon
  <2>4. f[k] = DisconnectTx([clean |-> s.clean, view |-> s.view], base, tx,
                            Height[b], u)
    BY <1>3, <2>3
  <2> HIDE DEF s, tx, n
  <2>5. A(k) = UnapplyTx(A(k - 1), tx, u)
    BY <2>2, <2>3, <2>4, DisconnectTxFacts, SMTT(40) DEF s
  <2>6. \A o \in Outpoint : o \in tx.vin => u[o] = Between(b)[n - 1][o]
    BY <2>1 DEF UndoRecord, tx
  <2>7. \A o \in Outpoint : o \in tx.vout => Between(b)[n - 1][o] = Spent
    <3>1. n - 1 \in 0 .. n - 1
      BY <1>1, <2>1
    <3> QED
      BY <2>1, <3>1, OutputsAbsent DEF tx
  <2>8. \A o \in Outpoint :
          Between(b)[n][o] = IF o \in tx.vout THEN Height[b]
                             ELSE IF o \in tx.vin THEN Spent
                             ELSE Between(b)[n - 1][o]
    BY <2>1, BetweenFacts, Zenon DEF tx
  <2>9. \A o \in Outpoint :
          A(k)[o] = IF After(k, o) THEN Between(b)[N - k][o] ELSE A(0)[o]
    <3> SUFFICES ASSUME NEW o \in Outpoint
                 PROVE  A(k)[o] = IF After(k, o) THEN Between(b)[n - 1][o] ELSE A(0)[o]
      BY <2>1
    <3>1. After(k, o) <=> After(k - 1, o) \/ TxTouches(tx, o)
      <4>1. \A m : m \in 1 .. k <=> m \in 1 .. k - 1 \/ m = k
        BY <1>1
      <4> QED
        BY <4>1 DEF tx, n
    <3>2. A(k)[o] = IF o \in tx.vin THEN u[o]
                    ELSE IF o \in tx.vout THEN Spent ELSE A(k - 1)[o]
      <4> HIDE DEF A
      <4> QED
        BY <2>5 DEF UnapplyTx
    <3>3. A(k - 1)[o] = IF After(k - 1, o) THEN Between(b)[n][o] ELSE A(0)[o]
      BY <1>5, <2>1
    <3> HIDE DEF A, After
    <3> QED
      BY <2>6, <2>7, <2>8, <3>1, <3>2, <3>3 DEF TxTouches
  <2>10. ASSUME A(0) = UtxoAt[b] PROVE f[k].clean /\ A(k) = Between(b)[N - k]
    <3>1. s.clean /\ A(k - 1) = Between(b)[n]
      BY <1>5, <2>1, <2>10 DEF s
    <3>2. f[k].clean = (/\ s.clean
                        /\ \A o \in tx.vout : A(k - 1)[o] = Height[b]
                        /\ \A o \in tx.vin : ~HaveCoin(spent, base, o))
      <4> DEFINE clean == /\ s.clean
                          /\ \A o \in tx.vout : A(k - 1)[o] = Height[b]
                          /\ \A o \in tx.vin : ~HaveCoin(spent, base, o)
                 undone == DisconnectTx(s, base, tx, Height[b], u).view
      <4>1. f[k] = [clean |-> clean, view |-> undone]
        BY <2>4 DEF DisconnectTx, s
      <4> HIDE DEF clean, undone
      <4>2. f[k].clean = clean
        BY <4>1
      <4> QED
        BY <4>2 DEF clean
    <3>3. \A o \in Outpoint : Answers(spent, base)[o]
            = IF o \in tx.vout THEN Spent ELSE A(k - 1)[o]
      <4>1. tx.vout \subseteq Outpoint
        BY <2>2 DEF Tx
      <4> QED
        BY <2>3, <4>1, SpendCoinsFacts DEF s
    <3>4. tx.vin \subseteq Outpoint /\ tx.vout \subseteq Outpoint
      BY <2>2 DEF Tx
    <3>5. \A o \in tx.vout : A(k - 1)[o] = Height[b]
      BY <2>8, <3>1, <3>4, SMTT(40)
    <3>6. \A o \in tx.vin : ~HaveCoin(spent, base, o)
      BY <2>8, <3>1, <3>3, <3>4 DEF HaveCoin
    <3>7. A(k) = Between(b)[n - 1]
      <4>1. Between(b)[n - 1] = [o \in Outpoint |-> Between(b)[n - 1][o]]
        <5>1. n - 1 \in 0 .. N
          BY <1>1, <2>1
        <5> QED
          BY <5>1, BetweenFacts DEF Utxos
      <4>2. \A o \in Outpoint : UnapplyTx(A(k - 1), tx, u)[o] = Between(b)[n - 1][o]
        <5> HIDE DEF A
        <5> QED
          BY <2>6, <2>7, <2>8, <3>1 DEF UnapplyTx
      <4>3. UnapplyTx(A(k - 1), tx, u)
              = [o \in Outpoint |-> UnapplyTx(A(k - 1), tx, u)[o]]
        BY DEF UnapplyTx
      <4> HIDE DEF A
      <4> QED
        BY <2>5, <4>1, <4>2, <4>3
    <3> QED
      BY <2>1, <3>1, <3>2, <3>5, <3>6, <3>7
  <2> HIDE DEF A, After
  <2> QED
    BY <2>1, <2>9, <2>10
<1>6. 0 .. N \subseteq S
  <2> HIDE DEF S
  <2> QED
    BY <1>1, <1>4, <1>5, LoopInduct, Zenon
<1>7. J(N) /\ f[N].view \in Sound(base) /\ N - N = 0
  <2>1. N \in 0 .. N /\ N - N = 0
    BY <1>1
  <2>2. f[N].view \in Sound(base)
    BY <1>3, <2>1
  <2> HIDE DEF J
  <2> QED
    BY <1>6, <2>1, <2>2
<1>8. DisconnectBlock(view, base, b, u) = f[N]
  BY DEF DisconnectBlock, f
<1>9. \A o \in Outpoint : After(N, o) <=> Touches(b, o)
  <2>1. \A n \in 1 .. N : N + 1 - n \in 1 .. N /\ N + 1 - (N + 1 - n) = n
    BY <1>1, SMTT(40)
  <2> QED
    BY <2>1 DEF Touches
<1>10. Between(b)[0] = UtxoAt[Parent[b]] /\ A(0) = Answers(view, base)
  BY <1>3, BetweenFacts, SMTT(40)
<1> HIDE DEF After, N, A
<1>11. /\ \A o \in Outpoint :
            A(N)[o] = IF Touches(b, o) THEN UtxoAt[Parent[b]][o]
                      ELSE Answers(view, base)[o]
       /\ Answers(view, base) = UtxoAt[b]
            => f[N].clean /\ A(N) = UtxoAt[Parent[b]]
  BY <1>7, <1>9, <1>10
<1> QED
  BY <1>7, <1>8, <1>11 DEF A

-----------------------------------------------------------------------------
(***************************************************************************)
(* A replay.  A database that an interrupted flush left behind holds, for  *)
(* each outpoint, what one of two tips has there.                          *)
(***************************************************************************)
Mixed(coins, p, q) ==
    \A o \in Outpoint : coins[o] \in {UtxoAt[p][o], UtxoAt[q][o]}

(* Disconnecting a block from such a mixture, that of the block and q,     *)
(* gives a mixture of the block's parent and q.                            *)
LEMMA MixedBack ==
    ASSUME NEW base \in Contents, NEW view \in Sound(base),
           NEW b \in Block \ {Genesis}, NEW q, NEW u,
           Applicable(b), UndoRecord(b, u), Mixed(Answers(view, base), b, q)
    PROVE  /\ DisconnectBlock(view, base, b, u).view \in Sound(base)
           /\ Mixed(Answers(DisconnectBlock(view, base, b, u).view, base),
                    Parent[b], q)
<1> DEFINE new == DisconnectBlock(view, base, b, u).view
<1>1. /\ new \in Sound(base)
      /\ \A o \in Outpoint :
            Answers(new, base)[o] = IF Touches(b, o) THEN UtxoAt[Parent[b]][o]
                                    ELSE Answers(view, base)[o]
  BY DisconnectBlockExact, SMTT(40)
<1> HIDE DEF new
<1>2. \A o \in Outpoint : ~Touches(b, o) => UtxoAt[b][o] = UtxoAt[Parent[b]][o]
  BY UntouchedSame
<1>3. Mixed(Answers(new, base), Parent[b], q)
  BY <1>1, <1>2 DEF Mixed
<1> QED
  BY <1>1, <1>3 DEF new

(* Rolling a block forward over a mixture of its parent and q gives a      *)
(* mixture of the block and q.                                             *)
LEMMA MixedForward ==
    ASSUME NEW base \in Contents, NEW view \in Sound(base),
           NEW b \in Block \ {Genesis}, NEW q,
           Mixed(Answers(view, base), Parent[b], q)
    PROVE  /\ RollforwardBlock(view, base, b) \in Sound(base)
           /\ Mixed(Answers(RollforwardBlock(view, base, b), base), b, q)
<1> DEFINE new == RollforwardBlock(view, base, b)
<1>1. /\ new \in Sound(base)
      /\ \A o \in Outpoint :
            Answers(new, base)[o] = IF Touches(b, o) THEN UtxoAt[b][o]
                                    ELSE Answers(view, base)[o]
  BY RollforwardBlockExact
<1> HIDE DEF new
<1>2. \A o \in Outpoint : ~Touches(b, o) => UtxoAt[b][o] = UtxoAt[Parent[b]][o]
  BY UntouchedSame
<1>3. Mixed(Answers(new, base), b, q)
  BY <1>1, <1>2 DEF Mixed
<1> QED
  BY <1>1, <1>3 DEF new

-----------------------------------------------------------------------------
(* Chain gives every block a chain, its parent's with the block appended.  *)
LEMMA ChainFacts ==
    /\ Chain \in [Block \cup {Null} -> Seq(Block)]
    /\ Chain[Null] = <<>>
    /\ \A b \in Block : Chain[b] = Append(Chain[Parent[b]], b)
<1> DEFINE D == Block \cup {Null}
           R == {Null}
           T == Seq(Block)
           rank == [b \in D |-> IF b = Null THEN 0 ELSE Height[b] + 1]
           Body(g) == [b \in D |-> IF b = Null THEN <<>>
                                   ELSE Append(g[Parent[b]], b)]
           base == [b \in D |-> <<>>]
           F == [b \in Block |-> [t \in T |-> Append(t, b)]]
<1>1. Chain = CHOOSE g : g = Body(g)
  BY DEF Chain
<1>2. RecursionOn(D, rank, R, Parent, T, base, F)
  <2>1. rank \in [D -> Nat]
    BY BlockAssumption
  <2>2. \A d \in D \ R : Parent[d] \in D /\ rank[Parent[d]] < rank[d]
    BY BlockAssumption
  <2>3. \A d \in D \cap R : base[d] \in T
    OBVIOUS
  <2>4. \A d \in D \ R, t \in T : F[d][t] \in T
    OBVIOUS
  <2> HIDE DEF D, R, T, rank, base, F
  <2> QED
    BY <2>1, <2>2, <2>3, <2>4 DEF RecursionOn
<1>3. PICK g : RecursiveOn(g, D, R, Parent, T, base, F)
  <2> HIDE DEF D, R, T, rank, base, F
  <2> QED
    BY <1>2, RankedRecursion
<1>4. g \in [D -> T]
  BY <1>3 DEF RecursiveOn
<1>5. g = Body(g)
  <2>1. ASSUME NEW b \in D
        PROVE  g[b] = IF b = Null THEN <<>> ELSE Append(g[Parent[b]], b)
    <3>1. g[b] = IF b \in R THEN base[b] ELSE F[b][g[Parent[b]]]
      BY <1>3, Zenon DEF RecursiveOn
    <3>2. CASE b = Null
      BY <3>1, <3>2
    <3>3. CASE b # Null
      <4>1. b \in Block /\ g[Parent[b]] \in T
        BY <1>4, <3>3, BlockAssumption
      <4> QED
        BY <3>1, <3>3, <4>1
    <3> QED
      BY <3>2, <3>3
  <2> QED
    BY <1>4, <2>1, Zenon
<1>6. Chain = Body(Chain)
  BY <1>1, <1>5, Zenon
<1>7. /\ Chain[Null] = <<>>
      /\ \A b \in Block : Chain[b] = Append(Chain[Parent[b]], b)
  <2> HIDE DEF Body
  <2>1. \A b \in D : Body(Chain)[b] = IF b = Null THEN <<>>
                                      ELSE Append(Chain[Parent[b]], b)
    BY DEF Body
  <2> QED
    BY <1>6, <2>1, BlockAssumption, Zenon
<1> DEFINE S == {b \in D : Chain[b] \in T}
<1>8. D \subseteq S
  <2>1. Null \in S
    <3>1. <<>> \in T
      OBVIOUS
    <3> QED
      BY <1>7, <3>1, Zenon
  <2>2. ASSUME NEW b \in Block, Parent[b] \in S PROVE b \in S
    <3>1. Chain[b] = Append(Chain[Parent[b]], b)
      BY <1>7
    <3>2. Chain[Parent[b]] \in Seq(Block)
      BY <2>2
    <3>3. Append(Chain[Parent[b]], b) \in Seq(Block)
      BY <3>2
    <3>4. Chain[b] \in T
      BY <3>1, <3>3
    <3> QED
      BY <3>4
  <2> HIDE DEF S
  <2> QED
    BY <2>1, <2>2, TreeInduct
<1>9. Chain \in [D -> T]
  BY <1>6, <1>8, Zenon
<1> QED
  BY <1>7, <1>9

(* A chain runs from the genesis block to its tip along Parent.            *)
LEMMA ChainShape ==
    ASSUME NEW b \in Block
    PROVE  /\ Chain[b] \in Seq(Block) /\ Len(Chain[b]) >= 1
           /\ Chain[b][1] = Genesis
           /\ Chain[b][Len(Chain[b])] = b
           /\ \A i \in 2 .. Len(Chain[b]) : /\ Chain[b][i] \in Block \ {Genesis}
                                            /\ Parent[Chain[b][i]] = Chain[b][i - 1]
<1> DEFINE P(c) == /\ Chain[c] \in Seq(Block) /\ Len(Chain[c]) >= 1
                   /\ Chain[c][1] = Genesis
                   /\ Chain[c][Len(Chain[c])] = c
                   /\ \A i \in 2 .. Len(Chain[c]) :
                            /\ Chain[c][i] \in Block \ {Genesis}
                            /\ Parent[Chain[c][i]] = Chain[c][i - 1]
           S == {c \in Block \cup {Null} : c \in Block => P(c)}
<1>1. Null \in S
  BY BlockAssumption
<1>2. ASSUME NEW c \in Block, Parent[c] \in S PROVE c \in S
  <2> DEFINE p == Chain[Parent[c]]
  <2>1. p \in Seq(Block) /\ Chain[c] = Append(p, c)
    BY ChainFacts, BlockAssumption
  <2>2. CASE c = Genesis
    <3>1. p = <<>>
      BY <2>2, ChainFacts, BlockAssumption
    <3>2. Chain[c] = <<Genesis>>
      BY <2>1, <2>2, <3>1
    <3>3. <<Genesis>> \in Seq(Block) /\ Len(<<Genesis>>) = 1 /\ <<Genesis>>[1] = Genesis
      BY BlockAssumption
    <3>4. 2 .. 1 = {}
      OBVIOUS
    <3>5. P(c)
      BY <2>2, <3>2, <3>3, <3>4
    <3> QED
      BY <3>5
  <2>3. CASE c # Genesis
    <3>1. P(Parent[c])
      BY <1>2, <2>3, BlockAssumption
    <3> HIDE DEF p
    <3>2. /\ Len(Chain[c]) = Len(p) + 1 /\ Chain[c] \in Seq(Block)
          /\ Chain[c][Len(p) + 1] = c /\ \A i \in 1 .. Len(p) : Chain[c][i] = p[i]
      BY <2>1
    <3>3. ASSUME NEW i \in 2 .. Len(Chain[c])
          PROVE  /\ Chain[c][i] \in Block \ {Genesis}
                 /\ Parent[Chain[c][i]] = Chain[c][i - 1]
      <4>1. CASE i = Len(p) + 1
        BY <2>1, <2>3, <3>1, <3>2, <4>1 DEF p
      <4>2. CASE i # Len(p) + 1
        <5>1. i \in 2 .. Len(p) /\ i - 1 \in 1 .. Len(p) /\ i \in 1 .. Len(p)
          BY <2>1, <3>2, <4>2
        <5> QED
          BY <3>1, <3>2, <5>1, Zenon DEF p
      <4> QED
        BY <4>1, <4>2
    <3>4. Len(p) \in Nat /\ Len(p) >= 1 /\ p[1] = Genesis
      BY <2>1, <3>1 DEF p
    <3> QED
      BY <3>2, <3>3, <3>4
  <2> QED
    BY <2>2, <2>3
<1>3. Block \cup {Null} \subseteq S
  <2> HIDE DEF S
  <2> QED
    BY <1>1, <1>2, TreeInduct
<1> QED
  BY <1>3
=============================================================================
