----------------------------- MODULE CoinsView -----------------------------
(***************************************************************************)
(* The data of one CCoinsViewCache (coins.h, coins.cpp) and what its       *)
(* methods compute.  A cache is a map from outpoints to entries laid over  *)
(* a parent view; an outpoint the map does not mention is answered by the  *)
(* parent.  Two flags per entry decide what is written back:               *)
(*                                                                         *)
(*   DIRTY  the entry may differ from the parent's version;                *)
(*   FRESH  the parent has no unspent coin at this outpoint, so an entry   *)
(*          that is spent again can be dropped instead of written back.    *)
(*                                                                         *)
(* The operators are functions of a cache and its parent's contents; the   *)
(* modules that use them own the variables.  A parent is given by what it  *)
(* answers, a function from outpoints to coins with Spent for "no coin".   *)
(***************************************************************************)
EXTENDS Integers, FiniteSetsExt

CONSTANTS Outpoint,     \* COutPoint: transaction id and output index
          Coin,         \* unspent coins: output, height, coinbase flag
          Unspendable,  \* the coins whose script IsUnspendable()
          Spent,        \* a cleared Coin, and the answer "no such coin"
          NoEntry,      \* the outpoint is not in the cacheCoins map
          Size          \* Coin::DynamicMemoryUsage of each coin

Entry == [coin: Coin \cup {Spent}, flags: SUBSET {"DIRTY", "FRESH"}]

CCoinsMap == [Outpoint -> Entry \cup {NoEntry}]

(* What a view answers: an unspent coin, or Spent.                         *)
Contents == [Outpoint -> Coin \cup {Spent}]

ASSUME CoinsViewAssumption ==
    /\ Spent \notin Coin
    /\ NoEntry \notin Entry
    /\ Unspendable \subseteq Coin
    /\ Size \in [Coin -> Nat]

(* A transaction id has 256 bits and an output index 32.                   *)
ASSUME FiniteOutpoints == IsFiniteSet(Outpoint)

EmptyCache == [o \in Outpoint |-> NoEntry]

IsDirty(e) == "DIRTY" \in e.flags
IsFresh(e) == "FRESH" \in e.flags

(***************************************************************************)
(* GetCoin: the cache answers from its own entry when it has one.          *)
(***************************************************************************)
Answers(cache, base) ==
    [o \in Outpoint |-> IF cache[o] = NoEntry THEN base[o] ELSE cache[o].coin]

(* Coin::DynamicMemoryUsage; a cleared coin holds no script.               *)
CoinUsage(c) == IF c = Spent THEN 0 ELSE Size[c]
EntryUsage(e) == IF e = NoEntry THEN 0 ELSE CoinUsage(e.coin)

-----------------------------------------------------------------------------
(***************************************************************************)
(* FetchCoin: an outpoint the cache does not hold is read from the parent  *)
(* and kept with no flags.  A parent that answers "no coin" leaves no      *)
(* entry behind: GetCoin returns false for a spent entry too, so the       *)
(* branch of FetchCoin that marks a fetched spent coin FRESH is never      *)
(* taken.                                                                  *)
(***************************************************************************)
FetchCoin(cache, base, o) ==
    IF cache[o] # NoEntry \/ base[o] = Spent
    THEN cache
    ELSE [cache EXCEPT ![o] = [coin |-> base[o], flags |-> {}]]

FetchUsage(cache, base, o) ==
    IF cache[o] # NoEntry \/ base[o] = Spent THEN 0 ELSE CoinUsage(base[o])

(***************************************************************************)
(* AddCoin.  emplace() finds the entry or makes one with a spent coin and  *)
(* no flags.  Without possible_overwrite the entry must be spent (else     *)
(* logic_error), and it is FRESH unless it was DIRTY: a spent DIRTY entry  *)
(* still has to be written to the parent.                                  *)
(***************************************************************************)
Emplaced(cache, o) ==
    IF cache[o] = NoEntry THEN [coin |-> Spent, flags |-> {}] ELSE cache[o]

AddCoinThrows(cache, o, c, overwrite) ==
    /\ c \notin Unspendable
    /\ ~overwrite
    /\ Emplaced(cache, o).coin # Spent

(* Mutant: FRESH although the coin may be overwriting one of the parent's. *)
AddedFlagsOverwriteFresh(e, overwrite) ==
    e.flags \cup {"DIRTY"} \cup (IF ~IsDirty(e) THEN {"FRESH"} ELSE {})

AddedFlags(e, overwrite) ==
    e.flags \cup {"DIRTY"}
            \cup (IF ~overwrite /\ ~IsDirty(e) THEN {"FRESH"} ELSE {})

AddCoin(cache, o, c, overwrite) ==
    IF c \in Unspendable
    THEN cache
    ELSE [cache EXCEPT ![o] =
            [coin |-> c, flags |-> AddedFlags(Emplaced(cache, o), overwrite)]]

AddUsage(cache, o, c) ==
    IF c \in Unspendable THEN 0 ELSE CoinUsage(c) - EntryUsage(cache[o])

(***************************************************************************)
(* SpendCoin, after its FetchCoin: a FRESH entry is forgotten, any other   *)
(* is cleared and becomes DIRTY.                                           *)
(***************************************************************************)
SpentEntry(e) ==
    IF IsFresh(e) THEN NoEntry
    ELSE [coin |-> Spent, flags |-> e.flags \cup {"DIRTY"}]

SpendCoin(cache, o) ==
    IF cache[o] = NoEntry THEN cache
    ELSE [cache EXCEPT ![o] = SpentEntry(cache[o])]

SpendUsage(cache, o) == - EntryUsage(cache[o])

-----------------------------------------------------------------------------
(***************************************************************************)
(* BatchWrite: the entries of a child cache are merged into this one.      *)
(* Only DIRTY child entries matter.  An entry this cache lacks is created  *)
(* (FRESH if the child's was), unless it is FRESH and spent.  For an entry *)
(* it has: a spent child entry over a FRESH one deletes it; otherwise the  *)
(* coin is replaced and the entry becomes DIRTY, without copying FRESH.    *)
(***************************************************************************)
(* Mutant: the child's FRESH flag is copied onto the entry it modifies.    *)
MergeEntryCopiesFresh(us, them) ==
    IF them = NoEntry THEN us
    ELSE IF ~IsDirty(them) THEN us
    ELSE IF us = NoEntry
         THEN IF IsFresh(them) /\ them.coin = Spent
              THEN NoEntry
              ELSE [coin |-> them.coin,
                    flags |-> {"DIRTY"} \cup (them.flags \cap {"FRESH"})]
    ELSE IF IsFresh(us) /\ them.coin = Spent
         THEN NoEntry
    ELSE [coin |-> them.coin, flags |-> us.flags \cup them.flags]

MergeEntry(us, them) ==
    IF them = NoEntry THEN us
    ELSE IF ~IsDirty(them) THEN us
    ELSE IF us = NoEntry
         THEN IF IsFresh(them) /\ them.coin = Spent
              THEN NoEntry
              ELSE [coin |-> them.coin,
                    flags |-> {"DIRTY"} \cup (them.flags \cap {"FRESH"})]
    ELSE IF IsFresh(us) /\ them.coin = Spent
         THEN NoEntry
    ELSE [coin |-> them.coin, flags |-> us.flags \cup {"DIRTY"}]

BatchWrite(us, them) == [o \in Outpoint |-> MergeEntry(us[o], them[o])]

(* "FRESH flag misapplied to cache entry for base transaction with         *)
(* spendable outputs": the logic_error of BatchWrite.                      *)
BatchWriteThrows(us, them) ==
    \E o \in Outpoint :
        /\ them[o] # NoEntry
        /\ IsDirty(them[o]) /\ IsFresh(them[o])
        /\ us[o] # NoEntry
        /\ us[o].coin # Spent

(* Mutant: the replaced coin's usage is not given back.                    *)
MergeEntryUsageLeaks(us, them) ==
    IF them = NoEntry THEN 0
    ELSE IF ~IsDirty(them) THEN 0
    ELSE IF us # NoEntry /\ IsFresh(us) /\ them.coin = Spent
         THEN - CoinUsage(us.coin)
    ELSE IF us = NoEntry /\ IsFresh(them) /\ them.coin = Spent
         THEN 0
    ELSE CoinUsage(them.coin)

(* The adjustments of cachedCoinsUsage along the same branches.            *)
MergeEntryUsage(us, them) ==
    IF them = NoEntry THEN 0
    ELSE IF ~IsDirty(them) THEN 0
    ELSE IF us = NoEntry
         THEN IF IsFresh(them) /\ them.coin = Spent
              THEN 0 ELSE CoinUsage(them.coin)
    ELSE IF IsFresh(us) /\ them.coin = Spent
         THEN - CoinUsage(us.coin)
    ELSE CoinUsage(them.coin) - CoinUsage(us.coin)

MergeUsage(us, them) ==
    MapThenSumSet(LAMBDA o : MergeEntryUsage(us[o], them[o]), Outpoint)

(***************************************************************************)
(* CCoinsViewDB::BatchWrite on one key: DIRTY entries are erased or        *)
(* written, others skipped.                                                *)
(***************************************************************************)
WriteKey(disk, e) ==
    IF e = NoEntry THEN disk
    ELSE IF IsDirty(e) THEN e.coin ELSE disk

DBBatchWrite(disk, cache) ==
    [o \in Outpoint |-> WriteKey(disk[o], cache[o])]

(* Uncache drops an entry that has no flags at all.                        *)
Uncache(cache, o) ==
    IF cache[o] = NoEntry THEN cache
    ELSE IF cache[o].flags = {} THEN [cache EXCEPT ![o] = NoEntry] ELSE cache

UncacheUsage(cache, o) ==
    IF cache[o] = NoEntry THEN 0
    ELSE IF cache[o].flags = {} THEN - CoinUsage(cache[o].coin) ELSE 0

-----------------------------------------------------------------------------
(* The entries of a cache are sound over a parent that answers base: a     *)
(* FRESH entry lies over no unspent coin, an entry that is not DIRTY has   *)
(* the parent's coin, and a spent coin is kept only to be written back.    *)
SoundEntry(e, c) ==
    e # NoEntry =>
        /\ IsFresh(e) => c = Spent
        /\ ~IsDirty(e) => e.coin = c
        /\ e.coin = Spent => IsDirty(e) /\ ~IsFresh(e)

SoundOver(cache, base) == \A o \in Outpoint : SoundEntry(cache[o], base[o])
=============================================================================
