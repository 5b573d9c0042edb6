----------------------------- MODULE BlockCoins -----------------------------
(***************************************************************************)
(* What a block does to a coins view (validation.cpp): ConnectBlock with   *)
(* its undo record, DisconnectBlock, and the RollforwardBlock of a replay. *)
(* A transaction is the set of outpoints it spends and the set it creates; *)
(* the first of a block is the coinbase.  A coin is known by the height of *)
(* the block that created it: its output follows from the outpoint.        *)
(*                                                                         *)
(* Each operator takes the entries of a cache and what its parent answers, *)
(* and returns the entries afterwards, as the operators of CoinsView do.   *)
(* A loop over the outpoints of a transaction treats each on its own; the  *)
(* loops over transactions are the functions ConnectTxs, DisconnectTxs and *)
(* RollforwardTxs, from the number of transactions done to the state.      *)
(***************************************************************************)
EXTENDS CoinsView, Sequences, Functions

CONSTANTS Block, Genesis, Null,
          Parent,  \* pprev, Null for the genesis block
          Height,  \* nHeight
          Vtx      \* the transactions of each block, in order

Tx == [vin: SUBSET Outpoint, vout: SUBSET Outpoint]

ASSUME BlockAssumption ==
    /\ Genesis \in Block /\ Null \notin Block
    /\ Parent \in [Block -> Block \cup {Null}]
    /\ \A b \in Block : Parent[b] = Null <=> b = Genesis
    /\ Height \in [Block -> Nat]
    /\ \A b \in Block \ {Genesis} : Height[b] = Height[Parent[b]] + 1
    /\ \A b \in Block : Height[b] \in Coin \ Unspendable
    /\ Vtx \in [Block -> Seq(Tx)]
    /\ \A b \in Block : Vtx[b] # <<>> /\ Vtx[b][1].vin = {}

IsCoinBase(tx) == tx.vin = {}

HaveCoin(view, base, o) == Answers(view, base)[o] # Spent

-----------------------------------------------------------------------------
(* SpendCoin with the FetchCoin it begins with.                            *)
FetchAndSpend(view, base, o) == SpendCoin(FetchCoin(view, base, o), o)

SpendCoins(view, base, S) ==
    [o \in Outpoint |-> IF o \in S THEN FetchAndSpend(view, base, o)[o]
                        ELSE view[o]]

(***************************************************************************)
(* AddCoins.  With check the cache is asked whether each output is an      *)
(* overwrite; without, only a coinbase may be one.                         *)
(***************************************************************************)
AddOutput(view, base, o, h, coinbase, check) ==
    IF check
    THEN AddCoin(FetchCoin(view, base, o), o, h, HaveCoin(view, base, o))
    ELSE AddCoin(view, o, h, coinbase)

AddCoins(view, base, tx, h, check) ==
    [o \in Outpoint |->
        IF o \in tx.vout
        THEN AddOutput(view, base, o, h, IsCoinBase(tx), check)[o]
        ELSE view[o]]

UpdateCoins(view, base, tx, h) ==
    AddCoins(SpendCoins(view, base, tx.vin), base, tx, h, FALSE)

(* No coin: also an undo record that has nothing in it yet.                *)
NoCoins == [o \in Outpoint |-> Spent]

(***************************************************************************)
(* ConnectBlock: every transaction's inputs must be unspent when its turn  *)
(* comes (CheckTxInputs); the coins it spends go to the undo record.  The  *)
(* genesis block is not applied.                                           *)
(***************************************************************************)
ConnectTx(s, base, tx, h) ==
    LET answers == Answers(s.view, base) IN
    IF ~s.ok \/ \E o \in tx.vin : answers[o] = Spent
    THEN [ok |-> FALSE, view |-> s.view, undo |-> s.undo]
    ELSE [ok   |-> TRUE,
          view |-> UpdateCoins(s.view, base, tx, h),
          undo |-> [o \in Outpoint |-> IF o \in tx.vin THEN answers[o]
                                       ELSE s.undo[o]]]

ConnectTxs(view, base, b) ==
    LET after[n \in 0 .. Len(Vtx[b])] ==
            IF n = 0 THEN [ok |-> TRUE, view |-> view, undo |-> NoCoins]
            ELSE ConnectTx(after[n - 1], base, Vtx[b][n], Height[b])
    IN  after

ConnectBlock(view, base, b) ==
    ConnectTxs(view, base, b)[IF b = Genesis THEN 0 ELSE Len(Vtx[b])]

(***************************************************************************)
(* DisconnectBlock: transactions in reverse order, the outputs of each are *)
(* spent (unclean unless they match the block) and its inputs restored     *)
(* from the undo record (unclean if one is there).  The record is the one  *)
(* ConnectBlock made for this block, read under a checksum over the hash   *)
(* of its parent, so it has a coin for every input, and no coin is of      *)
(* height 0, for the genesis block adds none: the exits for records of     *)
(* another size and for coins without a height are not reached.            *)
(***************************************************************************)
ApplyTxInUndo(view, base, o, undo) ==
    AddCoin(FetchCoin(view, base, o), o, undo[o], HaveCoin(view, base, o))

DisconnectTx(s, base, tx, h, undo) ==
    LET spent == SpendCoins(s.view, base, tx.vout) IN
    [clean |-> /\ s.clean
               /\ \A o \in tx.vout : Answers(s.view, base)[o] = h
               /\ \A o \in tx.vin : ~HaveCoin(spent, base, o),
     view  |-> [o \in Outpoint |->
                    IF o \in tx.vin
                    THEN ApplyTxInUndo(spent, base, o, undo)[o]
                    ELSE spent[o]]]

DisconnectTxs(view, base, b, undo) ==
    LET after[n \in 0 .. Len(Vtx[b])] ==
            IF n = 0 THEN [clean |-> TRUE, view |-> view]
            ELSE DisconnectTx(after[n - 1], base, Vtx[b][Len(Vtx[b]) + 1 - n],
                              Height[b], undo)
    IN  after

DisconnectBlock(view, base, b, undo) ==
    DisconnectTxs(view, base, b, undo)[Len(Vtx[b])]

(***************************************************************************)
(* RollforwardBlock of ReplayBlocks: no input checks, every addition may   *)
(* be an overwrite.                                                        *)
(***************************************************************************)
RollforwardTx(view, base, tx, h) ==
    AddCoins(SpendCoins(view, base, tx.vin), base, tx, h, TRUE)

RollforwardTxs(view, base, b) ==
    LET after[n \in 0 .. Len(Vtx[b])] ==
            IF n = 0 THEN view
            ELSE RollforwardTx(after[n - 1], base, Vtx[b][n], Height[b])
    IN  after

RollforwardBlock(view, base, b) == RollforwardTxs(view, base, b)[Len(Vtx[b])]

-----------------------------------------------------------------------------
(* The reference: the UTXO set of the chain that ends in b, with no caches,*)
(* flags or undo data, and those between the transactions of a block.      *)
ApplyTx(utxo, tx, h) ==
    [o \in Outpoint |-> IF o \in tx.vout THEN h
                        ELSE IF o \in tx.vin THEN Spent ELSE utxo[o]]

ApplyTxs(utxo, b) ==
    LET after[n \in 0 .. Len(Vtx[b])] ==
            IF n = 0 THEN utxo
            ELSE ApplyTx(after[n - 1], Vtx[b][n], Height[b])
    IN  after

UtxoAt[b \in Block \cup {Null}] ==
    IF b \in {Null, Genesis} THEN NoCoins
    ELSE ApplyTxs(UtxoAt[Parent[b]], b)[Len(Vtx[b])]

(***************************************************************************)
(* No two transactions of a chain have the same id, so no block creates an *)
(* output that is unspent already.  An outpoint names its transaction by   *)
(* its hash, and a coinbase holds its height (ContextualCheckBlock).       *)
(***************************************************************************)
ASSUME DistinctTxids ==
    \A b \in Block :
        /\ \A i, j \in DOMAIN Vtx[b] :
                i # j => Vtx[b][i].vout \cap Vtx[b][j].vout = {}
        /\ b # Genesis =>
                \A i \in DOMAIN Vtx[b], o \in Outpoint :
                    o \in Vtx[b][i].vout => UtxoAt[Parent[b]][o] = Spent

(* The chain that ends in b, from the genesis block.                       *)
Chain[b \in Block \cup {Null}] ==
    IF b = Null THEN <<>> ELSE Append(Chain[Parent[b]], b)
=============================================================================
