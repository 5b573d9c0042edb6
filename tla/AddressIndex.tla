----------------------------- MODULE AddressIndex -----------------------------
(***************************************************************************)
(* The optional indexes by address (-addressindex) and of spent outputs    *)
(* (-spentindex).  ConnectBlock and DisconnectBlock (validation.cpp) write *)
(* them straight to the block tree database (txdb.cpp), one batch per      *)
(* index and block, while the chain state itself reaches the disk only     *)
(* when the coins are flushed.                                             *)
(***************************************************************************)
EXTENDS Naturals, SequencesExt

CONSTANTS Tx, Null,
          Ins,        \* the outputs a transaction spends
          nOuts,      \* the number of outputs of a transaction
          PubKey,     \* outputs that pay to a public key, not to its hash
          NoAddress,  \* outputs that pay to no address
          MaxHeight,  \* bound on the blocks above the first
          MaxTxs,     \* bound on the transactions of a block
          MaxCrashes

IndexAssumption ==
    /\ Null \notin Tx
    /\ nOuts \in [Tx -> Nat] /\ DOMAIN Ins = Tx
    /\ \A t \in Tx : \A o \in ToSet(Ins[t]) : o[1] \in Tx /\ o[2] < nOuts[o[1]]
    /\ {MaxHeight, MaxTxs, MaxCrashes} \subseteq Nat

VARIABLES
    chain,         \* the transactions of each block of the active chain
    addressIndex,  \* DB_ADDRESSINDEX
    unspentIndex,  \* DB_ADDRESSUNSPENTINDEX
    spentIndex,    \* DB_SPENTINDEX
    coins,         \* the chain of the coins database
    lost,          \* the chain that a crash took back, Null if none
    crashes

vars == <<chain, addressIndex, unspentIndex, spentIndex, coins, lost, crashes>>

Outputs(t) == {<<t, k>> : k \in 0 .. nOuts[t] - 1}
Inputs(t) == 1 .. Len(Ins[t])
HasAddress(o) == o \notin NoAddress

(* CAddressIndexKey without the address, which the outpoint determines.    *)
Receiving(t, h, o) == [tx |-> t, height |-> h, of |-> o, spending |-> FALSE]
Spending(t, h, o) == [tx |-> t, height |-> h, of |-> o, spending |-> TRUE]

(* The height at which an output was made, which a coin remembers.         *)
HeightOf(c, t) == CHOOSE h \in DOMAIN c : t \in ToSet(c[h])

Init ==
    /\ chain = <<>> /\ coins = <<>>
    /\ addressIndex = {} /\ unspentIndex = {} /\ spentIndex = {}
    /\ lost = Null /\ crashes = 0

-----------------------------------------------------------------------------
(***************************************************************************)
(* UpdateAddressUnspentIndex and UpdateSpentIndex apply a batch in order;  *)
(* an entry with a null value erases its key.                              *)
(***************************************************************************)
Update(index, batch) ==
    FoldLeft(LAMBDA S, e : {x \in S : x.out # e.out}
                           \cup (IF e.value = Null THEN {} ELSE {e}),
             index, batch)

Entry(o, v) == [out |-> o, value |-> v]

(* The entries of a block that is connected, in the order of its           *)
(* transactions, of each first the inputs and then the outputs.            *)
SpentOuts(t) == SelectSeq(Ins[t], HasAddress)
MadeOuts(t) == SelectSeq([k \in 1 .. nOuts[t] |-> <<t, k - 1>>], HasAddress)

ConnectUnspent(t, h) ==
    [k \in DOMAIN SpentOuts(t) |-> Entry(SpentOuts(t)[k], Null)]
    \o [k \in DOMAIN MadeOuts(t) |-> Entry(MadeOuts(t)[k], h)]

ConnectKeys(t, h) ==
    {Spending(t, h, o) : o \in ToSet(SpentOuts(t))}
    \cup {Receiving(t, h, o) : o \in ToSet(MadeOuts(t))}

ConnectSpent(t, h) ==
    [j \in Inputs(t) |-> Entry(Ins[t][j], [tx |-> t, input |-> j, height |-> h])]

(* Mutant: the outputs of the block alone are undone.                      *)
UnspentOutputsOnly(t, c) ==
    [k \in DOMAIN MadeOuts(t) |-> Entry(MadeOuts(t)[k], Null)]

(* The same of a block that is undone: the outputs and then the inputs, in *)
(* reverse.  For an input that spent an output to a public key the entries *)
(* are those of a received output of the transaction that spent it.        *)
UndoneUnspent(t, c) ==
    LET made == Reverse(MadeOuts(t))
        spent == Reverse(SpentOuts(t))
        j(o) == CHOOSE i \in Inputs(t) : Ins[t][i] = o
    IN  [k \in DOMAIN made |-> Entry(made[k], Null)]
        \o [k \in DOMAIN spent |->
               IF spent[k] \in PubKey THEN Entry(<<t, j(spent[k]) - 1>>, Null)
               ELSE Entry(spent[k], HeightOf(c, spent[k][1]))]

UndoneKeys(t, h) ==
    {Spending(t, h, o) : o \in ToSet(SpentOuts(t)) \ PubKey}
    \cup {Receiving(t, h, o) : o \in ToSet(MadeOuts(t))}

-----------------------------------------------------------------------------
SpentOn(c) == UNION {ToSet(Ins[t]) : t \in UNION {ToSet(c[h]) : h \in DOMAIN c}}
MadeOn(c) == UNION {Outputs(t) : t \in UNION {ToSet(c[h]) : h \in DOMAIN c}}

(* CheckTxInputs: a transaction spends what is there and unspent.          *)
Valid(txs) ==
    \A k \in DOMAIN txs :
        LET before == Append(chain, SubSeq(txs, 1, k - 1))
        IN  /\ ToSet(Ins[txs[k]]) \subseteq MadeOn(before) \ SpentOn(before)
            /\ Outputs(txs[k]) \cap MadeOn(before) = {}

(* Back on the chain that a crash took away.                               *)
Found(c) == IF lost = c THEN Null ELSE lost

ConnectBlock(txs) ==
    LET h == Len(chain) + 1
    IN  /\ h <= MaxHeight
        /\ Valid(txs)
        /\ addressIndex' = addressIndex
                           \cup UNION {ConnectKeys(t, h) : t \in ToSet(txs)}
        /\ unspentIndex' = Update(unspentIndex,
               FlattenSeq([k \in DOMAIN txs |-> ConnectUnspent(txs[k], h)]))
        /\ spentIndex' = Update(spentIndex,
               FlattenSeq([k \in DOMAIN txs |-> ConnectSpent(txs[k], h)]))
        /\ chain' = Append(chain, txs)
        /\ lost' = Found(chain')
        /\ UNCHANGED <<coins, crashes>>

(* The spent index has its entries gathered, but they are not written.     *)
DisconnectBlock ==
    LET h == Len(chain)
        undone == Reverse(Last(chain))
    IN  /\ chain # <<>>
        /\ addressIndex' = addressIndex
                           \ UNION {UndoneKeys(t, h) : t \in ToSet(undone)}
        /\ unspentIndex' = Update(unspentIndex,
               FlattenSeq([k \in DOMAIN undone |-> UndoneUnspent(undone[k], chain)]))
        /\ chain' = Front(chain)
        /\ lost' = Found(chain')
        /\ UNCHANGED <<spentIndex, coins, crashes>>

FlushStateToDisk ==
    /\ coins' = chain
    /\ UNCHANGED <<chain, addressIndex, unspentIndex, spentIndex, lost, crashes>>

(* The process dies; the next one starts from the coins database.          *)
Crash ==
    /\ crashes < MaxCrashes
    /\ crashes' = crashes + 1
    /\ chain' = coins
    /\ lost' = IF lost # Null THEN lost ELSE IF coins = chain THEN Null ELSE chain
    /\ UNCHANGED <<addressIndex, unspentIndex, spentIndex, coins>>

Blocks == UNION {[1 .. n -> Tx] : n \in 1 .. MaxTxs}

Next ==
    \/ \E txs \in Blocks : ConnectBlock(txs)
    \/ DisconnectBlock
    \/ FlushStateToDisk
    \/ Crash

Spec == Init /\ [][Next]_vars

-----------------------------------------------------------------------------
(***************************************************************************)
(* Properties.                                                             *)
(***************************************************************************)

(* Every variable has its type.                                            *)
TypeOK ==
    /\ chain \in Seq(Blocks) /\ coins \in Seq(Blocks)
    /\ lost = Null \/ lost \in Seq(Blocks)
    /\ \A k \in addressIndex : k.tx \in Tx /\ k.height \in 1 .. MaxHeight
    /\ \A e \in unspentIndex : e.out \in Outputs(e.out[1]) /\ e.value \in 1 .. MaxHeight
    /\ \A e \in spentIndex : e.out \in ToSet(Ins[e.value.tx])
    /\ crashes \in 0 .. MaxCrashes

Activity(c) == UNION {UNION {ConnectKeys(t, h) : t \in ToSet(c[h])} : h \in DOMAIN c}

Unspent(c) == {Entry(o, HeightOf(c, o[1])) :
                  o \in {x \in MadeOn(c) \ SpentOn(c) : HasAddress(x)}}

(* The activity of every address and its unspent outputs are those of the  *)
(* active chain, after any reorganization, and again after a crash as soon *)
(* as the node is back on the chain it had: blocks connected or undone a   *)
(* second time do no harm; and the spent index names the spender of every  *)
(* output that the chain spends.  Outputs that pay to a public key are     *)
(* left out of the first two: undoing the input that spends one restores   *)
(* neither index.                                                          *)
IndexExact ==
    lost = Null =>
    /\ {k \in addressIndex : k.of \notin PubKey}
          = {k \in Activity(chain) : k.of \notin PubKey}
    /\ {e \in unspentIndex : e.out \notin PubKey}
          = {e \in Unspent(chain) : e.out \notin PubKey}
    /\ \A h \in DOMAIN chain : \A t \in ToSet(chain[h]) :
          ToSet(ConnectSpent(t, h)) \subseteq spentIndex

=============================================================================
