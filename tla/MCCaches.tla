------------------------------ MODULE MCCaches ------------------------------
(***************************************************************************)
(* The layers that keep the state of the chain between the blocks and the  *)
(* databases, each on an instance of its own: the coin cache, the caches   *)
(* of restricted tags and of asset metadata, the address index.  They      *)
(* share no state; scene says which of them moves.                         *)
(***************************************************************************)
EXTENDS CoinsCache, TLC

CONSTANTS o1, o2, c1, c2, burn, b1, b2,   \* coins
          freeze, root, sub,              \* tags
          i1, i2, v1, v2,                 \* IPFS hashes, verifier strings
          t1, t2, t3, t4                  \* indexed transactions

VARIABLES scene,
          tagChain, tagAdd, tagUndo, rootAdd, tagLru, tagDb,
          metaChain, passets, metaLru, metaDb, verLru, verDb, metaCoins,
          flushing, spoilt, metaCrashes,
          indexChain, addressIndex, unspentIndex, spentIndex, indexCoins,
          lost, indexCrashes

tagVars  == <<tagChain, tagAdd, tagUndo, rootAdd, tagLru, tagDb>>
metaVars == <<metaChain, passets, metaLru, metaDb, verLru, verDb, metaCoins,
              flushing, spoilt, metaCrashes>>
indexVars == <<indexChain, addressIndex, unspentIndex, spentIndex, indexCoins,
               lost, indexCrashes>>

-----------------------------------------------------------------------------
(* Two outpoints, two spendable coins of different size, one unspendable.  *)
MCOutpoint == {o1, o2}
MCCoin == {c1, c2, burn}
MCUnspendable == {burn}
MCSize == (c1 :> 1) @@ (c2 :> 3) @@ (burn :> 2)
MCBlock == {b1, b2}

(* A freeze, a root qualifier and its sub-qualifier.                       *)
MCTag == {freeze, root, sub}
MCRoot == [t \in MCTag |-> IF t = sub THEN root ELSE Null]

Tags == INSTANCE AssetTags
    WITH Tag <- MCTag, Root <- MCRoot, MaxHeight <- 3, MaxCommands <- 2,
         chain <- tagChain, add <- tagAdd, undo <- tagUndo, lru <- tagLru, db <- tagDb

(* Two issues of the name, one of which allows no reissue of an amount,    *)
(* and reissues of an amount, of a hash and of a verifier.                 *)
IssueOf(reissuable, ipfs, verifier) ==
    [op |-> "issue", nAmount |-> 1, nReissuable |-> reissuable,
     strIPFSHash |-> ipfs, verifier |-> verifier]
Reissue(amount, ipfs, verifier) ==
    [op |-> "reissue", nAmount |-> amount, nReissuable |-> 1,
     strIPFSHash |-> ipfs, verifier |-> verifier]
MetaTx == {IssueOf(1, i1, v1), IssueOf(0, Null, v1),
           Reissue(1, Null, Null), Reissue(0, i2, Null), Reissue(0, Null, v2)}
MetaBlock == {b \in [1 .. 1 -> MetaTx] \cup [1 .. 2 -> MetaTx] : IsInjective(b)}

Meta == INSTANCE AssetMeta
    WITH Tx <- MetaTx, Block <- MetaBlock, MAX_MONEY <- 2, MaxHeight <- 3, MaxCrashes <- 1,
         chain <- metaChain, p <- passets, lru <- metaLru, db <- metaDb,
         coins <- metaCoins, crashes <- metaCrashes

(* t1 is spent by t2 or, in two inputs, by t3; t4 spends t2.               *)
IndexTx == {t1, t2, t3, t4}
IndexIns == (t1 :> <<>>) @@ (t2 :> <<<<t1, 0>>>>)
            @@ (t3 :> <<<<t1, 0>>, <<t1, 1>>>>) @@ (t4 :> <<<<t2, 0>>>>)
IndexOuts == (t1 :> 2) @@ (t2 :> 2) @@ (t3 :> 1) @@ (t4 :> 1)

Address == INSTANCE AddressIndex
    WITH Tx <- IndexTx, Ins <- IndexIns, nOuts <- IndexOuts,
         PubKey <- {<<t1, 1>>}, NoAddress <- {<<t2, 1>>},
         MaxHeight <- 3, MaxTxs <- 2, MaxCrashes <- 1,
         chain <- indexChain, coins <- indexCoins, crashes <- indexCrashes

ASSUME Tags!TagAssumption /\ Meta!MetaAssumption /\ Address!IndexAssumption

-----------------------------------------------------------------------------
MCInit ==
    /\ scene \in {"coins", "tags", "meta", "address"}
    /\ Init /\ Tags!Init /\ Meta!Init /\ Address!Init
    /\ scene # "coins" => dbBest = b1 /\ \A o \in Outpoint : db[o] = Spent

MCNext ==
    /\ \/ scene = "coins" /\ Next /\ UNCHANGED <<tagVars, metaVars, indexVars>>
       \/ scene = "tags" /\ Tags!Next /\ UNCHANGED <<vars, metaVars, indexVars>>
       \/ scene = "meta" /\ Meta!Next /\ UNCHANGED <<vars, tagVars, indexVars>>
       \/ scene = "address" /\ Address!Next /\ UNCHANGED <<vars, tagVars, metaVars>>
    /\ UNCHANGED scene

(* Nothing is claimed of the metadata once they are spoilt.                *)
Unspoilt == scene = "meta" => ~spoilt

MCSpec == MCInit /\ [][MCNext]_<<vars, tagVars, metaVars, indexVars, scene>>

-----------------------------------------------------------------------------
(* The state of every layer keeps its type.                                *)
TypesOK ==
    CASE scene = "coins" -> TypeOK
      [] scene = "tags" -> Tags!TypeOK
      [] scene = "meta" -> Meta!TypeOK
      [] scene = "address" -> Address!TypeOK

(* Whatever blocks were connected and undone, and whenever the caches were *)
(* dumped or evicted in between, a tag that is no root of others has the   *)
(* status the active chain gives it (CheckForAddressQualifier and its      *)
(* like).                                                                  *)
StatusExact == scene = "tags" => Tags!StatusExact

(* No pending change of passets is both to be made and to be undone, of    *)
(* which the lookups would see only the one they ask for first, and the    *)
(* least-recently-used caches have only what their databases have.         *)
CachesSound ==
    /\ scene = "tags" => Tags!OneVerdict /\ Tags!LruBacked
    /\ scene = "meta" => Meta!OneVerdict /\ Meta!LruBacked

(* An asset exists exactly if the active chain issues it, with the         *)
(* metadata and the verifier string that its blocks give it                *)
(* (GetAssetMetaDataIfExists, GetAssetVerifierStringIfExists), and between *)
(* flushes the asset databases say what the chain of the coins database    *)
(* says; until the process dies between the write of the coins and the     *)
(* dump of the assets, a block gives two verifier strings, a block is      *)
(* undone whose first undo record lacks what a later one has, an issue     *)
(* meets the reissued data of another one, or a reissue of an asset that   *)
(* was not reissuable is undone.                                           *)
MetaExact == scene = "meta" => Meta!MetaExact /\ Meta!DatabasesAgree

(* The address and unspent indices have exactly the entries of the active  *)
(* chain and the spent index those of its inputs, after any reorganization *)
(* and, after a crash, once the node is back on the chain it had           *)
(* (ConnectBlock, DisconnectBlock).  Outputs that pay to a public key are  *)
(* left out of the first two: undoing an input that spends one restores    *)
(* neither.                                                                *)
IndexExact == scene = "address" => Address!IndexExact
=============================================================================
