----------------------------- MODULE ChainIndex -----------------------------
(***************************************************************************)
(* The block index as a tree with skip pointers, the active chain as an    *)
(* array over it, and the searches in both (chain.cpp, chain.h).  The tree *)
(* has two branches: block <<i, h>> of branch i at height h, where up to   *)
(* ForkHeight there is branch 1 only.                                      *)
(***************************************************************************)
EXTENDS Integers, Sequences, Bitwise, TLC

CONSTANTS ForkHeight,  \* the last height that both branches share
          MaxHeight,   \* bound on the height of a block
          Null

VARIABLES top,    \* the height of each branch
          pskip,  \* the skip pointer of every block
          vChain  \* the active chain: the block of height h is vChain[h + 1]

vars == <<top, pskip, vChain>>

At(b, h) == <<IF h <= ForkHeight THEN 1 ELSE b[1], h>>
nHeight(b) == b[2]
pprev(b) == IF b[2] = 0 THEN Null ELSE At(b, b[2] - 1)
GenesisBlock == <<1, 0>>
Index == {<<1, h>> : h \in 0 .. top[1]}
            \cup {<<2, h>> : h \in ForkHeight + 1 .. top[2]}

Init ==
    /\ top = <<0, ForkHeight>> /\ pskip = (GenesisBlock :> Null) /\ vChain = <<GenesisBlock>>

-----------------------------------------------------------------------------
InvertLowestOne(n) == n & (n - 1)

GetSkipHeight(height) ==
    IF height < 2 THEN 0
    ELSE IF height % 2 = 1 THEN InvertLowestOne(InvertLowestOne(height - 1)) + 1
    ELSE InvertLowestOne(height)

(* The loop of GetAncestor, which counts the height beside the pointer:    *)
(* follow pskip only if pprev->pskip isn't better than pskip->pprev.       *)
UsesSkip(skip, w, heightWalk, height) ==
    LET heightSkip == GetSkipHeight(heightWalk)
        heightSkipPrev == GetSkipHeight(heightWalk - 1)
    IN /\ skip[w] # Null
       /\ \/ heightSkip = height
          \/ heightSkip > height
                /\ ~(heightSkipPrev < heightSkip - 2 /\ heightSkipPrev >= height)

RECURSIVE Walk(_, _, _, _)
Walk(skip, w, heightWalk, height) ==
    IF heightWalk <= height THEN w
    ELSE IF UsesSkip(skip, w, heightWalk, height)
         THEN Walk(skip, skip[w], GetSkipHeight(heightWalk), height)
         ELSE Walk(skip, pprev(w), heightWalk - 1, height)

GetAncestor(skip, b, height) ==
    IF height > nHeight(b) \/ height < 0 THEN Null ELSE Walk(skip, b, nHeight(b), height)

BuildSkip(b) == GetAncestor(pskip, pprev(b), GetSkipHeight(nHeight(b)))

(* AddToBlockIndex: a block on top of a branch.                            *)
AddBlock(i) ==
    /\ top[i] < MaxHeight
    /\ i = 2 => top[1] >= ForkHeight
    /\ LET b == At(<<i, 0>>, top[i] + 1) IN
       /\ top' = [top EXCEPT ![i] = @ + 1]
       /\ pskip' = (b :> BuildSkip(b)) @@ pskip
    /\ UNCHANGED vChain

-----------------------------------------------------------------------------
(* SetTip overwrites the array from the tip down to the first entry that   *)
(* is right already; resize has cut it, or filled it with null pointers.   *)
Resized(n) == [i \in 1 .. n |-> IF i <= Len(vChain) THEN vChain[i] ELSE Null]

Overwritten(b) ==
    LET r == Resized(nHeight(b) + 1)
        stop == {i \in DOMAIN r : r[i] = At(b, i - 1)}
        last == IF stop = {} THEN 0 ELSE CHOOSE i \in stop : \A j \in stop : j <= i
    IN [i \in DOMAIN r |-> IF i <= last THEN r[i] ELSE At(b, i - 1)]

SetTip(b) ==
    /\ b \in Index /\ vChain' = Overwritten(b)
    /\ UNCHANGED <<top, pskip>>

Height == Len(vChain) - 1
InChain(b) == b # Null /\ nHeight(b) <= Height /\ vChain[nHeight(b) + 1] = b

(* GetLocator: ten steps of one block, then twice as far every time.       *)
RECURSIVE Locator(_, _, _)
Locator(b, nStep, vHave) ==
    LET have == Append(vHave, b)
        h == IF nHeight(b) > nStep THEN nHeight(b) - nStep ELSE 0
        next == IF InChain(b) THEN vChain[h + 1] ELSE GetAncestor(pskip, b, h)
    IN IF nHeight(b) = 0 THEN have
       ELSE Locator(next, IF Len(have) > 10 THEN nStep * 2 ELSE nStep, have)

GetLocator(b) == Locator(b, 1, <<>>)

(* Mutant: the first entry is taken whether in the chain or not.           *)
FindForkAboveTip(locator) ==
    LET hits == {i \in DOMAIN locator : InChain(locator[i])} IN
    IF hits = {} THEN GenesisBlock
    ELSE LET i == CHOOSE i \in hits : \A j \in hits : i <= j IN
         IF i = 1 THEN locator[i] ELSE locator[i - 1]

(* FindForkInGlobalIndex: the first entry that is in the active chain, or  *)
(* the tip itself when an entry is above it.  Hashes of blocks that are    *)
(* not in mapBlockIndex are passed over.                                   *)
FindForkInGlobalIndex(locator) ==
    LET tip == vChain[Len(vChain)]
        Hit(i) == /\ locator[i] \in Index
                  /\ InChain(locator[i]) \/ GetAncestor(pskip, locator[i], Height) = tip
        hits == {i \in DOMAIN locator : Hit(i)}
    IN IF hits = {} THEN GenesisBlock
       ELSE LET i == CHOOSE i \in hits : \A j \in hits : i <= j
            IN IF InChain(locator[i]) THEN locator[i] ELSE tip

RECURSIVE BackToChain(_)
BackToChain(b) == IF b = Null \/ InChain(b) THEN b ELSE BackToChain(pprev(b))

(* CChain::FindFork.                                                       *)
FindFork(b) ==
    BackToChain(IF nHeight(b) > Height THEN GetAncestor(pskip, b, Height) ELSE b)

Next == (\E i \in {1, 2} : AddBlock(i)) \/ (\E b \in Index : SetTip(b))

Spec == Init /\ [][Next]_vars

-----------------------------------------------------------------------------
Tops == {At(<<i, 0>>, top[i]) : i \in {1, 2}} \cap Index

(* Every variable has its type.                                            *)
TypeOK ==
    /\ top \in [{1, 2} -> 0 .. MaxHeight]
    /\ DOMAIN pskip = Index
    /\ \A b \in Index : nHeight(b) > 0 => pskip[b] \in Index
    /\ \A i \in DOMAIN vChain : vChain[i] \in Index

(* GetAncestor finds the block at every height below a block of either     *)
(* branch, by whatever mixture of pskip and pprev; a pskip on the wrong    *)
(* branch or at the wrong height would take it elsewhere.                  *)
AncestorExact ==
    \A b \in Tops : \A h \in 0 .. nHeight(b) : GetAncestor(pskip, b, h) = At(b, h)

(* The array holds the chain of its last block, whichever tips it had      *)
(* before.                                                                 *)
ChainExact == \A i \in DOMAIN vChain : vChain[i] = At(vChain[Len(vChain)], i - 1)

ForkPoint(b) ==
    LET both == {h \in 0 .. nHeight(b) : InChain(At(b, h))}
    IN At(b, CHOOSE h \in both : \A k \in both : k <= h)

(* FindFork finds the last block in common with the active chain.          *)
FindForkExact == \A b \in Tops : FindFork(b) = ForkPoint(b)

(* The locator of a peer whose tip is b, which may be on top of blocks     *)
(* that are unknown here: GetLocator of the peer.                          *)
RECURSIVE PeerLocator(_, _, _)
PeerLocator(b, nStep, vHave) ==
    LET have == Append(vHave, b)
        h == IF nHeight(b) > nStep THEN nHeight(b) - nStep ELSE 0
    IN IF nHeight(b) = 0 THEN have
       ELSE PeerLocator(At(b, h), IF Len(have) > 10 THEN nStep * 2 ELSE nStep, have)

Unknown == {At(<<i, 0>>, h) : i \in {1, 2}, h \in 1 .. MaxHeight} \ Index

(* The place where headers are sent from, for a locator that starts at b,  *)
(* is a block of both chains, and no further below the last one of both    *)
(* than b is above it; also when the first blocks of the locator are       *)
(* unknown here.                                                           *)
LocatorFindsFork ==
    \A b \in Tops \cup Unknown :
        LET locator == IF b \in Index THEN GetLocator(b) ELSE PeerLocator(b, 1, <<>>)
            fork == FindForkInGlobalIndex(locator)
            last == nHeight(ForkPoint(b))
        IN /\ InChain(fork) /\ fork = At(b, nHeight(fork))
           /\ last - nHeight(fork) <= nHeight(b) - last
=============================================================================
