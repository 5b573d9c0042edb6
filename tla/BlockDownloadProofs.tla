------------------------ MODULE BlockDownloadProofs -------------------------
(***************************************************************************)
(* The bookkeeping of the block download is exact, for any number of peers *)
(* and any tree of blocks, of any size.                                    *)
(*                                                                         *)
(* The inductive invariant IInv says of the state of main that             *)
(*   - it has its type (MainState);                                        *)
(*   - the index is closed: the ancestors of a known block are known, the  *)
(*     tip and its ancestors have their data (Closed);                     *)
(*   - map, queues and counters agree (Exact);                             *)
(*   - nothing is missing below a pindexLastCommonBlock (Unskipped);       *)
(*   - no queue is too long (Fits).                                        *)
(* MarkBlockAsInFlight breaks Fits on its own and its callers restore it   *)
(* by what they ask for, so Sound leaves it out and Good adds it.  There   *)
(* is one lemma per operation of BlockDownload on the state, then one per  *)
(* action.  Chain, the loop of FindNextBlocksToDownload and the loops over *)
(* blocks are recursive functions: module Recursion gives their equations  *)
(* and the induction over them.                                            *)
(***************************************************************************)
EXTENDS BlockDownload, Recursion, FiniteSetTheorems

-----------------------------------------------------------------------------
(* The chain of a block: itself and the chain of its parent.               *)
LEMMA ChainDef ==
    /\ Chain \in [Block -> SUBSET Block]
    /\ Chain[Genesis] = {Genesis}
    /\ \A b \in Block \ {Genesis} : Chain[b] = {b} \cup Chain[Parent[b]]
<1> DEFINE D == Block
           R == {Genesis}
           T == SUBSET Block
           Body(g) == [b \in D |-> {b} \cup (IF b = Genesis THEN {} ELSE g[Parent[b]])]
           base == [b \in D |-> {b}]
           F == [b \in D |-> [t \in T |-> {b} \cup t]]
<1>1. Chain = CHOOSE g : g = Body(g)
  BY DEF Chain
<1>2. RecursionOn(D, nHeight, R, Parent, T, base, F)
  <2>1. nHeight \in [D -> Nat]
    BY DownloadAssumption
  <2>2. \A d \in D \ R : Parent[d] \in D /\ nHeight[Parent[d]] < nHeight[d]
    BY DownloadAssumption
  <2>3. \A d \in D \cap R : base[d] \in T
    OBVIOUS
  <2>4. \A d \in D \ R, t \in T : F[d][t] \in T
    OBVIOUS
  <2> HIDE DEF D, R, T, base, F
  <2> QED
    BY <2>1, <2>2, <2>3, <2>4 DEF RecursionOn
<1>3. PICK g : RecursiveOn(g, D, R, Parent, T, base, F)
  <2> HIDE DEF D, R, T, base, F
  <2> QED
    BY <1>2, RankedRecursion
<1>4. g \in [D -> T]
  BY <1>3 DEF RecursiveOn
<1>5. g = Body(g)
  <2>1. ASSUME NEW b \in D
        PROVE  g[b] = {b} \cup (IF b = Genesis THEN {} ELSE g[Parent[b]])
    <3>1. g[b] = IF b \in R THEN base[b] ELSE F[b][g[Parent[b]]]
      BY <1>3, Zenon DEF RecursiveOn
    <3>2. CASE b \in R
      BY <3>1, <3>2
    <3>3. CASE b \notin R
      <4>1. b \in Block /\ Parent[b] \in D
        BY <3>3, DownloadAssumption
      <4> QED
        BY <1>4, <3>1, <3>3, <4>1
    <3> QED
      BY <3>2, <3>3
  <2> QED
    BY <1>4, <2>1
<1>6. Chain = Body(Chain)
  BY <1>1, <1>5, Zenon
<1>7. \A b \in D : Chain[b] = {b} \cup (IF b = Genesis THEN {} ELSE Chain[Parent[b]])
  BY <1>6
<1>8. \A b \in D : Chain[b] \in T
  <2> DEFINE S == {b \in D : Chain[b] \in T}
  <2>1. \A d \in D : (\A e \in D : nHeight[e] < nHeight[d] => e \in S) => d \in S
    <3> SUFFICES ASSUME NEW d \in D, \A e \in D : nHeight[e] < nHeight[d] => e \in S
                 PROVE  Chain[d] \in T
      OBVIOUS
    <3>1. d # Genesis => Parent[d] \in D /\ nHeight[Parent[d]] < nHeight[d]
      BY DownloadAssumption
    <3>2. d # Genesis => Chain[Parent[d]] \in T
      BY <3>1
    <3> QED
      BY <1>7, <3>2
  <2>2. D \subseteq S
    <3> HIDE DEF D, S
    <3>1. nHeight \in [D -> Nat]
      BY DownloadAssumption, Zenon DEF D
    <3> QED
      BY <2>1, <3>1, RankedInduct
  <2> QED
    BY <2>2
<1>9. Chain \in [D -> T]
  BY <1>6, <1>8
<1> QED
  BY <1>7, <1>9, DownloadAssumption

(* Induction along the chains: what holds of the genesis block and of      *)
(* every block whose parent it holds of.                                   *)
LEMMA BlockInduct ==
    ASSUME NEW S, Genesis \in S,
           \A b \in Block \ {Genesis} : Parent[b] \in S => b \in S
    PROVE  Block \subseteq S
<1>1. nHeight \in [Block -> Nat]
  BY DownloadAssumption
<1>2. \A d \in Block : (\A e \in Block : nHeight[e] < nHeight[d] => e \in S) => d \in S
  BY DownloadAssumption
<1> QED
  BY <1>1, <1>2, RankedInduct

(* A chain has its last block and the genesis block; with a block it has   *)
(* that block's chain, which is no higher.                                 *)
LEMMA ChainFacts ==
    ASSUME NEW b \in Block
    PROVE  /\ Chain[b] \in SUBSET Block /\ b \in Chain[b] /\ Genesis \in Chain[b]
           /\ \A c \in Chain[b] : Chain[c] \subseteq Chain[b] /\ nHeight[c] <= nHeight[b]
<1> DEFINE S == {x \in Block : /\ x \in Chain[x] /\ Genesis \in Chain[x]
                               /\ \A c \in Chain[x] : /\ Chain[c] \subseteq Chain[x]
                                                      /\ nHeight[c] <= nHeight[x]}
<1>1. Genesis \in S
  BY ChainDef, DownloadAssumption
<1>2. ASSUME NEW x \in Block \ {Genesis}, Parent[x] \in S PROVE x \in S
  <2>1. Chain[x] = {x} \cup Chain[Parent[x]] /\ Parent[x] \in Block
    BY ChainDef, DownloadAssumption
  <2>2. /\ nHeight[x] = nHeight[Parent[x]] + 1 /\ nHeight[Parent[x]] \in Nat
        /\ \A c \in Block : nHeight[c] \in Nat
    BY <2>1, DownloadAssumption
  <2>3. Chain[Parent[x]] \subseteq Block
    BY <2>1, ChainDef
  <2>4. ASSUME NEW c \in Chain[x] PROVE Chain[c] \subseteq Chain[x] /\ nHeight[c] <= nHeight[x]
    <3>1. CASE c = x
      BY <2>2, <3>1
    <3>2. CASE c \in Chain[Parent[x]]
      <4>1. Chain[c] \subseteq Chain[Parent[x]] /\ nHeight[c] <= nHeight[Parent[x]]
        BY <1>2, <3>2
      <4>2. c \in Block
        BY <2>3, <3>2
      <4> QED
        BY <2>1, <2>2, <4>1, <4>2
    <3> QED
      BY <2>1, <3>1, <3>2
  <2> QED
    BY <1>2, <2>1, <2>4
<1>3. Block \subseteq S
  <2> HIDE DEF S
  <2> QED
    BY <1>1, <1>2, BlockInduct
<1> QED
  BY <1>3, ChainDef

(* Of two blocks of a chain one is in the chain of the other.              *)
LEMMA ChainLinear ==
    ASSUME NEW b \in Block, NEW c \in Chain[b], NEW d \in Chain[b]
    PROVE  c \in Chain[d] \/ d \in Chain[c]
<1> DEFINE S == {x \in Block : \A y, z \in Chain[x] : y \in Chain[z] \/ z \in Chain[y]}
<1>1. Genesis \in S
  BY ChainDef, DownloadAssumption
<1>2. ASSUME NEW x \in Block \ {Genesis}, Parent[x] \in S PROVE x \in S
  <2>1. Chain[x] = {x} \cup Chain[Parent[x]] /\ x \in Chain[x]
    BY ChainDef
  <2> QED
    BY <1>2, <2>1
<1>3. Block \subseteq S
  <2> HIDE DEF S
  <2> QED
    BY <1>1, <1>2, BlockInduct
<1> QED
  BY <1>3

(* CBlockIndex::GetAncestor finds a block of the chain, at every height up *)
(* to that of the block.                                                   *)
LEMMA AncestorFacts ==
    ASSUME NEW b \in Block, NEW h \in 0 .. nHeight[b]
    PROVE  GetAncestor(b, h) \in Chain[b] /\ GetAncestor(b, h) \in Block
<1> DEFINE S == {x \in Block : \A n \in 0 .. nHeight[x] : \E c \in Chain[x] : nHeight[c] = n}
<1>1. Genesis \in S
  BY ChainDef, DownloadAssumption
<1>2. ASSUME NEW x \in Block \ {Genesis}, Parent[x] \in S PROVE x \in S
  <2>1. Chain[x] = {x} \cup Chain[Parent[x]]
    BY ChainDef
  <2>2. nHeight[x] = nHeight[Parent[x]] + 1 /\ nHeight[Parent[x]] \in Nat
    BY <1>2, DownloadAssumption
  <2>3. ASSUME NEW n \in 0 .. nHeight[x] PROVE \E c \in Chain[x] : nHeight[c] = n
    <3>1. n = nHeight[x] \/ n \in 0 .. nHeight[Parent[x]]
      BY <2>2
    <3> QED
      BY <1>2, <2>1, <3>1
  <2> QED
    BY <2>3
<1>3. Block \subseteq S
  <2> HIDE DEF S
  <2> QED
    BY <1>1, <1>2, BlockInduct
<1>4. \E c \in Chain[b] : nHeight[c] = h
  BY <1>3
<1>5. GetAncestor(b, h) \in Chain[b]
  BY <1>4 DEF GetAncestor
<1> QED
  BY <1>5, ChainFacts

(* LastCommonAncestor finds a block of both chains.                        *)
LEMMA LastCommonFacts ==
    ASSUME NEW a \in Block, NEW b \in Block
    PROVE  LastCommonAncestor(a, b) \in Chain[a] \cap Chain[b]
<1> DEFINE C == Chain[a] \cap Chain[b]
           T == {n \in Nat : \E c \in C : n + nHeight[c] = nHeight[a]}
<1>1. Genesis \in C /\ C \subseteq Block /\ \A c \in C : nHeight[c] \in Nat /\ nHeight[c] <= nHeight[a]
  BY ChainFacts, DownloadAssumption
<1>2. nHeight[a] \in Nat
  BY DownloadAssumption
<1> HIDE DEF C
<1>3. \A c \in C : nHeight[a] - nHeight[c] \in T
  BY <1>1, <1>2
<1>4. PICK n \in T : \A m \in T : n <= m
  <2>1. T # {} /\ T \subseteq Nat
    BY <1>1, <1>3
  <2> HIDE DEF T
  <2> QED
    BY <2>1, LeastNat, Zenon
<1>5. PICK c \in C : n + nHeight[c] = nHeight[a]
  BY <1>4
<1>6. ASSUME NEW d \in C PROVE nHeight[d] <= nHeight[c]
  <2>1. n <= nHeight[a] - nHeight[d]
    BY <1>3, <1>4
  <2> QED
    BY <1>1, <1>2, <1>5, <2>1
<1>7. \E x \in C : \A d \in C : nHeight[d] <= nHeight[x]
  BY <1>6
<1> QED
  BY <1>7 DEF LastCommonAncestor, C

-----------------------------------------------------------------------------
(***************************************************************************)
(* What holds of main after every operation, as predicates of a state S:   *)
(* TypeOK, InFlightExact and NothingSkipped follow from Good(main).  Closed*)
(* is what they need beyond themselves: the blocks known are closed under  *)
(* their chains, and the chain of the tip is there.  Exact says of the     *)
(* queues as sets of blocks what InFlightExact says of their entries.      *)
(***************************************************************************)
Entry == [block: Block, partial: PartialBlock]

NodeState ==
    [st: {"new", "on", "doomed", "gone"}, best: Block \cup {None},
     unknown: Block \cup {None}, common: Block \cup {None}, queue: Seq(Entry),
     stalling: -1 .. BLOCK_STALLING_TIMEOUT + 1, since: 0 .. MaxAge,
     sync: BOOLEAN, hdr: -1 .. HEADERS_DOWNLOAD_TIMEOUT + 1,
     m_chain_sync: ChainSyncTimeoutState, asked: BOOLEAN]

InFlightMaps == UNION {[D -> Peer] : D \in SUBSET Block}

MainState ==
    [known: SUBSET Block, data: SUBSET Block, failed: SUBSET Block, tip: Block,
     ibd: BOOLEAN, node: [Peer -> NodeState], inFlight: InFlightMaps,
     nDownloads: Int, nSyncStarted: Int]

Queue(S, p) == S.node[p].queue
BlocksOf(q) == {q[i].block : i \in DOMAIN q}
Distinct(q) == \A i, j \in DOMAIN q : q[i].block = q[j].block => i = j

Closed(S) ==
    /\ Genesis \in S.data /\ S.data \subseteq S.known /\ S.failed \subseteq S.known
    /\ S.tip \in S.data /\ HaveChain(S, S.tip)
    /\ \A b \in S.known : Chain[b] \subseteq S.known

Fits(S) == \A p \in Peer : Len(Queue(S, p)) <= MAX_BLOCKS_IN_TRANSIT_PER_PEER

Busy(S) == {p \in Peer : Queue(S, p) # <<>>}
Syncing(S) == {p \in Peer : S.node[p].sync = TRUE}
From(S, p) == {b \in DOMAIN S.inFlight : S.inFlight[b] = p}

Exact(S) ==
    /\ \A p \in Peer : Distinct(Queue(S, p)) /\ BlocksOf(Queue(S, p)) = From(S, p)
    /\ \A b \in DOMAIN S.inFlight : S.inFlight[b] \in Nodes(S)
    /\ S.nDownloads = Cardinality(Busy(S))
    /\ S.nSyncStarted = Cardinality(Syncing(S))
    /\ \A p \in Peer : S.node[p].stalling # -1 => Queue(S, p) # <<>>

Unskipped(S) ==
    \A p \in Peer : S.node[p].common # None => HaveChain(S, S.node[p].common)

Sound(S) == S \in MainState /\ Closed(S) /\ Exact(S) /\ Unskipped(S)
Good(S) == Sound(S) /\ Fits(S)

(* The operations that leave the queues and the counters alone.            *)
Frame(S, R) ==
    /\ R.inFlight = S.inFlight /\ R.nDownloads = S.nDownloads
    /\ R.nSyncStarted = S.nSyncStarted
    /\ S.data \subseteq R.data /\ Nodes(S) \subseteq Nodes(R)
    /\ \A p \in Peer : /\ R.node[p].queue = S.node[p].queue
                       /\ R.node[p].sync = S.node[p].sync
                       /\ R.node[p].common = S.node[p].common
                       /\ R.node[p].stalling # -1 => S.node[p].stalling # -1

(* An operation that leaves the queues and the counters alone keeps the    *)
(* state sound.                                                            *)
LEMMA FrameKeeps ==
    ASSUME NEW S, NEW R \in MainState, Sound(S), Frame(S, R), Closed(R)
    PROVE  Sound(R) /\ (Fits(S) => Fits(R))
<1>1. \A p \in Peer : Queue(R, p) = Queue(S, p) /\ From(R, p) = From(S, p)
  BY DEF Frame, Queue, From
<1>2. Busy(R) = Busy(S) /\ Syncing(R) = Syncing(S)
  BY <1>1 DEF Busy, Syncing, Frame
<1>3. Exact(R)
  BY <1>1, <1>2 DEF Exact, Frame, Sound
<1>4. Unskipped(R)
  BY DEF Unskipped, Frame, Sound, HaveChain
<1> QED
  BY <1>1, <1>3, <1>4 DEF Sound, Fits

(* Two such operations, one after the other.                               *)
LEMMA FrameTransitive ==
    ASSUME NEW S, NEW Q, NEW R, Frame(S, Q), Frame(Q, R)
    PROVE  Frame(S, R)
BY DEF Frame

(* TypeOK, InFlightExact and NothingSkipped from the above.                *)
LEMMA GoodMeans ==
    ASSUME Good(main), turn \in Peer, phase \in {"process", "send", "abort"}
    PROVE  TypeOK /\ InFlightExact /\ NothingSkipped
<1>1. main \in MainState /\ Closed(main) /\ Exact(main) /\ Unskipped(main) /\ Fits(main)
  BY DEF Good, Sound
<1>2. ASSUME NEW p \in Peer PROVE main.node[p] \in Node
  <2>1. main.node[p] \in NodeState /\ Len(main.node[p].queue) <= MAX_BLOCKS_IN_TRANSIT_PER_PEER
    BY <1>1 DEF MainState, Fits, Queue
  <2>2. /\ main.node[p].queue \in [1 .. Len(main.node[p].queue) -> Entry]
        /\ Len(main.node[p].queue) \in 0 .. MAX_BLOCKS_IN_TRANSIT_PER_PEER
    <3>1. main.node[p].queue \in Seq(Entry)
      BY <2>1 DEF NodeState
    <3> QED
      BY <2>1, <3>1, DownloadAssumption
  <2> QED
    BY <2>1, <2>2 DEF Node, NodeState, Entry
<1>3. DOMAIN main.inFlight \subseteq Block
  BY <1>1 DEF MainState, InFlightMaps
<1>4. TypeOK
  BY <1>1, <1>2, <1>3 DEF TypeOK, Closed, MainState
<1>5. {p \in Peer : main.node[p].sync} = Syncing(main)
  BY <1>1 DEF Syncing, MainState, NodeState
<1>6. ASSUME NEW p \in Peer, NEW i \in DOMAIN main.node[p].queue
      PROVE  LET b == main.node[p].queue[i].block IN
             /\ b \in DOMAIN main.inFlight /\ main.inFlight[b] = p
             /\ \A j \in DOMAIN main.node[p].queue :
                   main.node[p].queue[j].block = b => i = j
  BY <1>1 DEF Exact, Queue, BlocksOf, From, Distinct
<1>7. ASSUME NEW b \in DOMAIN main.inFlight
      PROVE  LET p == main.inFlight[b] IN
             /\ p \in Nodes(main)
             /\ \E i \in DOMAIN main.node[p].queue : main.node[p].queue[i].block = b
  <2>1. main.inFlight[b] \in Nodes(main) /\ main.inFlight[b] \in Peer
    BY <1>1 DEF Exact, Nodes
  <2>2. b \in BlocksOf(Queue(main, main.inFlight[b]))
    BY <1>1, <2>1 DEF Exact, From
  <2> QED
    BY <2>1, <2>2, Zenon DEF BlocksOf, Queue
<1>8. InFlightExact
  BY <1>1, <1>5, <1>6, <1>7, Zenon DEF InFlightExact, Exact, Busy, Queue
<1>9. NothingSkipped
  BY <1>1 DEF NothingSkipped, Unskipped
<1> QED
  BY <1>4, <1>8, <1>9

-----------------------------------------------------------------------------
(* The queue of a peer, with a block taken out or added.                   *)
LEMMA QueueFacts ==
    ASSUME NEW q \in Seq(Entry)
    PROVE  /\ BlocksOf(q) \subseteq Block /\ Len(q) \in Nat /\ DOMAIN q = 1 .. Len(q)
           /\ q # <<>> <=> BlocksOf(q) # {}
           /\ q # <<>> <=> Len(q) > 0
<1>1. /\ DOMAIN q = 1 .. Len(q) /\ Len(q) \in Nat
      /\ \A i \in 1 .. Len(q) : q[i] \in Entry
  OBVIOUS
<1>2. q # <<>> <=> Len(q) > 0
  OBVIOUS
<1>3. Len(q) > 0 => q[1].block \in BlocksOf(q)
  BY <1>1 DEF BlocksOf
<1>4. Len(q) = 0 => BlocksOf(q) = {}
  BY <1>1 DEF BlocksOf
<1>5. BlocksOf(q) \subseteq Block
  BY <1>1 DEF BlocksOf, Entry
<1> QED
  BY <1>1, <1>2, <1>3, <1>4, <1>5

(* Erasing the entry of a block, as MarkBlockAsReceived does with          *)
(* list::erase, takes that block out of the queue and no other.            *)
LEMMA ErasedFacts ==
    ASSUME NEW q \in Seq(Entry), Distinct(q), NEW b \in BlocksOf(q)
    PROVE  /\ Erased(q, b) \in Seq(Entry) /\ Len(Erased(q, b)) = Len(q) - 1
           /\ Distinct(Erased(q, b)) /\ BlocksOf(Erased(q, b)) = BlocksOf(q) \ {b}
<1> DEFINE it == CHOOSE i \in DOMAIN q : q[i].block = b
           at(i) == IF i < it THEN i ELSE i + 1
           e == [i \in 1 .. Len(q) - 1 |-> IF i < it THEN q[i] ELSE q[i + 1]]
<1>1. Erased(q, b) = e
  BY DEF Erased
<1>2. it \in DOMAIN q /\ q[it].block = b
  BY DEF BlocksOf
<1>3. DOMAIN q = 1 .. Len(q) /\ Len(q) \in Nat
  OBVIOUS
<1> HIDE DEF it
<1>4. /\ Len(q) - 1 \in Nat /\ DOMAIN e = 1 .. Len(q) - 1
      /\ \A i \in 1 .. Len(q) - 1 : /\ at(i) \in 1 .. Len(q) /\ at(i) # it
                                    /\ e[i] = q[at(i)]
  BY <1>2, <1>3
<1>5. \A i \in 1 .. Len(q) - 1 : e[i] \in Entry
  BY <1>4
<1>6. e \in Seq(Entry) /\ Len(e) = Len(q) - 1
  BY <1>4, <1>5
<1>7. \A i, j \in 1 .. Len(q) - 1 : at(i) = at(j) => i = j
  BY <1>2, <1>3
<1>8. \A j \in 1 .. Len(q) : j # it => \E i \in 1 .. Len(q) - 1 : at(i) = j
  <2> TAKE j \in 1 .. Len(q)
  <2> HAVE j # it
  <2> DEFINE i == IF j < it THEN j ELSE j - 1
  <2>1. i \in 1 .. Len(q) - 1 /\ at(i) = j
    BY <1>2, <1>3
  <2> QED
    BY <2>1
<1> HIDE DEF at, e
<1>9. Distinct(e)
  BY <1>3, <1>4, <1>7 DEF Distinct
<1>10. BlocksOf(e) = BlocksOf(q) \ {b}
  <2>1. ASSUME NEW c \in BlocksOf(e) PROVE c \in BlocksOf(q) \ {b}
    <3>1. PICK i \in 1 .. Len(q) - 1 : c = e[i].block
      BY <1>4 DEF BlocksOf
    <3>2. at(i) \in DOMAIN q /\ at(i) # it /\ c = q[at(i)].block
      BY <1>3, <1>4, <3>1
    <3> QED
      BY <1>2, <3>2 DEF BlocksOf, Distinct
  <2>2. ASSUME NEW c \in BlocksOf(q) \ {b} PROVE c \in BlocksOf(e)
    <3>1. PICK j \in DOMAIN q : c = q[j].block
      BY DEF BlocksOf
    <3>2. PICK i \in 1 .. Len(q) - 1 : at(i) = j
      BY <1>2, <1>3, <1>8, <3>1
    <3> QED
      BY <1>4, <3>1, <3>2, Zenon DEF BlocksOf
  <2> QED
    BY <2>1, <2>2
<1> QED
  BY <1>1, <1>6, <1>9, <1>10

(* Appending an entry for a block that is not queued keeps the blocks of   *)
(* the queue distinct.                                                     *)
LEMMA AppendedFacts ==
    ASSUME NEW q \in Seq(Entry), Distinct(q), NEW e \in Entry, e.block \notin BlocksOf(q)
    PROVE  /\ Append(q, e) \in Seq(Entry) /\ Len(Append(q, e)) = Len(q) + 1
           /\ Distinct(Append(q, e)) /\ BlocksOf(Append(q, e)) = BlocksOf(q) \cup {e.block}
<1> DEFINE a == Append(q, e)
<1>1. /\ a \in Seq(Entry) /\ Len(a) = Len(q) + 1 /\ Len(q) \in Nat
      /\ DOMAIN a = 1 .. Len(q) + 1 /\ DOMAIN q = 1 .. Len(q)
      /\ \A i \in 1 .. Len(q) : a[i] = q[i]
      /\ a[Len(q) + 1] = e
  OBVIOUS
<1> HIDE DEF a
<1>2. \A i \in DOMAIN a : i \in DOMAIN q \/ i = Len(q) + 1
  BY <1>1
<1>3. \A i \in DOMAIN q : i \in DOMAIN a /\ a[i] = q[i] /\ a[i].block # e.block
  BY <1>1 DEF BlocksOf
<1>4. Len(q) + 1 \in DOMAIN a
  BY <1>1
<1>5. Distinct(a)
  BY <1>1, <1>2, <1>3 DEF Distinct
<1>6. BlocksOf(a) = BlocksOf(q) \cup {e.block}
  BY <1>1, <1>2, <1>3, <1>4 DEF BlocksOf
<1> QED
  BY <1>1, <1>5, <1>6 DEF a

(* A peer more or less in a set of peers.                                  *)
LEMMA PeerCount ==
    ASSUME NEW A \in SUBSET Peer, NEW p \in Peer
    PROVE  /\ Cardinality(A) \in Int
           /\ p \notin A => Cardinality(A \cup {p}) = Cardinality(A) + 1
           /\ p \in A => Cardinality(A \ {p}) = Cardinality(A) - 1
<1>1. IsFiniteSet(A)
  BY DownloadAssumption, FS_Subset
<1>2. Cardinality(A) \in Nat
  BY <1>1, FS_CardinalityType
<1>3. p \notin A => Cardinality(A \cup {p}) = Cardinality(A) + 1
  BY <1>1, FS_AddElement
<1>4. p \in A => Cardinality(A \ {p}) = Cardinality(A) - 1
  BY <1>1, FS_RemoveElement
<1> QED
  BY <1>2, <1>3, <1>4

(* The bound on the age of a download.                                     *)
LEMMA MaxAgeNat == MaxAge \in Nat /\ MaxAge >= 1
<1>1. Cardinality(Peer) - 1 \in Nat
  <2>1. Cardinality(Peer) \in Nat /\ Cardinality(Peer) > 0
    BY DownloadAssumption, FS_CardinalityType
  <2> QED
    BY <2>1
<1> DEFINE others == Cardinality(Peer) - 1
           each == BLOCK_DOWNLOAD_TIMEOUT_PER_PEER
<1>2. each \in Nat /\ others \in Nat
  BY <1>1, DownloadAssumption
<1> HIDE DEF others, each
<1>3. each * others \in Nat
  BY <1>2
<1>4. MaxAge = BLOCK_DOWNLOAD_TIMEOUT_BASE + each * others + 1
  BY DEF MaxAge, each, others
<1> QED
  BY <1>3, <1>4, DownloadAssumption

-----------------------------------------------------------------------------
(* A state with another node, another map and another count.               *)
With(S, p, m, f, d) == [S EXCEPT !.node[p] = m, !.inFlight = f, !.nDownloads = d]

(* Such a state has the right type, and differs in these parts only.       *)
LEMMA StateWith ==
    ASSUME NEW S \in MainState, NEW p \in Peer, NEW m \in NodeState,
           NEW f \in InFlightMaps, NEW d \in Int, NEW R, R = With(S, p, m, f, d)
    PROVE  /\ R \in MainState /\ R.node[p] = m /\ R.inFlight = f /\ R.nDownloads = d
           /\ R.known = S.known /\ R.data = S.data /\ R.failed = S.failed /\ R.tip = S.tip
           /\ R.nSyncStarted = S.nSyncStarted
           /\ \A q \in Peer : q # p => R.node[q] = S.node[q]
<1> DEFINE g == [S.node EXCEPT ![p] = m]
<1>1. R = [S EXCEPT !.node = g, !.inFlight = f, !.nDownloads = d]
  BY DEF With
<1>2. S.node \in [Peer -> NodeState]
  BY DEF MainState
<1>3. /\ g \in [Peer -> NodeState] /\ g[p] = m
      /\ \A q \in Peer : q # p => g[q] = S.node[q]
  BY <1>2
<1> HIDE DEF g
<1>4. /\ R.node = g /\ R.inFlight = f /\ R.nDownloads = d
      /\ R.known = S.known /\ R.data = S.data /\ R.failed = S.failed /\ R.tip = S.tip
      /\ R.nSyncStarted = S.nSyncStarted
  BY <1>1 DEF MainState
<1>5. R \in MainState
  BY <1>1, <1>3, Zenon DEF MainState
<1> QED
  BY <1>3, <1>4, <1>5

(* MarkBlockAsReceived leaves the block in no queue and in no map, and the *)
(* rest of the bookkeeping exact.                                          *)
LEMMA ReceivedFacts ==
    ASSUME NEW S, Sound(S), NEW b \in Block, NEW R, R = MarkBlockAsReceived(S, b)
    PROVE  /\ Sound(R) /\ b \notin DOMAIN R.inFlight /\ Nodes(R) = Nodes(S)
           /\ R.known = S.known /\ R.data = S.data /\ R.failed = S.failed /\ R.tip = S.tip
           /\ \A p \in Peer : Len(Queue(R, p)) <= Len(Queue(S, p))
<1>1. S \in MainState /\ Closed(S) /\ Exact(S) /\ Unskipped(S)
  BY DEF Sound
<1>2. \A q \in Peer : S.node[q] \in NodeState /\ Queue(S, q) \in Seq(Entry)
  BY <1>1, Zenon DEF MainState, NodeState, Queue
<1>3. CASE b \notin DOMAIN S.inFlight
  <2>1. R = S
    BY <1>3 DEF MarkBlockAsReceived
  <2>2. \A p \in Peer : Len(Queue(S, p)) <= Len(Queue(S, p))
    BY <1>2, QueueFacts
  <2> QED
    BY <1>3, <2>1, <2>2
<1>4. CASE b \in DOMAIN S.inFlight
  <2> DEFINE p == S.inFlight[b]
             n == S.node[p]
             rest == Erased(n.queue, b)
             m == [n EXCEPT !.queue = rest,
                            !.since = IF n.queue[1].block = b THEN 0 ELSE @,
                            !.stalling = -1]
             f == Restrict(S.inFlight, DOMAIN S.inFlight \ {b})
             d == IF rest = <<>> THEN S.nDownloads - 1 ELSE S.nDownloads
  <2>1. R = With(S, p, m, f, d)
    BY <1>4, Zenon DEF MarkBlockAsReceived, With
  <2>2. p \in Nodes(S) /\ p \in Peer
    BY <1>1, <1>4, Zenon DEF Exact, Nodes
  <2>3. /\ b \in BlocksOf(n.queue) /\ n.queue \in Seq(Entry) /\ Distinct(n.queue)
        /\ n \in NodeState
    BY <1>1, <1>2, <1>4, <2>2, Zenon DEF Exact, From, Queue
  <2>4. /\ rest \in Seq(Entry) /\ Len(rest) = Len(n.queue) - 1
        /\ Distinct(rest) /\ BlocksOf(rest) = BlocksOf(n.queue) \ {b}
    BY <2>3, ErasedFacts, Zenon
  <2>5. -1 \in -1 .. BLOCK_STALLING_TIMEOUT + 1 /\ 0 \in 0 .. MaxAge
    BY MaxAgeNat, DownloadAssumption, SMTT(40)
  <2> HIDE DEF rest
  <2>6. m \in NodeState /\ m.queue = rest /\ m.stalling = -1 /\ m.st = n.st
        /\ m.sync = n.sync /\ m.common = n.common
    BY <2>3, <2>4, <2>5, Zenon DEF NodeState
  <2>7. f \in InFlightMaps /\ DOMAIN f = DOMAIN S.inFlight \ {b}
        /\ \A c \in DOMAIN f : f[c] = S.inFlight[c]
    <3>1. PICK D \in SUBSET Block : S.inFlight \in [D -> Peer]
      BY <1>1 DEF MainState, InFlightMaps
    <3>2. f = [c \in D \ {b} |-> S.inFlight[c]]
      BY <3>1 DEF Restrict
    <3>3. f \in [D \ {b} -> Peer]
      BY <3>1, <3>2
    <3>4. f \in InFlightMaps
      BY <3>3 DEF InFlightMaps
    <3> QED
      BY <3>1, <3>2, <3>4
  <2>8. d \in Int
    BY <1>1, SMTT(40) DEF MainState
  <2> HIDE DEF m, f, d
  <2>9. /\ R \in MainState /\ R.node[p] = m /\ R.inFlight = f /\ R.nDownloads = d
        /\ R.known = S.known /\ R.data = S.data /\ R.failed = S.failed /\ R.tip = S.tip
        /\ R.nSyncStarted = S.nSyncStarted
        /\ \A q \in Peer : q # p => R.node[q] = S.node[q]
    BY <1>1, <2>1, <2>2, <2>6, <2>7, <2>8, StateWith, SMTT(40)
  <2>10. Nodes(R) = Nodes(S)
    BY <2>6, <2>9, Zenon DEF Nodes
  <2>11. /\ \A q \in Peer : q # p => Queue(R, q) = Queue(S, q) /\ From(R, q) = From(S, q)
         /\ Queue(R, p) = rest /\ From(R, p) = From(S, p) \ {b}
    BY <2>6, <2>7, <2>9 DEF Queue, From
  <2>12. \A q \in Peer : Distinct(Queue(R, q)) /\ BlocksOf(Queue(R, q)) = From(R, q)
    BY <1>1, <2>2, <2>4, <2>11, Zenon DEF Exact, Queue
  <2>13. R.nDownloads = Cardinality(Busy(R))
    <3>1. p \in Busy(S) /\ Busy(S) \subseteq Peer
      BY <2>2, <2>3, QueueFacts, Zenon DEF Busy, Queue
    <3>2. Busy(R) = IF rest = <<>> THEN Busy(S) \ {p} ELSE Busy(S)
      BY <2>2, <2>11, <3>1 DEF Busy
    <3>3. S.nDownloads = Cardinality(Busy(S))
      BY <1>1, Zenon DEF Exact
    <3> QED
      BY <2>2, <2>9, <3>1, <3>2, <3>3, PeerCount DEF d
  <2>14. R.nSyncStarted = Cardinality(Syncing(R))
    <3>1. Syncing(R) = Syncing(S)
      BY <2>6, <2>9, Zenon DEF Syncing
    <3> QED
      BY <1>1, <2>9, <3>1, Zenon DEF Exact
  <2>15. Exact(R)
    <3>1. \A c \in DOMAIN R.inFlight : R.inFlight[c] \in Nodes(R)
      BY <1>1, <2>7, <2>9, <2>10, Zenon DEF Exact
    <3>2. \A q \in Peer : R.node[q].stalling # -1 => Queue(R, q) # <<>>
      BY <1>1, <2>6, <2>9, Zenon DEF Exact, Queue
    <3> QED
      BY <2>12, <2>13, <2>14, <3>1, <3>2, Zenon DEF Exact
  <2>16. Closed(R)
    BY <1>1, <2>9, Zenon DEF Closed, HaveChain
  <2>17. Unskipped(R)
    BY <1>1, <2>2, <2>6, <2>9 DEF Unskipped, HaveChain
  <2>18. \A q \in Peer : Len(Queue(R, q)) <= Len(Queue(S, q))
    <3>1. \A q \in Peer : Len(Queue(S, q)) \in Nat
      BY <1>2, QueueFacts
    <3>2. Len(Queue(R, p)) <= Len(Queue(S, p))
      BY <2>2, <2>4, <2>11, <3>1 DEF Queue
    <3> QED
      BY <2>11, <3>1, <3>2
  <2> QED
    BY <2>7, <2>9, <2>10, <2>15, <2>16, <2>17, <2>18, Zenon DEF Sound
<1> QED
  BY <1>3, <1>4

(* MarkBlockAsInFlight adds one entry at most, to the queue of the peer.   *)
LEMMA InFlightFacts ==
    ASSUME NEW S, Sound(S), NEW p \in Nodes(S), NEW b \in Block, NEW partial \in PartialBlock,
           NEW R, R = MarkBlockAsInFlight(S, p, b, partial)
    PROVE  /\ Sound(R) /\ Nodes(R) = Nodes(S)
           /\ R.known = S.known /\ R.data = S.data /\ R.failed = S.failed /\ R.tip = S.tip
           /\ Len(Queue(R, p)) <= Len(Queue(S, p)) + 1
           /\ b \in From(S, p) => R = S
           /\ \A q \in Peer \ {p} : Len(Queue(R, q)) <= Len(Queue(S, q))
<1> DEFINE M == MarkBlockAsReceived(S, b)
           n == M.node[p]
           e == [block |-> b, partial |-> partial]
           q == Append(n.queue, e)
           m == [n EXCEPT !.queue = q, !.since = IF Len(q) = 1 THEN 0 ELSE @]
           f == [c \in DOMAIN M.inFlight \cup {b} |-> IF c = b THEN p ELSE M.inFlight[c]]
           d == IF Len(q) = 1 THEN M.nDownloads + 1 ELSE M.nDownloads
<1>1. CASE b \in DOMAIN S.inFlight /\ S.inFlight[b] = p
  <2>1. R = S
    BY <1>1 DEF MarkBlockAsInFlight
  <2>2. \A r \in Peer : Queue(S, r) \in Seq(Entry)
    BY DEF Sound, MainState, NodeState, Queue
  <2>3. \A r \in Peer : Len(Queue(S, r)) \in Nat
    BY <2>2, QueueFacts
  <2>4. p \in Peer
    BY DEF Nodes
  <2> QED
    BY <2>1, <2>3, <2>4
<1>2. CASE ~(b \in DOMAIN S.inFlight /\ S.inFlight[b] = p)
  <2>1. R = With(M, p, m, f, d)
    BY <1>2 DEF MarkBlockAsInFlight, With
  <2>2. /\ Sound(M) /\ b \notin DOMAIN M.inFlight /\ Nodes(M) = Nodes(S)
        /\ M.known = S.known /\ M.data = S.data /\ M.failed = S.failed /\ M.tip = S.tip
        /\ \A r \in Peer : Len(Queue(M, r)) <= Len(Queue(S, r))
    BY ReceivedFacts
  <2>3. p \in Peer /\ p \in Nodes(M)
    BY <2>2, Zenon DEF Nodes
  <2> HIDE DEF M
  <2>4. M \in MainState /\ Closed(M) /\ Exact(M) /\ Unskipped(M)
    BY <2>2 DEF Sound
  <2>5. /\ n \in NodeState /\ n.queue \in Seq(Entry) /\ Distinct(n.queue)
        /\ b \notin BlocksOf(n.queue) /\ BlocksOf(n.queue) = From(M, p)
    BY <2>2, <2>3, <2>4, Zenon DEF Exact, From, Queue, MainState, NodeState
  <2>6. e \in Entry /\ e.block = b
    BY DEF Entry
  <2> HIDE DEF e
  <2>7. /\ q \in Seq(Entry) /\ Len(q) = Len(n.queue) + 1
        /\ Distinct(q) /\ BlocksOf(q) = BlocksOf(n.queue) \cup {b}
    BY <2>5, <2>6, AppendedFacts
  <2>8. Len(n.queue) \in Nat /\ (Len(q) = 1 <=> n.queue = <<>>) /\ q # <<>>
    BY <2>5, <2>7, QueueFacts
  <2> HIDE DEF q
  <2>9. m \in NodeState /\ m.queue = q /\ m.st = n.st /\ m.stalling = n.stalling
        /\ m.sync = n.sync /\ m.common = n.common
    <3>1. 0 \in 0 .. MaxAge
      BY MaxAgeNat
    <3> QED
      BY <2>5, <2>7, <3>1, Zenon DEF NodeState
  <2>10. /\ f \in InFlightMaps /\ DOMAIN f = DOMAIN M.inFlight \cup {b} /\ f[b] = p
         /\ \A c \in DOMAIN M.inFlight : f[c] = M.inFlight[c]
    <3>1. PICK D \in SUBSET Block : M.inFlight \in [D -> Peer]
      BY <2>4, Zenon DEF MainState, InFlightMaps
    <3>2. f \in [D \cup {b} -> Peer]
      BY <2>3, <3>1
    <3>3. f \in InFlightMaps
      BY <3>1, <3>2, Zenon DEF InFlightMaps
    <3> QED
      BY <2>2, <3>3, Zenon
  <2>11. d \in Int
    BY <2>4 DEF MainState
  <2> HIDE DEF m, f, d
  <2>12. /\ R \in MainState /\ R.node[p] = m /\ R.inFlight = f /\ R.nDownloads = d
         /\ R.known = M.known /\ R.data = M.data /\ R.failed = M.failed /\ R.tip = M.tip
         /\ R.nSyncStarted = M.nSyncStarted
         /\ \A r \in Peer : r # p => R.node[r] = M.node[r]
    BY <2>1, <2>3, <2>4, <2>9, <2>10, <2>11, StateWith
  <2>13. Nodes(R) = Nodes(M)
    BY <2>9, <2>12, Zenon DEF Nodes
  <2>14. /\ \A r \in Peer : r # p => Queue(R, r) = Queue(M, r) /\ From(R, r) = From(M, r)
         /\ Queue(R, p) = q /\ From(R, p) = From(M, p) \cup {b}
    BY <2>2, <2>9, <2>10, <2>12, SMTT(40) DEF Queue, From
  <2>15. \A r \in Peer : Distinct(Queue(R, r)) /\ BlocksOf(Queue(R, r)) = From(R, r)
    BY <2>3, <2>4, <2>5, <2>7, <2>14, Zenon DEF Exact
  <2>16. R.nDownloads = Cardinality(Busy(R))
    <3>1. (p \in Busy(M) <=> n.queue # <<>>) /\ Busy(M) \subseteq Peer
      BY <2>3, Zenon DEF Busy, Queue
    <3>2. Busy(R) = Busy(M) \cup {p}
      BY <2>3, <2>8, <2>14 DEF Busy
    <3>3. M.nDownloads = Cardinality(Busy(M))
      BY <2>4, Zenon DEF Exact
    <3>4. p \in Busy(M) => Busy(R) = Busy(M)
      BY <3>2
    <3> QED
      BY <2>3, <2>8, <2>12, <3>1, <3>2, <3>3, <3>4, PeerCount, ZenonT(40) DEF d
  <2>17. R.nSyncStarted = Cardinality(Syncing(R))
    <3>1. Syncing(R) = Syncing(M)
      BY <2>9, <2>12, Zenon DEF Syncing
    <3> QED
      BY <2>4, <2>12, <3>1, Zenon DEF Exact
  <2>18. Exact(R)
    <3>1. \A c \in DOMAIN R.inFlight : R.inFlight[c] \in Nodes(R)
      BY <2>3, <2>4, <2>10, <2>12, <2>13, SMTT(40) DEF Exact
    <3>2. \A r \in Peer : R.node[r].stalling # -1 => Queue(R, r) # <<>>
      BY <2>4, <2>8, <2>9, <2>12, Zenon DEF Exact, Queue
    <3> QED
      BY <2>15, <2>16, <2>17, <3>1, <3>2, Zenon DEF Exact
  <2>19. Closed(R)
    BY <2>4, <2>12, Zenon DEF Closed, HaveChain
  <2>20. Unskipped(R)
    BY <2>3, <2>4, <2>9, <2>12 DEF Unskipped, HaveChain
  <2>21. Len(Queue(R, p)) <= Len(Queue(S, p)) + 1
    <3>1. Queue(S, p) \in Seq(Entry)
      BY <2>3, Zenon DEF Sound, MainState, NodeState, Queue
    <3>2. Len(n.queue) <= Len(Queue(S, p))
      BY <2>2, <2>3 DEF Queue
    <3> QED
      BY <2>7, <2>8, <2>14, <3>1, <3>2, SMTT(40)
  <2>22. \A r \in Peer \ {p} : Len(Queue(R, r)) <= Len(Queue(S, r))
    BY <2>2, <2>14
  <2>23. b \notin From(S, p)
    BY <1>2 DEF From
  <2> QED
    BY <2>2, <2>12, <2>13, <2>18, <2>19, <2>20, <2>21, <2>22, <2>23, Zenon DEF Sound
<1> QED
  BY <1>1, <1>2

(* One block after the other: no more entries than blocks.                 *)
LEMMA MarkedFacts ==
    ASSUME NEW S, Sound(S), NEW p \in Nodes(S), NEW blocks \in Seq(Block),
           NEW R, R = MarkBlocksAsInFlight(S, p, blocks)
    PROVE  /\ Sound(R) /\ Nodes(R) = Nodes(S)
           /\ Len(Queue(R, p)) <= Len(Queue(S, p)) + Len(blocks)
           /\ \A q \in Peer \ {p} : Len(Queue(R, q)) <= Len(Queue(S, q))
           /\ blocks = <<>> => R = S
<1> DEFINE N == Len(blocks)
           V == {X \in MainState : Sound(X) /\ p \in Nodes(X)}
           no == "none"
           Step(v, k) == MarkBlockAsInFlight(v, p, blocks[k], no)
           F == [k \in 1 .. N |-> [v \in V |-> Step(v, k)]]
           Body(g) == [n \in 0 .. N |-> IF n = 0 THEN S ELSE Step(g[n - 1], n)]
           f == CHOOSE g : g = Body(g)
           Fewer(X, k) == /\ Sound(X) /\ Nodes(X) = Nodes(S)
                          /\ Len(Queue(X, p)) <= Len(Queue(S, p)) + k
                          /\ \A q \in Peer \ {p} : Len(Queue(X, q)) <= Len(Queue(S, q))
<1>1. N \in Nat /\ \A k \in 1 .. N : blocks[k] \in Block
  OBVIOUS
<1>2. R = f[N]
  BY Zenon DEF MarkBlocksAsInFlight
<1>3. no \in PartialBlock
  BY DEF PartialBlock
<1> HIDE DEF no
<1>4. ASSUME NEW k \in 1 .. N, NEW v \in V PROVE Step(v, k) \in V
  <2>1. blocks[k] \in Block
    BY <1>1
  <2>2. Sound(Step(v, k)) /\ Nodes(Step(v, k)) = Nodes(v)
    BY <1>3, <2>1, InFlightFacts
  <2> QED
    BY <2>2, Zenon DEF Sound
<1>5. S \in V
  BY DEF Sound
<1>6. p \in Peer
  BY DEF Nodes
<1>7. \A X : Sound(X) => \A q \in Peer : Len(Queue(X, q)) \in Nat
  <2> TAKE X
  <2> HAVE Sound(X)
  <2>1. \A q \in Peer : Queue(X, q) \in Seq(Entry)
    BY Zenon DEF Sound, MainState, NodeState, Queue
  <2> QED
    BY <2>1, QueueFacts
<1>8. ASSUME NEW k \in 1 .. N, NEW v, Fewer(v, k - 1) PROVE Fewer(Step(v, k), k)
  <2>1. blocks[k] \in Block /\ Sound(v) /\ p \in Nodes(v)
    BY <1>1, <1>8
  <2>2. /\ Sound(Step(v, k)) /\ Nodes(Step(v, k)) = Nodes(v)
        /\ Len(Queue(Step(v, k), p)) <= Len(Queue(v, p)) + 1
        /\ \A q \in Peer \ {p} : Len(Queue(Step(v, k), q)) <= Len(Queue(v, q))
    BY <1>3, <2>1, InFlightFacts
  <2> HIDE DEF Step
  <2>3. Len(Queue(Step(v, k), p)) <= Len(Queue(S, p)) + k
    BY <1>1, <1>6, <1>7, <1>8, <2>1, <2>2
  <2>4. \A q \in Peer \ {p} : Len(Queue(Step(v, k), q)) <= Len(Queue(S, q))
    BY <1>7, <1>8, <2>1, <2>2
  <2> QED
    BY <1>8, <2>2, <2>3, <2>4
<1>9. Fewer(S, 0)
  BY <1>6, <1>7
<1> HIDE DEF N, Step, V
<1>10. F \in [1 .. N -> [V -> V]]
  BY <1>4
<1>11. PICK g : LoopOf(g, N, V, S, F)
  <2> HIDE DEF F
  <2> QED
    BY <1>1, <1>5, <1>10, LoopExists
<1>12. g = Body(g)
  <2>1. g \in [0 .. N -> V] /\ g[0] = S
    BY <1>11 DEF LoopOf
  <2>2. ASSUME NEW k \in 1 .. N PROVE g[k] = Step(g[k - 1], k)
    <3>1. g[k] = F[k][g[k - 1]] /\ g[k - 1] \in V
      BY <1>1, <1>11, <2>1 DEF LoopOf
    <3> QED
      BY <3>1
  <2> QED
    BY <1>1, <2>1, <2>2
<1>13. f = Body(f)
  BY <1>12, Zenon
<1> HIDE DEF f
<1>14. f[0] = S /\ \A n \in 1 .. N : f[n] = Step(f[n - 1], n)
  BY <1>1, <1>13
<1> HIDE DEF Fewer
<1> DEFINE G == {n \in 0 .. N : Fewer(f[n], n)}
<1>15. 0 \in G
  BY <1>1, <1>9, <1>14
<1>16. ASSUME NEW k \in 1 .. N, k - 1 \in G PROVE k \in G
  BY <1>8, <1>14, <1>16
<1>17. 0 .. N \subseteq G
  <2> HIDE DEF G
  <2> QED
    BY <1>1, <1>15, <1>16, LoopInduct, Zenon
<1>18. Fewer(R, N)
  BY <1>1, <1>2, <1>17
<1>19. blocks = <<>> => R = S
  BY <1>2, <1>14 DEF N
<1> QED
  BY <1>18, <1>19 DEF Fewer, N

(* No block, no change.                                                    *)
LEMMA MarkedNone ==
    ASSUME NEW S, Good(S), NEW p \in Nodes(S), NEW blocks, blocks = <<>>
    PROVE  MarkBlocksAsInFlight(S, p, blocks) = S
<1>1. Sound(S) /\ blocks \in Seq(Block)
  BY DEF Good
<1> QED
  BY <1>1, MarkedFacts

-----------------------------------------------------------------------------
(* What leaves the queues alone: a change of another field of a node.      *)
SetNode(S, p, m) == [S EXCEPT !.node[p] = m]

(* A change of a node that leaves its queue, its sync flag and its common  *)
(* block alone is within the frame.                                        *)
LEMMA NodeChange ==
    ASSUME NEW S, Sound(S), NEW p \in Peer, NEW m \in NodeState, NEW R,
           R = SetNode(S, p, m),
           m.queue = S.node[p].queue, m.sync = S.node[p].sync,
           m.common = S.node[p].common, m.stalling # -1 => S.node[p].stalling # -1,
           p \in Nodes(S) => m.st \in {"on", "doomed"}
    PROVE  /\ Sound(R) /\ Frame(S, R) /\ (Fits(S) => Fits(R)) /\ R.node[p] = m
           /\ R.known = S.known /\ R.data = S.data /\ R.failed = S.failed /\ R.tip = S.tip
<1>1. S \in MainState
  BY Zenon DEF Sound
<1>2. R = With(S, p, m, S.inFlight, S.nDownloads)
  BY <1>1, Zenon DEF With, SetNode, MainState
<1>3. S.inFlight \in InFlightMaps /\ S.nDownloads \in Int
  BY <1>1 DEF MainState
<1>4. /\ R \in MainState /\ R.node[p] = m /\ R.inFlight = S.inFlight
      /\ R.nDownloads = S.nDownloads /\ R.nSyncStarted = S.nSyncStarted
      /\ R.known = S.known /\ R.data = S.data /\ R.failed = S.failed /\ R.tip = S.tip
      /\ \A q \in Peer : q # p => R.node[q] = S.node[q]
  BY <1>1, <1>2, <1>3, StateWith
<1>5. Nodes(S) \subseteq Nodes(R)
  BY <1>4, Zenon DEF Nodes
<1>6. Frame(S, R)
  BY <1>4, <1>5, Zenon DEF Frame
<1>7. Closed(R)
  BY <1>4, Zenon DEF Closed, Sound, HaveChain
<1> QED
  BY <1>4, <1>6, <1>7, FrameKeeps, Zenon

(* Punishing a peer.                                                       *)
LEMMA MisbehavingFacts ==
    ASSUME NEW S, Sound(S), NEW p \in Nodes(S), NEW R,
           R = Misbehaving(S, p) \/ R = [S EXCEPT !.node[p].st = "doomed"]
    PROVE  Sound(R) /\ Frame(S, R) /\ (Fits(S) => Fits(R))
<1>1. S \in MainState /\ p \in Peer
  BY DEF Sound, Nodes
<1>2. CASE R = S
  BY <1>2 DEF Frame
<1>3. CASE R = [S EXCEPT !.node[p].st = "doomed"]
  <2> DEFINE m == [S.node[p] EXCEPT !.st = "doomed"]
  <2>1. R = SetNode(S, p, m) /\ S.node[p] \in NodeState
    BY <1>1, <1>3 DEF SetNode, MainState
  <2>2. /\ m \in NodeState /\ m.st = "doomed" /\ m.queue = S.node[p].queue
        /\ m.sync = S.node[p].sync /\ m.common = S.node[p].common
        /\ m.stalling = S.node[p].stalling
    BY <2>1 DEF NodeState
  <2> HIDE DEF m
  <2> QED
    BY <1>1, <2>1, <2>2, NodeChange
<1> QED
  BY <1>2, <1>3 DEF Misbehaving

(* What is known of the blocks a peer has.                                 *)
LEMMA ProcessAvailabilityFacts ==
    ASSUME NEW S, Sound(S), NEW p \in Peer, NEW R, R = ProcessBlockAvailability(S, p)
    PROVE  /\ Sound(R) /\ Frame(S, R) /\ (Fits(S) => Fits(R))
           /\ R.known = S.known /\ R.data = S.data /\ R.failed = S.failed /\ R.tip = S.tip
<1>1. S \in MainState
  BY DEF Sound
<1> DEFINE n == S.node[p]
           v == IF Better(n.best, n.unknown) THEN n.unknown ELSE n.best
           m == [n EXCEPT !.best = v, !.unknown = None]
<1>2. CASE R = S
  BY <1>2, Zenon DEF Frame
<1>3. CASE R # S
  <2>1. n.unknown # None /\ R = [S EXCEPT !.node[p].best = v, !.node[p].unknown = None]
    BY <1>3 DEF ProcessBlockAvailability
  <2> HIDE DEF v
  <2>2. R = SetNode(S, p, m) /\ n \in NodeState
    BY <1>1, <2>1, ZenonT(40) DEF SetNode, MainState
  <2>3. v \in Block \cup {None}
    BY <2>2 DEF NodeState, v
  <2>4. /\ m \in NodeState /\ m.st = n.st /\ m.queue = n.queue /\ m.sync = n.sync
        /\ m.common = n.common /\ m.stalling = n.stalling
    BY <2>2, <2>3, Zenon DEF NodeState
  <2>5. p \in Nodes(S) => m.st \in {"on", "doomed"}
    BY <2>4 DEF Nodes
  <2> HIDE DEF m
  <2> QED
    BY <2>2, <2>4, <2>5, NodeChange
<1> QED
  BY <1>2, <1>3

(* UpdateBlockAvailability moves pindexBestKnownBlock and                  *)
(* hashLastUnknownBlock only.                                              *)
LEMMA UpdateAvailabilityFacts ==
    ASSUME NEW S, Sound(S), NEW p \in Peer, NEW b \in Block,
           NEW R, R = UpdateBlockAvailability(S, p, b)
    PROVE  /\ Sound(R) /\ Frame(S, R) /\ (Fits(S) => Fits(R))
           /\ R.known = S.known /\ R.data = S.data /\ R.failed = S.failed /\ R.tip = S.tip
<1> DEFINE M == ProcessBlockAvailability(S, p)
           n == M.node[p]
           v == IF Better(n.best, b) THEN b ELSE n.best
           m == IF b \in M.known THEN [n EXCEPT !.best = v] ELSE [n EXCEPT !.unknown = b]
<1>1. /\ Sound(M) /\ Frame(S, M) /\ (Fits(S) => Fits(M))
      /\ M.known = S.known /\ M.data = S.data /\ M.failed = S.failed /\ M.tip = S.tip
  BY ProcessAvailabilityFacts, Zenon
<1>2. R = IF b \in M.known THEN [M EXCEPT !.node[p].best = v]
          ELSE [M EXCEPT !.node[p].unknown = b]
  BY DEF UpdateBlockAvailability
<1> HIDE DEF M
<1>3. M \in MainState
  BY <1>1 DEF Sound
<1>4. R = SetNode(M, p, m) /\ n \in NodeState
  BY <1>2, <1>3 DEF SetNode, MainState
<1>5. v \in Block \cup {None}
  BY <1>4 DEF NodeState
<1> HIDE DEF v
<1>6. /\ m \in NodeState /\ m.st = n.st /\ m.queue = n.queue /\ m.sync = n.sync
      /\ m.common = n.common /\ m.stalling = n.stalling
  BY <1>4, <1>5 DEF NodeState
<1>7. p \in Nodes(M) => m.st \in {"on", "doomed"}
  BY <1>6 DEF Nodes
<1> HIDE DEF m
<1>8. /\ Sound(R) /\ Frame(M, R) /\ (Fits(M) => Fits(R))
      /\ R.known = M.known /\ R.data = M.data /\ R.failed = M.failed /\ R.tip = M.tip
  BY <1>1, <1>4, <1>6, <1>7, NodeChange
<1>9. Frame(S, R)
  BY <1>1, <1>8, FrameTransitive, Zenon
<1> QED
  BY <1>1, <1>8, <1>9

-----------------------------------------------------------------------------
(* What changes the blocks and leaves the peers alone.                     *)
LEMMA BlocksChange ==
    ASSUME NEW S, Sound(S), NEW R \in MainState, Closed(R), S.data \subseteq R.data,
           R.node = S.node, R.inFlight = S.inFlight, R.nDownloads = S.nDownloads,
           R.nSyncStarted = S.nSyncStarted
    PROVE  Sound(R) /\ Frame(S, R) /\ (Fits(S) => Fits(R))
<1>1. Frame(S, R)
  BY Zenon DEF Frame, Nodes
<1> QED
  BY <1>1, FrameKeeps, Zenon

(* More headers: what is known stays closed under its chains.              *)
AddKnown(S, K) == [S EXCEPT !.known = @ \cup K]

(* More headers keep the state sound when each comes with its ancestors.   *)
LEMMA KnownMore ==
    ASSUME NEW S, Sound(S), NEW K \in SUBSET Block,
           \A b \in K : Chain[b] \subseteq S.known \cup K,
           NEW R, R = AddKnown(S, K)
    PROVE  /\ Sound(R) /\ Frame(S, R) /\ (Fits(S) => Fits(R)) /\ R.node = S.node
           /\ R.known = S.known \cup K /\ R.data = S.data /\ R.failed = S.failed
           /\ R.tip = S.tip
<1>1. S \in MainState /\ Closed(S)
  BY DEF Sound
<1>2. /\ R \in MainState
      /\ R.known = S.known \cup K /\ R.data = S.data /\ R.failed = S.failed
      /\ R.tip = S.tip /\ R.node = S.node /\ R.inFlight = S.inFlight
      /\ R.nDownloads = S.nDownloads /\ R.nSyncStarted = S.nSyncStarted
  BY <1>1 DEF MainState, AddKnown
<1>3. \A b \in R.known : Chain[b] \subseteq R.known
  BY <1>1, <1>2, Zenon DEF Closed
<1>4. Closed(R)
  BY <1>1, <1>2, <1>3, Zenon DEF Closed, HaveChain
<1> QED
  BY <1>2, <1>4, BlocksChange, Zenon

(* The header of a child of a known block.                                 *)
LEMMA ChildKnown ==
    ASSUME NEW S, Sound(S), NEW b \in Block \ {Genesis}, Parent[b] \in S.known,
           NEW R, R = [S EXCEPT !.known = @ \cup {b}]
    PROVE  /\ Sound(R) /\ Frame(S, R) /\ (Fits(S) => Fits(R)) /\ R.node = S.node
           /\ R.known = S.known \cup {b} /\ R.data = S.data /\ R.failed = S.failed
           /\ R.tip = S.tip
<1> DEFINE K == {b}
<1>1. Chain[b] = {b} \cup Chain[Parent[b]]
  BY ChainDef
<1>2. K \in SUBSET Block /\ \A c \in K : Chain[c] \subseteq S.known \cup K
  BY <1>1 DEF Sound, Closed
<1>3. R = AddKnown(S, K)
  BY DEF AddKnown
<1>4. R.known = S.known \cup K => R.known = S.known \cup {b}
  OBVIOUS
<1> HIDE DEF K
<1> QED
  BY <1>2, <1>3, <1>4, KnownMore

(* Marking known blocks as failed.                                         *)
AddFailed(S, K) == [S EXCEPT !.failed = @ \cup K]

(* So do more failed blocks, when the headers are known.                   *)
LEMMA FailedMore ==
    ASSUME NEW S, Sound(S), NEW K, K \subseteq S.known,
           NEW R, R = AddFailed(S, K)
    PROVE  Sound(R) /\ Frame(S, R) /\ (Fits(S) => Fits(R)) /\ R.node = S.node
<1>1. S \in MainState /\ Closed(S)
  BY DEF Sound
<1>2. S.failed \cup K \in SUBSET Block
  BY <1>1 DEF MainState
<1>3. /\ R \in MainState
      /\ R.known = S.known /\ R.data = S.data /\ R.failed = S.failed \cup K
      /\ R.tip = S.tip /\ R.node = S.node /\ R.inFlight = S.inFlight
      /\ R.nDownloads = S.nDownloads /\ R.nSyncStarted = S.nSyncStarted
  BY <1>1, <1>2 DEF MainState, AddFailed
<1>4. Closed(R)
  BY <1>1, <1>3, Zenon DEF Closed, HaveChain
<1> QED
  BY <1>3, <1>4, BlocksChange, Zenon

(* ActivateBestChain ends at a block whose chain is there, and marks known *)
(* blocks only.                                                            *)
LEMMA ActivateFacts ==
    ASSUME NEW S, Sound(S), NEW R \in ActivateBestChain(S)
    PROVE  Sound(R) /\ Frame(S, R) /\ (Fits(S) => Fits(R))
<1> DEFINE candidates == {b \in S.data : HaveChain(S, b) /\ Chain[b] \cap S.failed = {}}
           valid == {b \in candidates : Chain[b] \cap Invalid = {}}
           longest == {b \in valid : \A c \in valid : nHeight[c] <= nHeight[b]}
           Ties(t) == IF t = S.tip THEN {}
                      ELSE {b \in candidates \ valid : nHeight[b] = nHeight[t]}
           Longer(t) == {b \in candidates : nHeight[b] > nHeight[t]}
           After(o) == [S EXCEPT !.tip = o[1],
                                 !.failed = @ \cup Broken(o[2] \cup Longer(o[1])),
                                 !.ibd = @ /\ nHeight[o[1]] < RecentHeight]
           Ends == IF S.tip \in longest THEN {S.tip} ELSE longest
<1>1. R \in {After(o) : o \in UNION {{t} \X SUBSET Ties(t) : t \in Ends}}
  BY Zenon DEF ActivateBestChain
<1>2. PICK o \in UNION {{t} \X SUBSET Ties(t) : t \in Ends} : R = After(o)
  BY <1>1, Zenon
<1>3. PICK t \in Ends : o \in {t} \X SUBSET Ties(t)
  BY <1>2
<1>4. S \in MainState /\ Closed(S)
  BY Zenon DEF Sound
<1>5. candidates \subseteq S.data /\ S.data \subseteq Block /\ S.data \subseteq S.known
  BY <1>4, Zenon DEF MainState, Closed
<1>6. o[1] \in S.data /\ HaveChain(S, o[1]) /\ o[1] \in Block /\ o[2] \subseteq candidates
  BY <1>3, <1>5, Zenon
<1> DEFINE B == o[2] \cup Longer(o[1])
           f == S.failed \cup Broken(B)
           t1 == o[1]
           i == S.ibd /\ nHeight[o[1]] < RecentHeight
<1>7. B \subseteq S.known /\ Broken(B) \subseteq S.known
  <2>1. B \subseteq S.known
    BY <1>5, <1>6, Zenon
  <2> HIDE DEF B
  <2>2. \A b \in B : Chain[b] \subseteq S.known
    BY <1>4, <2>1, Zenon DEF Closed
  <2> QED
    BY <2>1, <2>2, Zenon DEF Broken
<1>8. R = [S EXCEPT !.tip = t1, !.failed = f, !.ibd = i]
  BY <1>2
<1>9. i \in BOOLEAN
  BY <1>4, Zenon DEF MainState
<1> HIDE DEF i
<1>10. f \in SUBSET Block /\ f \subseteq S.known
  BY <1>4, <1>7, Zenon DEF MainState, Closed
<1> HIDE DEF f
<1>11. t1 \in S.data /\ HaveChain(S, t1) /\ t1 \in Block
  BY <1>6, Zenon
<1> HIDE DEF t1
<1>12. /\ R \in MainState
       /\ R.known = S.known /\ R.data = S.data /\ R.failed = f
       /\ R.tip = t1 /\ R.node = S.node /\ R.inFlight = S.inFlight
       /\ R.nDownloads = S.nDownloads /\ R.nSyncStarted = S.nSyncStarted
  BY <1>4, <1>8, <1>9, <1>10, <1>11, Zenon DEF MainState
<1>13. Closed(R)
  BY <1>4, <1>10, <1>11, <1>12, Zenon DEF Closed, HaveChain
<1> QED
  BY <1>12, <1>13, BlocksChange, Zenon

(* A header refused on top of a failed block marks known blocks only.      *)
LEMMA FailedChildFacts ==
    ASSUME NEW S, Sound(S), NEW b, Chain[Parent[b]] \subseteq S.known,
           NEW R, R = MarkFailedChild(S, b)
    PROVE  Sound(R) /\ Frame(S, R) /\ (Fits(S) => Fits(R))
<1> DEFINE K == {c \in Chain[Parent[b]] : Chain[c] \cap S.failed # {}}
<1>1. R = AddFailed(S, K) /\ K \subseteq S.known
  BY Zenon DEF MarkFailedChild, AddFailed
<1> HIDE DEF K
<1> QED
  BY <1>1, FailedMore, Zenon

(* ProcessNewBlock.                                                        *)
LEMMA ProcessNewFacts ==
    ASSUME NEW S, Sound(S), NEW b \in Block \ {Genesis}, NEW fForce,
           NEW R \in ProcessNewBlock(S, b, fForce)
    PROVE  Sound(R) /\ Frame(S, R) /\ (Fits(S) => Fits(R))
<1> DEFINE M == [S EXCEPT !.known = @ \cup {b}]
           X == [M EXCEPT !.data = @ \cup {b}]
<1>1. CASE R = S
  BY <1>1, Zenon DEF Frame
<1>2. CASE R # S
  <2>1. /\ Parent[b] \in S.known
        /\ \/ R = M \/ R \in ActivateBestChain(X) \/ R = AddFailed(M, {b})
           \/ R = MarkFailedChild(S, b)
    BY <1>2, Zenon DEF ProcessNewBlock, AddFailed
  <2>2. /\ Sound(M) /\ Frame(S, M) /\ (Fits(S) => Fits(M)) /\ M.node = S.node
        /\ M.known = S.known \cup {b} /\ M.data = S.data /\ M.failed = S.failed
        /\ M.tip = S.tip
    BY <2>1, ChildKnown, SMTT(40)
  <2> HIDE DEF M
  <2>3. M \in MainState /\ Closed(M)
    BY <2>2, Zenon DEF Sound
  <2>4. /\ X \in MainState
        /\ X.known = M.known /\ X.data = M.data \cup {b} /\ X.failed = M.failed
        /\ X.tip = M.tip /\ X.node = M.node /\ X.inFlight = M.inFlight
        /\ X.nDownloads = M.nDownloads /\ X.nSyncStarted = M.nSyncStarted
    BY <2>3 DEF MainState
  <2> HIDE DEF X
  <2>5. Closed(X)
    BY <2>2, <2>3, <2>4, Zenon DEF Closed, HaveChain
  <2>6. Sound(X) /\ Frame(M, X) /\ (Fits(M) => Fits(X))
    BY <2>2, <2>4, <2>5, BlocksChange, Zenon
  <2>7. CASE R = M
    BY <2>2, <2>7, Zenon
  <2>8. CASE R \in ActivateBestChain(X)
    <3>1. Sound(R) /\ Frame(X, R) /\ (Fits(X) => Fits(R))
      BY <2>6, <2>8, ActivateFacts
    <3>2. Frame(S, X)
      BY <2>2, <2>6, FrameTransitive, Zenon
    <3>3. Frame(S, R)
      BY <3>1, <3>2, FrameTransitive
    <3> QED
      BY <2>2, <2>6, <3>1, <3>3, Zenon
  <2>9. CASE R = AddFailed(M, {b})
    <3>1. Sound(R) /\ Frame(M, R) /\ (Fits(M) => Fits(R))
      BY <2>2, <2>9, FailedMore, Zenon
    <3> QED
      BY <2>2, <3>1, FrameTransitive, Zenon
  <2>10. CASE R = MarkFailedChild(S, b)
    <3>1. Chain[Parent[b]] \subseteq S.known
      BY <2>1, Zenon DEF Sound, Closed
    <3> QED
      BY <2>10, <3>1, FailedChildFacts, Zenon
  <2> QED
    BY <2>1, <2>7, <2>8, <2>9, <2>10, Zenon
<1> QED
  BY <1>1, <1>2

(* The length of a queue is a number.                                      *)
LEMMA LengthFacts ==
    ASSUME NEW S, Sound(S)
    PROVE  \A p \in Peer : Queue(S, p) \in Seq(Entry) /\ Len(Queue(S, p)) \in Nat
<1>1. \A p \in Peer : Queue(S, p) \in Seq(Entry)
  BY DEF Sound, MainState, NodeState, Queue
<1> QED
  BY <1>1, QueueFacts

(* Shorter queues fit where longer ones did.                               *)
LEMMA ShorterFits ==
    ASSUME NEW S, NEW R, Sound(S), Sound(R), Fits(S),
           \A p \in Peer : Len(Queue(R, p)) <= Len(Queue(S, p))
    PROVE  Fits(R)
BY LengthFacts, DownloadAssumption DEF Fits

-----------------------------------------------------------------------------
(* The block of an entry is what counts, not what is there of it.          *)
Flagged(q, b, v) ==
    [i \in DOMAIN q |-> IF q[i].block = b THEN [q[i] EXCEPT !.partial = v] ELSE q[i]]

(* The new queue has the blocks of the old one, in the same order.         *)
LEMMA FlaggedFacts ==
    ASSUME NEW q \in Seq(Entry), NEW b, NEW v \in PartialBlock
    PROVE  /\ Flagged(q, b, v) \in Seq(Entry) /\ Len(Flagged(q, b, v)) = Len(q)
           /\ BlocksOf(Flagged(q, b, v)) = BlocksOf(q)
           /\ Distinct(q) => Distinct(Flagged(q, b, v))
<1> DEFINE e == Flagged(q, b, v)
<1>1. DOMAIN q = 1 .. Len(q) /\ Len(q) \in Nat /\ \A i \in 1 .. Len(q) : q[i] \in Entry
  OBVIOUS
<1>2. DOMAIN e = 1 .. Len(q)
  BY <1>1 DEF Flagged
<1>3. ASSUME NEW i \in 1 .. Len(q) PROVE e[i] \in Entry /\ e[i].block = q[i].block
  <2>1. e[i] = IF q[i].block = b THEN [q[i] EXCEPT !.partial = v] ELSE q[i]
    BY <1>1 DEF Flagged
  <2>2. q[i] \in Entry
    BY <1>1
  <2> QED
    BY <2>1, <2>2, Zenon DEF Entry
<1>4. e = [i \in 1 .. Len(q) |-> e[i]]
  BY <1>1 DEF Flagged
<1> HIDE DEF e
<1>5. e \in [1 .. Len(q) -> Entry]
  BY <1>3, <1>4
<1>6. e \in Seq(Entry) /\ Len(e) = Len(q)
  BY <1>1, <1>5
<1>7. BlocksOf(e) = BlocksOf(q)
  BY <1>1, <1>2, <1>3 DEF BlocksOf
<1>8. Distinct(q) => Distinct(e)
  BY <1>1, <1>2, <1>3 DEF Distinct
<1> QED
  BY <1>6, <1>7, <1>8 DEF e

(* A queue with the same blocks keeps the state good.                      *)
LEMMA SameBlocks ==
    ASSUME NEW S, Good(S), NEW p \in Nodes(S), NEW m \in NodeState, NEW R,
           R = SetNode(S, p, m), Distinct(m.queue), Len(m.queue) = Len(Queue(S, p)),
           BlocksOf(m.queue) = BlocksOf(Queue(S, p)), m.st = S.node[p].st,
           m.sync = S.node[p].sync, m.common = S.node[p].common,
           m.stalling = S.node[p].stalling
    PROVE  Good(R) /\ Nodes(R) = Nodes(S)
<1>1. S \in MainState /\ Closed(S) /\ Exact(S) /\ Unskipped(S) /\ Fits(S) /\ p \in Peer
  BY Zenon DEF Good, Sound, Nodes
<1> DEFINE n == S.node[p]
           e == m.queue
<1>2. n \in NodeState /\ n.queue \in Seq(Entry) /\ Queue(S, p) = n.queue
  BY <1>1, Zenon DEF MainState, NodeState, Queue
<1>3. e \in Seq(Entry)
  BY Zenon DEF NodeState
<1>4. R = With(S, p, m, S.inFlight, S.nDownloads)
  BY <1>1, Zenon DEF With, SetNode, MainState
<1>5. /\ Distinct(e) /\ Len(e) = Len(n.queue) /\ BlocksOf(e) = BlocksOf(n.queue)
      /\ m.queue = e /\ m.st = n.st /\ m.sync = n.sync
      /\ m.common = n.common /\ m.stalling = n.stalling
  BY <1>2, Zenon
<1>6. S.inFlight \in InFlightMaps /\ S.nDownloads \in Int
  BY <1>1, Zenon DEF MainState
<1> HIDE DEF e
<1>7. /\ R \in MainState /\ R.node[p] = m /\ R.inFlight = S.inFlight
      /\ R.nDownloads = S.nDownloads /\ R.nSyncStarted = S.nSyncStarted
      /\ R.known = S.known /\ R.data = S.data /\ R.failed = S.failed /\ R.tip = S.tip
      /\ \A q \in Peer : q # p => R.node[q] = S.node[q]
  BY <1>1, <1>4, <1>5, <1>6, StateWith, SMTT(40)
<1>8. Nodes(R) = Nodes(S)
  BY <1>5, <1>7, Zenon DEF Nodes
<1>9. \A q \in Peer : From(R, q) = From(S, q) /\ (q # p => Queue(R, q) = Queue(S, q))
  BY <1>7, Zenon DEF From, Queue
<1>10. Queue(R, p) = e
  BY <1>5, <1>7, Zenon DEF Queue
<1>11. e # <<>> <=> n.queue # <<>>
  BY <1>2, <1>3, <1>5, QueueFacts, Zenon
<1>12. Busy(R) = Busy(S) /\ Syncing(R) = Syncing(S)
  BY <1>2, <1>5, <1>7, <1>9, <1>10, <1>11, SMTT(40) DEF Busy, Syncing
<1>13. \A q \in Peer : Distinct(Queue(R, q)) /\ BlocksOf(Queue(R, q)) = From(R, q)
  BY <1>1, <1>2, <1>5, <1>9, <1>10, Zenon DEF Exact
<1>14. \A q \in Peer : R.node[q].stalling # -1 => Queue(R, q) # <<>>
  BY <1>1, <1>2, <1>5, <1>7, <1>9, <1>10, <1>11, ZenonT(40) DEF Exact
<1>15. Exact(R)
  BY <1>1, <1>7, <1>8, <1>12, <1>13, <1>14, Zenon DEF Exact
<1>16. Closed(R) /\ Unskipped(R)
  BY <1>1, <1>5, <1>7, SMTT(40) DEF Closed, Unskipped, HaveChain
<1>17. Fits(R)
  BY <1>1, <1>2, <1>5, <1>9, <1>10, Zenon DEF Fits
<1> QED
  BY <1>7, <1>8, <1>15, <1>16, <1>17, Zenon DEF Good, Sound

(* SetPartial leaves a good state.                                         *)
LEMMA SetPartialFacts ==
    ASSUME NEW S, Good(S), NEW p \in Nodes(S), NEW b, NEW v \in PartialBlock,
           NEW R, R = SetPartial(S, p, b, v)
    PROVE  Good(R) /\ Nodes(R) = Nodes(S)
<1> DEFINE n == S.node[p]
           e == Flagged(n.queue, b, v)
           m == [n EXCEPT !.queue = e]
<1>1. R = SetNode(S, p, m)
  BY Zenon DEF SetPartial, SetNode, Flagged
<1>2. n \in NodeState /\ n.queue \in Seq(Entry) /\ Distinct(n.queue) /\ n.queue = Queue(S, p)
  BY Zenon DEF Good, Sound, MainState, NodeState, Exact, Queue, Nodes
<1>3. /\ e \in Seq(Entry) /\ Len(e) = Len(Queue(S, p))
      /\ BlocksOf(e) = BlocksOf(Queue(S, p)) /\ Distinct(e)
  BY <1>2, FlaggedFacts, Zenon
<1> HIDE DEF e
<1>4. /\ m \in NodeState /\ m.queue = e /\ m.st = n.st /\ m.sync = n.sync
      /\ m.common = n.common /\ m.stalling = n.stalling
  BY <1>2, <1>3, Zenon DEF NodeState
<1> HIDE DEF m
<1> QED
  BY <1>1, <1>3, <1>4, SameBlocks, Zenon

(* The handlers of the messages.                                           *)
LEMMA FillBlockFacts ==
    ASSUME NEW S, Good(S), NEW p \in Nodes(S), NEW b \in Block \ {Genesis},
           NEW fill \in Fill(b), NEW R \in FillBlock(S, p, b, fill)
    PROVE  Good(R)
<1> DEFINE M == MarkBlockAsReceived(S, b)
<1>1. Sound(S) /\ Fits(S) /\ b \in Block
  BY DEF Good
<1>2. /\ Sound(M) /\ Nodes(M) = Nodes(S)
      /\ \A q \in Peer : Len(Queue(M, q)) <= Len(Queue(S, q))
  BY <1>1, ReceivedFacts
<1>3. Fits(M)
  BY <1>1, <1>2, ShorterFits
<1>4. CASE fill = "invalid"
  <2>1. R = Misbehaving(M, p)
    BY <1>4 DEF FillBlock
  <2> HIDE DEF M
  <2> QED
    BY <1>2, <1>3, <2>1, MisbehavingFacts DEF Good
<1>5. CASE fill = "failed"
  <2> DEFINE used == "used"
  <2>1. R = SetPartial(S, p, b, used)
    BY <1>5, Zenon DEF FillBlock
  <2>2. used \in PartialBlock
    BY DEF PartialBlock
  <2> HIDE DEF used
  <2> QED
    BY <2>1, <2>2, SetPartialFacts, Zenon
<1>6. CASE fill = "ok"
  <2> DEFINE yes == TRUE
  <2>1. R \in ProcessNewBlock(M, b, yes)
    BY <1>6, Zenon DEF FillBlock
  <2> HIDE DEF M, yes
  <2> QED
    BY <1>2, <1>3, <2>1, ProcessNewFacts DEF Good
<1>7. CASE fill = "checkfailed"
  <2>1. R = M
    BY <1>7 DEF FillBlock
  <2> QED
    BY <1>2, <1>3, <2>1, Zenon DEF Good
<1> QED
  BY <1>4, <1>5, <1>6, <1>7 DEF Fill

(* A block rebuilt from a compact block leaves a good state.               *)
LEMMA ReconstructedFacts ==
    ASSUME NEW S, Good(S), NEW b \in Block \ {Genesis}, NEW R \in Reconstructed(S, b)
    PROVE  Good(R)
<1> DEFINE yes == TRUE
<1>1. PICK M \in ProcessNewBlock(S, b, yes) :
          R = IF b \in M.data \ M.failed THEN MarkBlockAsReceived(M, b) ELSE M
  BY Zenon DEF Reconstructed
<1> HIDE DEF yes
<1>2. Sound(S) /\ Fits(S) /\ b \in Block
  BY DEF Good
<1>3. Sound(M) /\ Fits(M)
  BY <1>1, <1>2, ProcessNewFacts, Zenon
<1>4. CASE R = MarkBlockAsReceived(M, b)
  <2>1. Sound(R) /\ \A q \in Peer : Len(Queue(R, q)) <= Len(Queue(M, q))
    BY <1>2, <1>3, <1>4, ReceivedFacts
  <2>2. Fits(R)
    BY <1>3, <2>1, ShorterFits
  <2> QED
    BY <2>1, <2>2 DEF Good
<1>5. CASE R = M
  BY <1>3, <1>5 DEF Good
<1> QED
  BY <1>1, <1>4, <1>5, Zenon

(* The handling of a compact block that may be fetched leaves a good       *)
(* state.                                                                  *)
LEMMA InitDataFacts ==
    ASSUME NEW S, Good(S), NEW p \in Nodes(S), NEW b \in Block \ {Genesis},
           NEW read, NEW fill \in Fill(b), b \in From(S, p) \/ Room(S, p) > 0,
           NEW R \in InitData(S, p, b, read, fill)
    PROVE  Good(R)
<1> DEFINE yes == "ready"
           M == MarkBlockAsInFlight(S, p, b, yes)
           Q == SetPartial(M, p, b, yes)
           X == MarkBlockAsReceived(Q, b)
<1>1. \/ R = S \/ R = Misbehaving(X, p) \/ R \in FillBlock(Q, p, b, fill) \/ R = Q
  BY Zenon DEF InitData
<1>2. Sound(S) /\ Fits(S) /\ b \in Block /\ p \in Peer
  BY Zenon DEF Good, Nodes
<1>3. yes \in PartialBlock
  BY DEF PartialBlock
<1> HIDE DEF yes
<1>4. /\ Sound(M) /\ Nodes(M) = Nodes(S)
      /\ Len(Queue(M, p)) <= Len(Queue(S, p)) + 1
      /\ b \in From(S, p) => M = S
      /\ \A q \in Peer \ {p} : Len(Queue(M, q)) <= Len(Queue(S, q))
  BY <1>2, <1>3, InFlightFacts
<1> HIDE DEF M
<1>5. Fits(M)
  <2>1. CASE b \in From(S, p)
    BY <1>2, <1>4, <2>1
  <2>2. CASE Room(S, p) > 0
    <3>1. /\ \A q \in Peer : Len(Queue(S, q)) \in Nat /\ Len(Queue(M, q)) \in Nat
          /\ MAX_BLOCKS_IN_TRANSIT_PER_PEER \in Nat
      BY <1>2, <1>4, LengthFacts, DownloadAssumption, Zenon
    <3>2. Len(Queue(M, p)) <= MAX_BLOCKS_IN_TRANSIT_PER_PEER
      <4>1. Room(S, p) = MAX_BLOCKS_IN_TRANSIT_PER_PEER - Len(Queue(S, p))
        BY DEF Room, Queue
      <4>2. /\ Len(Queue(S, p)) \in Nat /\ Len(Queue(M, p)) \in Nat
            /\ Len(Queue(M, p)) <= Len(Queue(S, p)) + 1
        BY <1>2, <1>4, <3>1
      <4> QED
        BY <2>2, <3>1, <4>1, <4>2
    <3> QED
      BY <1>2, <1>4, <3>1, <3>2, SMTT(40) DEF Fits
  <2> QED
    BY <2>1, <2>2
<1>6. Good(M) /\ p \in Nodes(M)
  BY <1>4, <1>5 DEF Good
<1>7. Good(Q) /\ Nodes(Q) = Nodes(M)
  <2>1. Q = SetPartial(M, p, b, yes)
    OBVIOUS
  <2> HIDE DEF Q
  <2> QED
    BY <1>3, <1>6, <2>1, SetPartialFacts
<1> HIDE DEF Q
<1>8. Good(X) /\ Nodes(X) = Nodes(Q)
  <2>1. Sound(X) /\ Nodes(X) = Nodes(Q) /\ \A q \in Peer : Len(Queue(X, q)) <= Len(Queue(Q, q))
    BY <1>2, <1>7, ReceivedFacts, Zenon DEF Good
  <2> QED
    BY <1>7, <2>1, ShorterFits, Zenon DEF Good
<1> HIDE DEF X
<1>9. CASE R = Misbehaving(X, p)
  BY <1>6, <1>7, <1>8, <1>9, MisbehavingFacts DEF Good
<1>10. CASE R \in FillBlock(Q, p, b, fill)
  BY <1>6, <1>7, <1>10, FillBlockFacts, Zenon
<1> QED
  BY <1>1, <1>7, <1>9, <1>10, Zenon

(* The blocks to fetch directly.                                           *)
LEMMA NeededFacts ==
    ASSUME NEW S, NEW to \in Block
    PROVE  Needed(S, to) \in Seq(Block)
<1> DEFINE N == nHeight[to]
           V == Seq(Block)
           E == <<>>
           Step(v, h) == IF GetAncestor(to, h) \in Chain[S.tip] \cup S.data \cup DOMAIN S.inFlight
                         THEN v ELSE Append(v, GetAncestor(to, h))
           F == [k \in 1 .. N |-> [v \in V |-> Step(v, k)]]
           Body(g) == [h \in 0 .. N |-> IF h = 0 THEN E ELSE Step(g[h - 1], h)]
           f == CHOOSE g : g = Body(g)
<1>1. N \in Nat /\ E \in V
  BY DownloadAssumption
<1>2. Needed(S, to) = f[N]
  BY DEF Needed
<1>3. ASSUME NEW k \in 1 .. N, NEW v \in V PROVE Step(v, k) \in V
  <2>1. k \in 0 .. nHeight[to]
    BY <1>1
  <2>2. GetAncestor(to, k) \in Block
    BY <2>1, AncestorFacts
  <2> QED
    BY <2>2
<1> HIDE DEF N, Step, V, E
<1>4. F \in [1 .. N -> [V -> V]]
  BY <1>3
<1>5. PICK g : LoopOf(g, N, V, E, F)
  <2> HIDE DEF F
  <2> QED
    BY <1>1, <1>4, LoopExists
<1>6. g \in [0 .. N -> V] /\ g[0] = E
  BY <1>5 DEF LoopOf
<1>7. g = Body(g)
  <2>1. ASSUME NEW k \in 1 .. N PROVE g[k] = Step(g[k - 1], k)
    <3>1. g[k] = F[k][g[k - 1]] /\ g[k - 1] \in V
      BY <1>1, <1>5, <1>6 DEF LoopOf
    <3> QED
      BY <3>1
  <2> QED
    BY <1>1, <1>6, <2>1
<1>8. f = Body(f)
  BY <1>7, Zenon
<1> HIDE DEF f
<1>9. f[0] = E /\ \A n \in 1 .. N : f[n] = Step(f[n - 1], n)
  BY <1>1, <1>8
<1> DEFINE G == {n \in 0 .. N : f[n] \in V}
<1>10. 0 \in G /\ \A k \in 1 .. N : k - 1 \in G => k \in G
  BY <1>1, <1>3, <1>9
<1>11. 0 .. N \subseteq G
  <2> HIDE DEF G
  <2> QED
    BY <1>1, <1>10, LoopInduct
<1> QED
  BY <1>1, <1>2, <1>11 DEF V

(* The first blocks of a sequence.                                         *)
LEMMA FirstBlocks ==
    ASSUME NEW s \in Seq(Block), NEW n \in 0 .. Len(s)
    PROVE  SubSeq(s, 1, n) \in Seq(Block) /\ Len(SubSeq(s, 1, n)) = n
<1> DEFINE t == [k \in 1 .. n |-> s[k]]
<1>1. Len(s) \in Nat /\ \A k \in 1 .. Len(s) : s[k] \in Block
  OBVIOUS
<1>2. t \in [1 .. n -> Block]
  BY <1>1
<1>3. t \in Seq(Block) /\ Len(t) = n
  BY <1>1, <1>2
<1>4. SubSeq(s, 1, n) = t
  OBVIOUS
<1> QED
  BY <1>3, <1>4

(* What is marked from a peer fits in its queue.                           *)
LEMMA MarkedGood ==
    ASSUME NEW S, Good(S), NEW p \in Nodes(S), NEW blocks \in Seq(Block),
           Len(blocks) <= Room(S, p), NEW R, R = MarkBlocksAsInFlight(S, p, blocks)
    PROVE  Good(R)
<1>1. Sound(S) /\ Fits(S) /\ p \in Peer
  BY Zenon DEF Good, Nodes
<1>2. /\ Sound(R)
      /\ Len(Queue(R, p)) <= Len(Queue(S, p)) + Len(blocks)
      /\ \A q \in Peer \ {p} : Len(Queue(R, q)) <= Len(Queue(S, q))
  BY <1>1, MarkedFacts
<1>3. Room(S, p) = MAX_BLOCKS_IN_TRANSIT_PER_PEER - Len(Queue(S, p))
  BY DEF Room, Queue
<1>4. /\ \A q \in Peer : Len(Queue(S, q)) \in Nat /\ Len(Queue(R, q)) \in Nat
      /\ MAX_BLOCKS_IN_TRANSIT_PER_PEER \in Nat /\ Len(blocks) \in Nat
  BY <1>1, <1>2, LengthFacts, DownloadAssumption
<1>5. Len(Queue(R, p)) <= MAX_BLOCKS_IN_TRANSIT_PER_PEER
  <2>1. Len(Queue(S, p)) \in Nat /\ Len(Queue(R, p)) \in Nat
    BY <1>1, <1>4
  <2> QED
    BY <1>2, <1>3, <1>4, <2>1
<1>6. Fits(R)
  BY <1>1, <1>2, <1>4, <1>5 DEF Fits
<1> QED
  BY <1>2, <1>6 DEF Good

(* The direct fetch of ProcessHeadersMessage asks for no more blocks than  *)
(* there is room for.                                                      *)
LEMMA DirectFetchFacts ==
    ASSUME NEW S, Good(S), NEW p \in Nodes(S), NEW to \in Block,
           NEW R, R = DirectFetch(S, p, to)
    PROVE  Good(R)
<1> DEFINE need == Needed(S, to)
           n == IF Room(S, p) < 0 THEN 0
                ELSE IF Len(need) < Room(S, p) THEN Len(need) ELSE Room(S, p)
           blocks == SubSeq(need, 1, n)
<1>1. R = S \/ R = MarkBlocksAsInFlight(S, p, blocks)
  BY Zenon DEF DirectFetch
<1>2. need \in Seq(Block)
  BY NeededFacts
<1>3. Len(need) \in Nat
  BY <1>2
<1>4. Room(S, p) \in Nat
  <2>1. Len(Queue(S, p)) \in Nat /\ Len(Queue(S, p)) <= MAX_BLOCKS_IN_TRANSIT_PER_PEER
    BY LengthFacts, Zenon DEF Good, Fits, Nodes
  <2>2. Room(S, p) = MAX_BLOCKS_IN_TRANSIT_PER_PEER - Len(Queue(S, p))
    BY DEF Room, Queue
  <2> QED
    BY <2>1, <2>2, DownloadAssumption
<1> HIDE DEF need
<1>5. n \in 0 .. Len(need) /\ n <= Room(S, p)
  BY <1>3, <1>4
<1> HIDE DEF n
<1>6. blocks \in Seq(Block) /\ Len(blocks) <= Room(S, p)
  BY <1>2, <1>5, FirstBlocks
<1> HIDE DEF blocks
<1> QED
  BY <1>1, <1>6, MarkedGood

(* Frame keeps the rest of what the handlers ask for.                      *)
LEMMA FrameNodes ==
    ASSUME NEW S, NEW R, Frame(S, R)
    PROVE  /\ Nodes(S) \subseteq Nodes(R)
           /\ \A p \in Peer : Room(R, p) = Room(S, p) /\ From(R, p) = From(S, p)
BY Zenon DEF Frame, Room, From

(* A getheaders more, or an answer to one.                                 *)
WithAsked(S, p, v) == [S EXCEPT !.node[p].asked = v]

(* It leaves a good state.                                                 *)
LEMMA AskedFacts ==
    ASSUME NEW S, Good(S), NEW p \in Nodes(S), NEW v \in BOOLEAN,
           NEW R, R = WithAsked(S, p, v)
    PROVE  /\ Good(R) /\ p \in Nodes(R) /\ R.known = S.known /\ R.data = S.data
           /\ R.failed = S.failed /\ R.tip = S.tip
<1> DEFINE n == S.node[p]
           m == [n EXCEPT !.asked = v]
<1>1. S \in MainState /\ p \in Peer /\ Sound(S) /\ Fits(S) /\ n.st \in {"on", "doomed"}
  BY Zenon DEF Good, Sound, Nodes
<1>2. R = SetNode(S, p, m) /\ n \in NodeState
  BY <1>1 DEF WithAsked, SetNode, MainState
<1>3. /\ m \in NodeState /\ m.st = n.st /\ m.queue = n.queue /\ m.sync = n.sync
      /\ m.common = n.common /\ m.stalling = n.stalling
  BY <1>2 DEF NodeState
<1> HIDE DEF m
<1>4. /\ Sound(R) /\ Fits(R) /\ R.node[p] = m
      /\ R.known = S.known /\ R.data = S.data /\ R.failed = S.failed /\ R.tip = S.tip
  BY <1>1, <1>2, <1>3, NodeChange
<1> QED
  BY <1>1, <1>3, <1>4, Zenon DEF Good, Nodes

(* m_chain_sync changes.                                                   *)
WithChainSync(S, p, c) == [S EXCEPT !.node[p].m_chain_sync = c]

(* It leaves a good state.                                                 *)
LEMMA ChainSyncFacts ==
    ASSUME NEW S, Good(S), NEW p \in Peer, NEW c \in ChainSyncTimeoutState,
           NEW R, R = WithChainSync(S, p, c)
    PROVE  Good(R) /\ Frame(S, R)
<1> DEFINE n == S.node[p]
           m == [n EXCEPT !.m_chain_sync = c]
<1>1. S \in MainState /\ Sound(S) /\ Fits(S)
  BY Zenon DEF Good, Sound
<1>2. R = SetNode(S, p, m) /\ n \in NodeState
  BY <1>1 DEF WithChainSync, SetNode, MainState
<1>3. /\ m \in NodeState /\ m.st = n.st /\ m.queue = n.queue /\ m.sync = n.sync
      /\ m.common = n.common /\ m.stalling = n.stalling
  BY <1>2 DEF NodeState
<1> HIDE DEF m
<1>4. p \in Nodes(S) => m.st \in {"on", "doomed"}
  BY <1>3, Zenon DEF Nodes
<1>5. Sound(R) /\ Frame(S, R) /\ Fits(R)
  BY <1>1, <1>2, <1>3, <1>4, NodeChange
<1> QED
  BY <1>5, Zenon DEF Good

(* What m_chain_sync is set to has its type.                               *)
LEMMA ChainSyncTypes ==
    /\ NoChainSync \in ChainSyncTimeoutState
    /\ [NoChainSync EXCEPT !.m_protect = TRUE] \in ChainSyncTimeoutState
    /\ \A b \in Block : [NoChainSync EXCEPT !.age = 0, !.m_work_header = b]
                            \in ChainSyncTimeoutState
    /\ \A c \in ChainSyncTimeoutState :
          [c EXCEPT !.age = 0, !.m_sent_getheaders = TRUE] \in ChainSyncTimeoutState
<1> DEFINE T == -1 .. CHAIN_SYNC_TIMEOUT + HEADERS_RESPONSE_TIME + 1
           o == -1
           z == 0
<1>1. o \in T /\ z \in T
  BY DownloadAssumption
<1>2. NoChainSync = [age |-> o, m_work_header |-> None, m_sent_getheaders |-> FALSE,
                     m_protect |-> FALSE]
  BY DEF NoChainSync
<1>3. ChainSyncTimeoutState = [age: T, m_work_header: Block \cup {None},
                               m_sent_getheaders: BOOLEAN, m_protect: BOOLEAN]
  BY DEF ChainSyncTimeoutState
<1> HIDE DEF T, o
<1>4. NoChainSync \in ChainSyncTimeoutState
  BY <1>1, <1>2, <1>3
<1>5. [NoChainSync EXCEPT !.m_protect = TRUE] \in ChainSyncTimeoutState
  BY <1>3, <1>4
<1>6. \A b \in Block : [NoChainSync EXCEPT !.age = z, !.m_work_header = b] \in ChainSyncTimeoutState
  <2> HIDE DEF z
  <2> QED
    BY <1>1, <1>3, <1>4
<1>7. \A c \in ChainSyncTimeoutState :
          [c EXCEPT !.age = z, !.m_sent_getheaders = TRUE] \in ChainSyncTimeoutState
  <2> HIDE DEF z
  <2> QED
    BY <1>1, <1>3
<1> QED
  BY <1>4, <1>5, <1>6, <1>7, Zenon

(* A peer is protected or not.                                             *)
LEMMA ProtectFacts ==
    ASSUME NEW S, Good(S), NEW p \in Peer, NEW R, R = Protect(S, p)
    PROVE  Good(R)
<1> DEFINE c == [NoChainSync EXCEPT !.m_protect = TRUE]
<1>1. R = S \/ R = WithChainSync(S, p, c)
  BY Zenon DEF Protect, WithChainSync
<1>2. c \in ChainSyncTimeoutState
  BY ChainSyncTypes, Zenon
<1> HIDE DEF c
<1> QED
  BY <1>1, <1>2, ChainSyncFacts, Zenon

(* The headers up to the first that is refused extend a known chain.       *)
HeadersFrom(f, t) == {b \in Chain[t] : f \in Chain[b]}
Accepted(f, t, bad) == {b \in HeadersFrom(f, t) : Chain[b] \cap bad = {}}
FirstOf(bad) == CHOOSE b \in bad : \A c \in bad : nHeight[b] <= nHeight[c]

(* They are headers, and so are their ancestors.                           *)
LEMMA HeadersKnown ==
    ASSUME NEW S, Good(S), NEW f \in Block \ {Genesis}, NEW t \in Block, f \in Chain[t],
           Parent[f] \in S.known, NEW bad \in SUBSET HeadersFrom(f, t),
           NEW K, K = Accepted(f, t, bad)
    PROVE  /\ K \in SUBSET Block
           /\ \A b \in K : Chain[b] \subseteq S.known \cup K
<1>1. Closed(S) /\ S \in MainState
  BY Zenon DEF Good, Sound
<1>2. Chain[t] \in SUBSET Block
  BY ChainFacts, Zenon
<1>3. Chain[Parent[f]] \subseteq S.known /\ Chain[f] = {f} \cup Chain[Parent[f]]
  BY <1>1, ChainDef, Zenon DEF Closed
<1>4. ASSUME NEW b \in K, NEW c \in Chain[b] PROVE c \in S.known \cup K
  <2>1. b \in Chain[t] /\ b \in Block /\ f \in Chain[b] /\ Chain[b] \cap bad = {}
    BY <1>2, Zenon DEF Accepted, HeadersFrom
  <2>2. Chain[b] \subseteq Chain[t] /\ c \in Chain[t] /\ c \in Block
    BY <1>2, <2>1, ChainFacts, Zenon
  <2>3. Chain[c] \subseteq Chain[b]
    BY <2>1, ChainFacts, Zenon
  <2>4. c \in Chain[f] \/ f \in Chain[c]
    BY <2>1, <2>2, ChainLinear, Zenon
  <2>5. CASE f \in Chain[c]
    BY <2>1, <2>2, <2>3, <2>5, Zenon DEF Accepted, HeadersFrom
  <2>6. CASE c \in Chain[f] /\ c # f
    BY <1>3, <2>6, Zenon
  <2>7. f \in Chain[f]
    BY ChainFacts, Zenon
  <2> QED
    BY <2>4, <2>5, <2>6, <2>7, Zenon
<1> QED
  BY <1>2, <1>4, Zenon DEF Accepted, HeadersFrom

(* The chain below the first header that is refused is known then.         *)
LEMMA FirstBad ==
    ASSUME NEW S, Good(S), NEW f \in Block \ {Genesis}, NEW t \in Block, f \in Chain[t],
           Parent[f] \in S.known, NEW bad \in SUBSET HeadersFrom(f, t),
           NEW K, K = Accepted(f, t, bad),
           bad # {}, NEW first, first = FirstOf(bad)
    PROVE  first \notin S.known => Chain[Parent[first]] \subseteq S.known \cup K
<1>1. Closed(S)
  BY Zenon DEF Good, Sound
<1>2. Chain[t] \in SUBSET Block /\ bad \subseteq Block /\ bad \subseteq Chain[t]
  BY ChainFacts, Zenon DEF HeadersFrom
<1>3. \E b \in bad : \A c \in bad : nHeight[b] <= nHeight[c]
  <2> DEFINE H == {nHeight[b] : b \in bad}
  <2>1. H \subseteq Nat /\ H # {}
    BY <1>2, DownloadAssumption, SMTT(40)
  <2>2. PICK n \in H : \A m \in H : n <= m
    <3> HIDE DEF H
    <3> QED
      BY <2>1, LeastNat, Zenon
  <2> QED
    BY <2>2, Zenon
<1>4. first \in bad /\ \A c \in bad : nHeight[first] <= nHeight[c]
  BY <1>3, Zenon DEF FirstOf
<1>5. first \in Block /\ first \in Chain[t] /\ f \in Chain[first]
  BY <1>2, <1>4, Zenon DEF HeadersFrom
<1> SUFFICES ASSUME first \notin S.known PROVE Chain[Parent[first]] \subseteq S.known \cup K
  BY Zenon
<1>6. first # Genesis
  BY <1>1, Zenon DEF Closed
<1>7. /\ Chain[first] = {first} \cup Chain[Parent[first]] /\ Parent[first] \in Block
      /\ nHeight[first] = nHeight[Parent[first]] + 1
  BY <1>5, <1>6, ChainDef, DownloadAssumption, Zenon
<1>8. CASE first = f
  BY <1>1, <1>8, Zenon DEF Closed
<1>9. CASE first # f
  <2>1. f \in Chain[Parent[first]]
    BY <1>5, <1>7, <1>9, Zenon
  <2>2. Parent[first] \in Chain[t]
    <3>1. Parent[first] \in Chain[first] /\ Chain[first] \subseteq Chain[t]
      BY <1>5, <1>7, ChainFacts, Zenon
    <3> QED
      BY <3>1, Zenon
  <2>3. Chain[Parent[first]] \cap bad = {}
    <3>1. ASSUME NEW c \in Chain[Parent[first]], c \in bad PROVE FALSE
      <4>1. nHeight[c] <= nHeight[Parent[first]]
        BY <1>7, ChainFacts, Zenon
      <4>2. nHeight[first] <= nHeight[c] /\ c \in Block
        BY <1>2, <1>4, <3>1, Zenon
      <4>3. nHeight[c] \in Nat /\ nHeight[Parent[first]] \in Nat
        BY <1>7, <4>2, DownloadAssumption, Zenon
      <4> QED
        BY <1>7, <4>1, <4>2, <4>3, SMTT(40)
    <3> QED
      BY <3>1, Zenon
  <2>4. Parent[first] \in K
    BY <2>1, <2>2, <2>3, Zenon DEF Accepted, HeadersFrom
  <2> QED
    BY <2>4, HeadersKnown, Zenon
<1> QED
  BY <1>8, <1>9, Zenon

(* ProcessHeadersMessage leaves a good state, whichever way it returns.    *)
LEMMA HeadersFacts ==
    ASSUME NEW S0, Good(S0), NEW p \in Nodes(S0), NEW f \in Block \ {Genesis},
           NEW t \in Block, f \in Chain[t], NEW fPunish, NEW fDirect,
           NEW Z, Z = ProcessHeadersMessage(S0, p, f, t, fPunish, fDirect)
    PROVE  Good(Z)
<1> DEFINE no == FALSE
           prompt == p \in Prompt
           S == WithAsked(S0, p, no)
           bad == {b \in HeadersFrom(f, t) : ~HeaderValid(S, b)}
           K == Accepted(f, t, bad)
           R == AddKnown(S, K)
           first == FirstOf(bad)
           more == p \in Prompt /\ nHeight[t] - nHeight[f] + 1 = MAX_HEADERS_RESULTS
           U == UpdateBlockAvailability(R, p, t)
           A == WithAsked(U, p, more)
           D == DirectFetch(A, p, t)
           B == UpdateBlockAvailability(S, p, t)
           X == MarkFailedChild(R, first)
<1>1. \/ Parent[f] \notin S.known /\ (Z = S \/ Z = WithAsked(B, p, prompt))
      \/ /\ Parent[f] \in S.known
         /\ \/ Z = R \/ Z = [R EXCEPT !.node[p].st = "doomed"]
            \/ bad # {} /\ first \notin S.known /\ Z = Misbehaving(X, p)
            \/ Z = Protect(A, p) \/ Z = Protect(D, p)
  BY Zenon DEF ProcessHeadersMessage, AddKnown, WithAsked, HeadersFrom, Accepted, FirstOf
<1>2. no \in BOOLEAN /\ prompt \in BOOLEAN /\ more \in BOOLEAN /\ p \in Peer
  BY SMTT(40) DEF Nodes
<1> HIDE DEF no, prompt, more
<1>3. Good(S) /\ p \in Nodes(S)
  BY <1>2, AskedFacts, Zenon
<1> HIDE DEF S
<1>4. CASE Z = WithAsked(B, p, prompt)
  <2>1. Good(B) /\ Frame(S, B)
    BY <1>2, <1>3, UpdateAvailabilityFacts, Zenon DEF Good
  <2>2. p \in Nodes(B)
    BY <1>3, <2>1, FrameNodes, Zenon
  <2> HIDE DEF B
  <2> QED
    BY <1>2, <1>4, <2>1, <2>2, AskedFacts, Zenon
<1>5. CASE Parent[f] \in S.known
  <2>1. bad \in SUBSET HeadersFrom(f, t)
    BY Zenon
  <2> HIDE DEF bad
  <2>2. K \in SUBSET Block /\ \A b \in K : Chain[b] \subseteq S.known \cup K
    BY <1>3, <1>5, <2>1, HeadersKnown, Zenon
  <2>3. bad # {} /\ first \notin S.known => Chain[Parent[first]] \subseteq S.known \cup K
    BY <1>3, <1>5, <2>1, FirstBad, Zenon
  <2> HIDE DEF K, first
  <2>4. Good(R) /\ Frame(S, R) /\ R.known = S.known \cup K /\ R.failed = S.failed
    <3>1. Sound(S) /\ Fits(S)
      BY <1>3, Zenon DEF Good
    <3>2. Sound(R) /\ Frame(S, R) /\ Fits(R) /\ R.known = S.known \cup K /\ R.failed = S.failed
      BY <2>2, <3>1, KnownMore
    <3> QED
      BY <3>2, Zenon DEF Good
  <2>5. p \in Nodes(R)
    BY <1>3, <2>4, FrameNodes, Zenon
  <2> HIDE DEF R
  <2>6. Good(A) /\ p \in Nodes(A)
    <3>1. Good(U) /\ Frame(R, U)
      BY <1>2, <2>4, UpdateAvailabilityFacts, Zenon DEF Good
    <3>2. p \in Nodes(U)
      BY <2>5, <3>1, FrameNodes, Zenon
    <3> HIDE DEF U
    <3> QED
      BY <1>2, <3>1, <3>2, AskedFacts, Zenon
  <2> HIDE DEF A
  <2>7. CASE Z = [R EXCEPT !.node[p].st = "doomed"]
    BY <2>4, <2>5, <2>7, MisbehavingFacts DEF Good
  <2>8. CASE bad # {} /\ first \notin S.known /\ Z = Misbehaving(X, p)
    <3>1. Chain[Parent[first]] \subseteq R.known
      BY <2>3, <2>4, <2>8, Zenon
    <3>2. Sound(X) /\ Fits(X) /\ Frame(R, X)
      BY <2>4, <3>1, FailedChildFacts, Zenon DEF Good
    <3>3. p \in Nodes(X)
      BY <2>5, <3>2, FrameNodes, Zenon
    <3> HIDE DEF X
    <3> QED
      BY <2>8, <3>2, <3>3, MisbehavingFacts DEF Good
  <2>9. CASE Z = Protect(A, p)
    BY <1>2, <2>6, <2>9, ProtectFacts, Zenon
  <2>10. CASE Z = Protect(D, p)
    <3>1. Good(D)
      BY <2>6, DirectFetchFacts, Zenon
    <3> HIDE DEF D
    <3> QED
      BY <1>2, <2>10, <3>1, ProtectFacts, Zenon
  <2> QED
    BY <1>1, <1>5, <2>4, <2>7, <2>8, <2>9, <2>10, Zenon
<1> QED
  BY <1>1, <1>3, <1>4, <1>5, Zenon

(* The handler of cmpctblock leaves a good state, whichever way it         *)
(* returns.                                                                *)
LEMMA CompactFacts ==
    ASSUME NEW S, Good(S), NEW p \in Nodes(S), NEW b \in Block \ {Genesis}, NEW read,
           NEW fill \in Fill(b), NEW fDirect, NEW R \in CompactBlock(S, p, b, read, fill, fDirect)
    PROVE  Good(R)
<1> DEFINE no == FALSE
           M == AddKnown(S, {b})
           A == UpdateBlockAvailability(M, p, b)
           X == MarkFailedChild(S, b)
           mine == b \in DOMAIN S.inFlight /\ S.inFlight[b] = p
<1>1. \/ R = S
      \/ /\ Parent[b] \in S.known
         /\ \/ R = Misbehaving(X, p) \/ R = A
            \/ R = ProcessHeadersMessage(A, p, b, b, no, fDirect)
            \/ (mine \/ Room(A, p) > 0) /\ R \in InitData(A, p, b, read, fill)
            \/ R \in Reconstructed(A, b)
  BY Zenon DEF CompactBlock, AddKnown
<1> HIDE DEF no
<1>2. Sound(S) /\ Fits(S) /\ b \in Block /\ b \in Chain[b] /\ p \in Peer
  BY ChainFacts, Zenon DEF Good, Nodes
<1>3. CASE R = S
  BY <1>3
<1>4. CASE Parent[b] \in S.known
  <2>1. Sound(M) /\ Frame(S, M) /\ Fits(M)
    BY <1>2, <1>4, ChildKnown, SMTT(40) DEF AddKnown
  <2>2. Chain[Parent[b]] \subseteq S.known
    BY <1>2, <1>4, Zenon DEF Sound, Closed
  <2> HIDE DEF M
  <2>3. Good(A) /\ Frame(M, A)
    BY <1>2, <2>1, UpdateAvailabilityFacts, Zenon DEF Good
  <2> HIDE DEF A
  <2>4. /\ p \in Nodes(A) /\ From(A, p) = From(S, p)
    BY <1>2, <2>1, <2>3, FrameNodes, ZenonT(40)
  <2>5. CASE R = Misbehaving(X, p)
    <3>1. Sound(X) /\ Fits(X) /\ Frame(S, X)
      BY <1>2, <2>2, FailedChildFacts, Zenon
    <3>2. p \in Nodes(X)
      BY <3>1, FrameNodes, Zenon
    <3> HIDE DEF X
    <3> QED
      BY <2>5, <3>1, <3>2, MisbehavingFacts DEF Good
  <2>6. CASE R = ProcessHeadersMessage(A, p, b, b, no, fDirect)
    BY <1>2, <2>3, <2>4, <2>6, HeadersFacts, Zenon
  <2>7. CASE (mine \/ Room(A, p) > 0) /\ R \in InitData(A, p, b, read, fill)
    <3>1. mine => b \in From(A, p)
      BY <2>4, Zenon DEF From
    <3> HIDE DEF mine
    <3> QED
      BY <2>3, <2>4, <2>7, <3>1, InitDataFacts, Zenon
  <2>8. CASE R \in Reconstructed(A, b)
    BY <2>3, <2>8, ReconstructedFacts, Zenon
  <2> QED
    BY <1>1, <1>3, <2>3, <2>5, <2>6, <2>7, <2>8, Zenon
<1> QED
  BY <1>1, <1>3, <1>4, Zenon

-----------------------------------------------------------------------------
(* What FindNextBlocksToDownload accumulates: blocks for the room there is,*)
(* a block below which nothing is missing, and a staller only when there   *)
(* is nothing to fetch, one that has a block in flight.                    *)
Accs == [common: Block \cup {None}, fetch: Seq(Block), waitingfor: Peer \cup {0},
         staller: Peer \cup {0}, done: BOOLEAN]

Owes(S, q) == q = 0 \/ \E b \in DOMAIN S.inFlight : S.inFlight[b] = q

FoundBy(S, count, acc) ==
    /\ acc \in Accs
    /\ acc.common # None => HaveChain(S, acc.common)
    /\ Len(acc.fetch) <= count /\ (acc.done = FALSE => Len(acc.fetch) < count)
    /\ Owes(S, acc.waitingfor) /\ Owes(S, acc.staller)
    /\ acc.staller # 0 => acc.fetch = <<>> /\ acc.done = TRUE

(* A round of the loop keeps what the walk has gathered: a common block    *)
(* with all that is below it, distinct blocks to fetch that are in no      *)
(* queue, and a peer to blame that owes a block.                           *)
LEMMA NextBlockFacts ==
    ASSUME NEW S, Sound(S), NEW p, NEW count \in Nat, NEW nWindowEnd, NEW acc,
           FoundBy(S, count, acc), NEW b \in Block,
           NEW R, R = NextBlock(S, p, count, nWindowEnd, acc, b)
    PROVE  FoundBy(S, count, R)
<1>1. /\ acc \in Accs /\ acc.fetch \in Seq(Block) /\ Len(acc.fetch) \in Nat
      /\ acc.done \in BOOLEAN /\ acc.waitingfor \in Peer \cup {0}
  BY DEF FoundBy, Accs
<1>2. CASE R = acc
  BY <1>2, Zenon
<1>3. CASE ~acc.done /\ R = [acc EXCEPT !.done = TRUE]
  BY <1>1, <1>3, Zenon DEF FoundBy, Accs
<1>4. CASE ~acc.done /\ R = [acc EXCEPT !.common = IF HaveChain(S, b) THEN b ELSE @]
  <2>1. R.common = IF HaveChain(S, b) THEN b ELSE acc.common
    BY <1>1, <1>4 DEF Accs
  <2>2. R \in Accs /\ R.fetch = acc.fetch /\ R.waitingfor = acc.waitingfor
        /\ R.staller = acc.staller /\ R.done = acc.done
    BY <1>1, <1>4 DEF Accs
  <2> QED
    BY <2>1, <2>2, Zenon DEF FoundBy
<1>5. CASE /\ ~acc.done /\ b \in DOMAIN S.inFlight
           /\ R = [acc EXCEPT !.waitingfor = IF @ = 0 THEN S.inFlight[b] ELSE @]
  <2>1. S.inFlight[b] \in Peer
    BY <1>5 DEF Sound, Exact, Nodes
  <2>2. R.waitingfor = IF acc.waitingfor = 0 THEN S.inFlight[b] ELSE acc.waitingfor
    BY <1>1, <1>5 DEF Accs
  <2>3. R \in Accs /\ R.fetch = acc.fetch /\ R.common = acc.common
        /\ R.staller = acc.staller /\ R.done = acc.done
    BY <1>1, <1>5, <2>1 DEF Accs
  <2>4. Owes(S, R.waitingfor)
    BY <1>5, <2>2 DEF FoundBy, Owes
  <2> QED
    BY <2>3, <2>4, Zenon DEF FoundBy
<1>6. CASE /\ ~acc.done
           /\ R = [acc EXCEPT !.done = TRUE,
                              !.staller = IF acc.fetch = <<>> /\ acc.waitingfor # p
                                          THEN acc.waitingfor ELSE @]
  <2>1. R.staller = IF acc.fetch = <<>> /\ acc.waitingfor # p THEN acc.waitingfor
                    ELSE acc.staller
    BY <1>1, <1>6 DEF Accs
  <2>2. R \in Accs /\ R.fetch = acc.fetch /\ R.common = acc.common
        /\ R.waitingfor = acc.waitingfor /\ R.done = TRUE
    BY <1>1, <1>6, Zenon DEF Accs
  <2>3. acc.staller = 0
    BY <1>6 DEF FoundBy
  <2> QED
    BY <2>1, <2>2, <2>3, Zenon DEF FoundBy, Owes
<1>7. CASE /\ ~acc.done
           /\ R = [acc EXCEPT !.fetch = Append(@, b), !.done = Len(acc.fetch) + 1 = count]
  <2> DEFINE s == Append(acc.fetch, b)
             d == Len(acc.fetch) + 1 = count
  <2>1. s \in Seq(Block) /\ Len(s) = Len(acc.fetch) + 1
    BY <1>1
  <2>2. R = [acc EXCEPT !.fetch = s, !.done = d] /\ d \in BOOLEAN
    BY <1>7
  <2> HIDE DEF s, d
  <2>3. R \in Accs /\ R.fetch = s /\ R.common = acc.common
        /\ R.waitingfor = acc.waitingfor /\ R.staller = acc.staller /\ R.done = d
    BY <1>1, <2>1, <2>2, Zenon DEF Accs
  <2>4. acc.staller = 0 /\ Len(acc.fetch) < count
    BY <1>1, <1>7 DEF FoundBy
  <2>5. Len(s) <= count /\ (d = FALSE => Len(s) < count)
    BY <1>1, <2>1, <2>4 DEF d
  <2> QED
    BY <2>3, <2>4, <2>5, Zenon DEF FoundBy
<1> QED
  BY <1>2, <1>3, <1>4, <1>5, <1>6, <1>7 DEF NextBlock

(* FindNextBlocksToDownload returns such a result.                         *)
LEMMA FindFacts ==
    ASSUME NEW S, Sound(S), NEW p \in Peer, NEW count \in Nat, count > 0,
           NEW Z, Z = FindNextBlocksToDownload(S, p, count)
    PROVE  FoundBy(S, count, Z)
<1> DEFINE best == S.node[p].best
           no == FALSE
           none == [common |-> S.node[p].common, fetch |-> <<>>,
                    waitingfor |-> 0, staller |-> 0, done |-> no]
           guess == IF S.node[p].common # None THEN S.node[p].common ELSE S.tip
           start == LastCommonAncestor(guess, best)
           nWindowEnd == nHeight[start] + BLOCK_DOWNLOAD_WINDOW
           nMaxHeight == IF nHeight[best] < nWindowEnd + 1
                         THEN nHeight[best] ELSE nWindowEnd + 1
           N == nMaxHeight - nHeight[start]
           acc0 == [none EXCEPT !.common = start]
           V == {a \in Accs : FoundBy(S, count, a)}
           Step(v, n) == NextBlock(S, p, count, nWindowEnd, v,
                                   GetAncestor(best, nHeight[start] + n))
           F == [k \in 1 .. N |-> [v \in V |-> Step(v, k)]]
           Body(g) == [n \in 0 .. N |-> IF n = 0 THEN acc0 ELSE Step(g[n - 1], n)]
           f == CHOOSE g : g = Body(g)
<1>1. S \in MainState /\ Closed(S) /\ Unskipped(S) /\ S.node[p] \in NodeState
  BY Zenon DEF Sound, MainState
<1>2. best \in Block \cup {None} /\ S.node[p].common \in Block \cup {None}
  BY <1>1, Zenon DEF NodeState
<1>3. FoundBy(S, count, none)
  <2>1. none \in Accs /\ Len(none.fetch) = 0
    BY <1>2, SMTT(40) DEF Accs
  <2> QED
    <3>1. /\ none.common = S.node[p].common /\ none.staller = 0 /\ none.waitingfor = 0
          /\ Len(none.fetch) <= count /\ Len(none.fetch) < count
      BY <2>1
    <3>2. none.common # None => HaveChain(S, none.common)
      BY <1>1, <3>1, Zenon DEF Unskipped
    <3>3. Owes(S, 0)
      BY Zenon DEF Owes
    <3> HIDE DEF none
    <3> QED
      BY <2>1, <3>1, <3>2, <3>3, Zenon DEF FoundBy
<1>4. CASE best = None \/ nHeight[best] < nHeight[S.tip]
  <2>1. Z = none
    BY <1>4, Zenon DEF FindNextBlocksToDownload
  <2> QED
    BY <1>3, <2>1, Zenon
<1>5. CASE ~(best = None \/ nHeight[best] < nHeight[S.tip])
  <2>1. Z = f[N]
    BY <1>5, Zenon DEF FindNextBlocksToDownload
  <2>2. best \in Block /\ guess \in Block /\ HaveChain(S, guess)
    BY <1>1, <1>2, <1>5, Zenon DEF Closed, Unskipped, MainState
  <2>3. start \in Chain[guess] /\ start \in Chain[best]
    BY <2>2, LastCommonFacts, Zenon
  <2>4. start \in Block /\ nHeight[start] <= nHeight[best] /\ Chain[start] \subseteq Chain[guess]
    BY <2>2, <2>3, ChainFacts, Zenon
  <2>5. nHeight[start] \in Nat /\ nHeight[best] \in Nat /\ BLOCK_DOWNLOAD_WINDOW \in Nat
    BY <2>2, <2>4, DownloadAssumption, Zenon
  <2> HIDE DEF start, best
  <2>6. N \in Nat /\ \A k \in 1 .. N : nHeight[start] + k \in 0 .. nHeight[best]
    BY <2>4, <2>5
  <2> HIDE DEF N
  <2>7. acc0 \in V
    <3>1. none \in Accs
      BY <1>3, Zenon DEF FoundBy
    <3>2. none.fetch = <<>> /\ none.waitingfor = 0 /\ none.staller = 0 /\ none.done = no
      BY Zenon
    <3> HIDE DEF none
    <3>3. /\ acc0 \in Accs /\ acc0.common = start /\ acc0.fetch = none.fetch
          /\ acc0.waitingfor = none.waitingfor /\ acc0.staller = none.staller
          /\ acc0.done = none.done
      BY <2>4, <3>1 DEF Accs
    <3>4. HaveChain(S, start)
      BY <2>2, <2>4, Zenon DEF HaveChain
    <3>5. FoundBy(S, count, acc0)
      BY <1>3, <3>2, <3>3, <3>4 DEF FoundBy
    <3> QED
      BY <3>3, <3>5
  <2>8. ASSUME NEW k \in 1 .. N, NEW v \in V PROVE Step(v, k) \in V
    <3>1. GetAncestor(best, nHeight[start] + k) \in Block
      BY <2>2, <2>6, AncestorFacts, Zenon
    <3>2. FoundBy(S, count, Step(v, k))
      BY <3>1, NextBlockFacts, Zenon
    <3> QED
      BY <3>2, Zenon DEF FoundBy
  <2> HIDE DEF Step, V, acc0
  <2>9. F \in [1 .. N -> [V -> V]]
    BY <2>8
  <2>10. PICK g : LoopOf(g, N, V, acc0, F)
    <3> HIDE DEF F
    <3> QED
      BY <2>6, <2>7, <2>9, LoopExists
  <2>11. g \in [0 .. N -> V] /\ g[0] = acc0
    BY <2>10 DEF LoopOf
  <2>12. g = Body(g)
    <3>1. ASSUME NEW k \in 1 .. N PROVE g[k] = Step(g[k - 1], k)
      <4>1. g[k] = F[k][g[k - 1]] /\ g[k - 1] \in V
        BY <2>6, <2>10, <2>11, SMTT(40) DEF LoopOf
      <4> QED
        BY <4>1, Zenon
    <3> QED
      BY <2>6, <2>11, <3>1
  <2>13. f = Body(f)
    BY <2>12, Zenon
  <2> HIDE DEF f
  <2>14. f[0] = acc0 /\ \A n \in 1 .. N : f[n] = Step(f[n - 1], n)
    BY <2>6, <2>13
  <2> DEFINE G == {n \in 0 .. N : f[n] \in V}
  <2>15. 0 \in G /\ \A k \in 1 .. N : k - 1 \in G => k \in G
    BY <2>6, <2>7, <2>8, <2>14
  <2>16. 0 .. N \subseteq G
    <3> HIDE DEF G
    <3> QED
      BY <2>6, <2>15, LoopInduct, Zenon
  <2>17. Z \in V
    BY <2>1, <2>6, <2>16, SMTT(40)
  <2> QED
    BY <2>17 DEF V
<1> QED
  BY <1>4, <1>5, Zenon

-----------------------------------------------------------------------------
(* A change of a node that leaves its queue alone, and the count of the    *)
(* peers that were asked for headers with it.                              *)
WithSync(S, p, m, k) == [S EXCEPT !.node[p] = m, !.nSyncStarted = k]

PeerStep(S, p, m, k, R) ==
    /\ p \in Peer /\ R = WithSync(S, p, m, k)
    /\ m \in NodeState /\ k \in Int /\ m.queue = S.node[p].queue
    /\ m.common # None => HaveChain(S, m.common)
    /\ m.stalling # -1 => Queue(S, p) # <<>>
    /\ p \in Nodes(S) => m.st \in {"on", "doomed"}
    /\ \/ m.sync = S.node[p].sync /\ k = S.nSyncStarted
       \/ m.sync = TRUE /\ S.node[p].sync = FALSE /\ k = S.nSyncStarted + 1
       \/ m.sync = FALSE /\ S.node[p].sync = TRUE /\ k = S.nSyncStarted - 1

(* It keeps a good state good.                                             *)
LEMMA PeerChange ==
    ASSUME NEW S, Good(S), NEW p, NEW m, NEW k, NEW R, PeerStep(S, p, m, k, R)
    PROVE  /\ Good(R) /\ Nodes(S) \subseteq Nodes(R)
           /\ R.inFlight = S.inFlight /\ R.known = S.known /\ R.tip = S.tip
           /\ R.node[p] = m /\ \A q \in Peer : Queue(R, q) = Queue(S, q)
<1>1. S \in MainState /\ Closed(S) /\ Exact(S) /\ Unskipped(S) /\ Fits(S)
  BY DEF Good, Sound
<1>0. /\ p \in Peer /\ R = WithSync(S, p, m, k)
      /\ m \in NodeState /\ k \in Int /\ m.queue = S.node[p].queue
      /\ m.common # None => HaveChain(S, m.common)
      /\ m.stalling # -1 => Queue(S, p) # <<>>
      /\ p \in Nodes(S) => m.st \in {"on", "doomed"}
      /\ \/ m.sync = S.node[p].sync /\ k = S.nSyncStarted
         \/ m.sync = TRUE /\ S.node[p].sync = FALSE /\ k = S.nSyncStarted + 1
         \/ m.sync = FALSE /\ S.node[p].sync = TRUE /\ k = S.nSyncStarted - 1
  BY Zenon DEF PeerStep
<1>a. p \in Peer /\ R = WithSync(S, p, m, k)
  BY <1>0, Zenon
<1> DEFINE g == [S.node EXCEPT ![p] = m]
<1>2. R = [S EXCEPT !.node = g, !.nSyncStarted = k]
  BY <1>a DEF WithSync
<1>3. S.node \in [Peer -> NodeState]
  BY <1>1 DEF MainState
<1>4. /\ g \in [Peer -> NodeState] /\ g[p] = m
      /\ \A q \in Peer : q # p => g[q] = S.node[q]
  BY <1>0, <1>3, Zenon
<1> HIDE DEF g
<1>5. /\ R.node = g /\ R.inFlight = S.inFlight /\ R.nDownloads = S.nDownloads
      /\ R.known = S.known /\ R.data = S.data /\ R.failed = S.failed /\ R.tip = S.tip
      /\ R.nSyncStarted = k
  BY <1>1, <1>2 DEF MainState
<1>6. R \in MainState
  BY <1>0, <1>1, <1>2, <1>4, Zenon DEF MainState
<1>7. Nodes(S) \subseteq Nodes(R)
  BY <1>0, <1>4, <1>5, Zenon DEF Nodes
<1>8. \A q \in Peer : Queue(R, q) = Queue(S, q) /\ From(R, q) = From(S, q)
  BY <1>0, <1>4, <1>5 DEF Queue, From
<1>9. Busy(R) = Busy(S)
  BY <1>8 DEF Busy
<1>10. R.nSyncStarted = Cardinality(Syncing(R))
  <2>1. S.nSyncStarted = Cardinality(Syncing(S)) /\ Syncing(S) \in SUBSET Peer
    BY <1>1, Zenon DEF Exact, Syncing
  <2>2. CASE m.sync = S.node[p].sync /\ k = S.nSyncStarted
    <3>1. Syncing(R) = Syncing(S)
      BY <1>4, <1>5, <2>2 DEF Syncing
    <3> QED
      BY <1>5, <2>1, <2>2, <3>1, Zenon
  <2>3. CASE m.sync = TRUE /\ S.node[p].sync = FALSE /\ k = S.nSyncStarted + 1
    <3>1. Syncing(R) = Syncing(S) \cup {p} /\ p \notin Syncing(S)
      BY <1>a, <1>4, <1>5, <2>3 DEF Syncing
    <3> QED
      BY <1>a, <1>5, <2>1, <2>3, <3>1, PeerCount, SMTT(40)
  <2>4. CASE m.sync = FALSE /\ S.node[p].sync = TRUE /\ k = S.nSyncStarted - 1
    <3>1. Syncing(R) = Syncing(S) \ {p} /\ p \in Syncing(S)
      BY <1>a, <1>4, <1>5, <2>4 DEF Syncing
    <3> QED
      BY <1>a, <1>5, <2>1, <2>4, <3>1, PeerCount
  <2> QED
    BY <1>0, <2>2, <2>3, <2>4, Zenon
<1>11. Exact(R)
  <2>1. \A q \in Peer : R.node[q].stalling # -1 => Queue(R, q) # <<>>
    BY <1>0, <1>1, <1>4, <1>5, <1>8, ZenonT(40) DEF Exact
  <2>2. \A b \in DOMAIN R.inFlight : R.inFlight[b] \in Nodes(R)
    BY <1>1, <1>5, <1>7, Zenon DEF Exact
  <2> QED
    BY <1>1, <1>5, <1>8, <1>9, <1>10, <2>1, <2>2, Zenon DEF Exact
<1>12. Closed(R) /\ Unskipped(R)
  BY <1>0, <1>1, <1>4, <1>5, ZenonT(40) DEF Closed, Unskipped, HaveChain
<1> QED
  BY <1>1, <1>4, <1>5, <1>6, <1>7, <1>8, <1>11, <1>12, Zenon DEF Good, Sound, Fits

(* A change of a node that leaves all that matters here alone.             *)
NodeStep(S, p, m, R) ==
    /\ p \in Peer /\ R = SetNode(S, p, m) /\ m \in NodeState
    /\ m.queue = S.node[p].queue /\ m.sync = S.node[p].sync
    /\ m.common = S.node[p].common /\ m.stalling = S.node[p].stalling
    /\ p \in Nodes(S) => m.st \in {"on", "doomed"}

(* It keeps a good state good.                                             *)
LEMMA NodeStepFacts ==
    ASSUME NEW S, Good(S), NEW p, NEW m, NEW R, NodeStep(S, p, m, R)
    PROVE  Good(R) /\ Frame(S, R)
<1>1. Sound(S) /\ Fits(S)
  BY DEF Good
<1>2. /\ p \in Peer /\ R = SetNode(S, p, m) /\ m \in NodeState
      /\ m.queue = S.node[p].queue /\ m.sync = S.node[p].sync
      /\ m.common = S.node[p].common /\ m.stalling = S.node[p].stalling
      /\ p \in Nodes(S) => m.st \in {"on", "doomed"}
  BY Zenon DEF NodeStep
<1>3. Sound(R) /\ Frame(S, R) /\ Fits(R)
  BY <1>1, <1>2, NodeChange
<1> QED
  BY <1>3, Zenon DEF Good

(* Only a node changes.                                                    *)
LEMMA OnlyNode ==
    ASSUME NEW S, Sound(S), NEW p, NEW m
    PROVE  SetNode(S, p, m) = WithSync(S, p, m, S.nSyncStarted) /\ S.nSyncStarted \in Int
BY Zenon DEF Sound, MainState, SetNode, WithSync

(* A new pindexLastCommonBlock.                                            *)
WithCommon(S, p, c) == [S EXCEPT !.node[p].common = c]

(* It is sound when nothing is missing below that block.                   *)
LEMMA CommonFacts ==
    ASSUME NEW S, Good(S), NEW p \in Nodes(S), NEW c \in Block \cup {None},
           c # None => HaveChain(S, c), NEW R, R = WithCommon(S, p, c)
    PROVE  /\ Good(R) /\ p \in Nodes(R) /\ R.inFlight = S.inFlight
           /\ \A q \in Peer : Queue(R, q) = Queue(S, q)
<1> DEFINE n == S.node[p]
           m == [n EXCEPT !.common = c]
<1>1. /\ S \in MainState /\ p \in Peer /\ Sound(S) /\ Fits(S)
      /\ n.st \in {"on", "doomed"} /\ n \in NodeState
  BY Zenon DEF Good, Sound, Nodes, MainState
<1>2. R = SetNode(S, p, m)
  BY DEF WithCommon, SetNode
<1>3. /\ m \in NodeState /\ m.st = n.st /\ m.queue = n.queue /\ m.sync = n.sync
      /\ m.common = c /\ m.stalling = n.stalling
  BY <1>1 DEF NodeState
<1> HIDE DEF m
<1>4. R = WithSync(S, p, m, S.nSyncStarted) /\ S.nSyncStarted \in Int
  BY <1>1, <1>2, OnlyNode, Zenon
<1>5. m.stalling # -1 => Queue(S, p) # <<>>
  BY <1>1, <1>3, Zenon DEF Sound, Exact
<1>6. PeerStep(S, p, m, S.nSyncStarted, R)
  BY <1>1, <1>3, <1>4, <1>5, Zenon DEF PeerStep
<1>7. /\ Good(R) /\ Nodes(S) \subseteq Nodes(R) /\ R.inFlight = S.inFlight
      /\ \A q \in Peer : Queue(R, q) = Queue(S, q)
  BY <1>6, PeerChange
<1> QED
  BY <1>7, Zenon

(* nStallingSince of a peer that owes a block.                             *)
WithStalling(S, q) == [S EXCEPT !.node[q].stalling = IF @ = -1 THEN 0 ELSE @]

(* It is sound since the queue of that peer is not empty.                  *)
LEMMA StallingFacts ==
    ASSUME NEW S, Good(S), NEW q \in Peer, Queue(S, q) # <<>>, NEW R, R = WithStalling(S, q)
    PROVE  Good(R)
<1> DEFINE n == S.node[q]
           a == IF n.stalling = -1 THEN 0 ELSE n.stalling
           m == [n EXCEPT !.stalling = a]
<1>1. S \in MainState /\ Sound(S) /\ Fits(S) /\ n \in NodeState
  BY Zenon DEF Good, Sound, MainState
<1>2. R = SetNode(S, q, m)
  BY DEF WithStalling, SetNode
<1>3. a \in -1 .. BLOCK_STALLING_TIMEOUT + 1
  BY <1>1, DownloadAssumption DEF NodeState
<1> HIDE DEF a
<1>4. /\ m \in NodeState /\ m.st = n.st /\ m.queue = n.queue /\ m.sync = n.sync
      /\ m.common = n.common
  BY <1>1, <1>3 DEF NodeState
<1>5. (q \in Nodes(S) => m.st \in {"on", "doomed"})
  BY <1>4 DEF Nodes
<1> HIDE DEF m
<1>6. R = WithSync(S, q, m, S.nSyncStarted) /\ S.nSyncStarted \in Int
  BY <1>1, <1>2, OnlyNode, Zenon
<1>7. m.common # None => HaveChain(S, m.common)
  BY <1>1, <1>4, Zenon DEF Sound, Unskipped
<1>8. PeerStep(S, q, m, S.nSyncStarted, R)
  BY <1>1, <1>4, <1>5, <1>6, <1>7, Zenon DEF PeerStep
<1> QED
  BY <1>8, PeerChange, Zenon

(* GetData asks for no more than there is room for, and blames a peer only *)
(* while that peer owes a block.                                           *)
LEMMA GetDataFacts ==
    ASSUME NEW S, Good(S), NEW p \in Nodes(S), NEW Z, Z = GetData(S, p)
    PROVE  Good(Z)
<1> DEFINE A == ProcessBlockAvailability(S, p)
           next == FindNextBlocksToDownload(A, p, Room(S, p))
           W == WithCommon(A, p, next.common)
           R == MarkBlocksAsInFlight(W, p, next.fetch)
<1>1. CASE Z = S
  BY <1>1
<1>2. CASE Z # S
  <2>0. ~(Room(S, p) <= 0)
    BY <1>2, Zenon DEF GetData
  <2>1. Z = IF R.node[p].queue = <<>> /\ next.staller # 0
            THEN WithStalling(R, next.staller) ELSE R
    BY <1>2, Zenon DEF GetData, WithStalling, WithCommon
  <2>2. Sound(S) /\ Fits(S) /\ p \in Peer
    BY Zenon DEF Good, Nodes
  <2>3. Room(S, p) \in Nat /\ Room(S, p) > 0
    <3>1. Len(Queue(S, p)) \in Nat
      BY <2>2, LengthFacts
    <3>2. Room(S, p) = MAX_BLOCKS_IN_TRANSIT_PER_PEER - Len(Queue(S, p))
      BY DEF Room, Queue
    <3>3. Room(S, p) \in Int
      BY <3>1, <3>2, DownloadAssumption, SMTT(40)
    <3> QED
      BY <2>0, <3>3, SMTT(40)
  <2>4. Sound(A) /\ Frame(S, A) /\ Fits(A)
    BY <2>2, ProcessAvailabilityFacts, Zenon
  <2>5. p \in Nodes(A) /\ Room(A, p) = Room(S, p)
    BY <2>2, <2>4, FrameNodes, Zenon
  <2> HIDE DEF A
  <2>6. FoundBy(A, Room(S, p), next)
    BY <2>2, <2>3, <2>4, FindFacts, Zenon
  <2> HIDE DEF next
  <2>7. /\ next.common \in Block \cup {None} /\ next.fetch \in Seq(Block)
        /\ next.staller \in Peer \cup {0}
        /\ next.common # None => HaveChain(A, next.common)
        /\ Len(next.fetch) <= Room(S, p) /\ Owes(A, next.staller)
        /\ next.staller # 0 => next.fetch = <<>>
    BY <2>6, Zenon DEF FoundBy, Accs
  <2>8. /\ Good(W) /\ p \in Nodes(W) /\ W.inFlight = A.inFlight
        /\ \A q \in Peer : Queue(W, q) = Queue(A, q)
    BY <2>4, <2>5, <2>7, CommonFacts, Zenon DEF Good
  <2>9. Room(W, p) = Room(S, p)
    BY <2>2, <2>5, <2>8, Zenon DEF Room, Queue
  <2> HIDE DEF W
  <2>10. Good(R)
    BY <2>7, <2>8, <2>9, MarkedGood, Zenon
  <2>11. CASE next.staller # 0
    <3>1. R = W
      BY <2>7, <2>8, <2>11, MarkedNone, Zenon
    <3>2. next.staller \in Peer /\ \E b \in DOMAIN A.inFlight : A.inFlight[b] = next.staller
      BY <2>7, <2>11, Zenon DEF Owes
    <3>3. From(A, next.staller) # {}
      BY <3>2, Zenon DEF From
    <3>4. /\ BlocksOf(Queue(A, next.staller)) = From(A, next.staller)
          /\ Queue(A, next.staller) \in Seq(Entry)
      BY <2>4, <3>2, LengthFacts, Zenon DEF Sound, Exact
    <3>5. Queue(A, next.staller) # <<>>
      BY <3>3, <3>4, QueueFacts, Zenon
    <3>6. Queue(R, next.staller) # <<>>
      BY <2>8, <3>1, <3>2, <3>5, Zenon
    <3> HIDE DEF R
    <3>7. Good(WithStalling(R, next.staller))
      BY <2>10, <3>2, <3>6, StallingFacts, Zenon
    <3> QED
      BY <2>1, <2>10, <3>7, Zenon
  <2>12. CASE next.staller = 0
    BY <2>1, <2>10, <2>12, Zenon
  <2> QED
    BY <2>11, <2>12
<1> QED
  BY <1>1, <1>2

(* One more peer is asked for headers, and counted.                        *)
LEMMA AskFacts ==
    ASSUME NEW S, Good(S), NEW p \in Nodes(S), NEW R, R = AskForHeaders(S, p)
    PROVE  Good(R) /\ p \in Nodes(R)
<1> DEFINE n == S.node[p]
           k == S.nSyncStarted + 1
           v == p \in Prompt
           h == 0
           m == [n EXCEPT !.sync = TRUE, !.hdr = h, !.asked = v]
<1>1. /\ S \in MainState /\ p \in Peer /\ Sound(S) /\ Fits(S)
      /\ n.st \in {"on", "doomed"} /\ n \in NodeState
  BY Zenon DEF Good, Sound, Nodes, MainState
<1>2. CASE R = S
  BY <1>2
<1>3. CASE R # S
  <2>1. /\ ~n.sync
        /\ R = [S EXCEPT !.node[p].sync = TRUE, !.node[p].hdr = h,
                         !.node[p].asked = v, !.nSyncStarted = @ + 1]
    BY <1>3 DEF AskForHeaders
  <2>2. /\ v \in BOOLEAN /\ n.sync \in BOOLEAN /\ S.nSyncStarted \in Int
        /\ h \in -1 .. HEADERS_DOWNLOAD_TIMEOUT + 1
    <3>1. HEADERS_DOWNLOAD_TIMEOUT \in Nat
      BY DownloadAssumption, Zenon
    <3>2. h \in -1 .. HEADERS_DOWNLOAD_TIMEOUT + 1
      BY <3>1
    <3>3. v \in BOOLEAN
      OBVIOUS
    <3>4. n.sync \in BOOLEAN /\ S.nSyncStarted \in Int
      BY <1>1, Zenon DEF NodeState, MainState
    <3> QED
      BY <3>2, <3>3, <3>4, Zenon
  <2> HIDE DEF v, h
  <2>3. R = WithSync(S, p, m, k)
    <3> DEFINE S1 == [S EXCEPT !.node[p].sync = TRUE]
               S2 == [S1 EXCEPT !.node[p].hdr = h]
               S3 == [S2 EXCEPT !.node[p].asked = v]
    <3>1. R = [S3 EXCEPT !.nSyncStarted = @ + 1]
      BY <2>1
    <3>2. S1 = [S EXCEPT !.node[p] = [n EXCEPT !.sync = TRUE]]
      OBVIOUS
    <3>3. S2 = [S EXCEPT !.node[p] = [n EXCEPT !.sync = TRUE, !.hdr = h]]
      BY <1>1, <3>2, Zenon DEF MainState
    <3> HIDE DEF S1, S2
    <3>4. S3 = [S EXCEPT !.node[p] = m]
      BY <1>1, <3>3, Zenon DEF MainState
    <3> HIDE DEF S3, m
    <3> QED
      BY <1>1, <3>1, <3>4 DEF WithSync, MainState
  <2>4. n.sync = FALSE
    BY <2>1, <2>2
  <2>5. /\ m \in NodeState /\ m.st = n.st /\ m.queue = n.queue /\ m.sync = TRUE
        /\ m.common = n.common /\ m.stalling = n.stalling
    BY <1>1, <2>2, Zenon DEF NodeState
  <2> HIDE DEF m
  <2>6. /\ m.common # None => HaveChain(S, m.common)
        /\ m.stalling # -1 => Queue(S, p) # <<>>
        /\ p \in Nodes(S) => m.st \in {"on", "doomed"}
    BY <1>1, <2>5, Zenon DEF Sound, Unskipped, Exact
  <2>7. k \in Int /\ k = S.nSyncStarted + 1
    BY <2>2, SMTT(40)
  <2> HIDE DEF k
  <2>8. PeerStep(S, p, m, k, R)
    BY <1>1, <2>3, <2>4, <2>5, <2>6, <2>7, Zenon DEF PeerStep
  <2> QED
    BY <2>8, PeerChange, Zenon
<1> QED
  BY <1>2, <1>3

(* A peer that does not answer is dropped, or no longer counted.           *)
LEMMA HeadersTimeoutFacts ==
    ASSUME NEW S, Good(S), NEW p \in Nodes(S), NEW R, R = HeadersTimeout(S, p)
    PROVE  Good(R) /\ p \in Nodes(R)
<1> DEFINE n == S.node[p]
           h == -1
<1>1. /\ S \in MainState /\ p \in Peer /\ Sound(S) /\ Fits(S)
      /\ n.st \in {"on", "doomed"} /\ n \in NodeState
  BY Zenon DEF Good, Sound, Nodes, MainState
<1>0. h \in -1 .. HEADERS_DOWNLOAD_TIMEOUT + 1
  BY DownloadAssumption, SMTT(40)
<1>2. CASE R = S
  BY <1>2, Zenon
<1>3. CASE R = [S EXCEPT !.node[p].hdr = -1]
  <2> DEFINE m == [n EXCEPT !.hdr = h]
  <2>1. R = SetNode(S, p, m)
    BY <1>3 DEF SetNode
  <2> HIDE DEF h
  <2>2. /\ m \in NodeState /\ m.st = n.st /\ m.queue = n.queue /\ m.sync = n.sync
        /\ m.common = n.common /\ m.stalling = n.stalling
    BY <1>0, <1>1 DEF NodeState
  <2> HIDE DEF m
  <2>3. NodeStep(S, p, m, R)
    BY <1>1, <2>1, <2>2, Zenon DEF NodeStep
  <2>4. Good(R) /\ Frame(S, R)
    BY <2>3, NodeStepFacts, Zenon
  <2> QED
    BY <2>4, FrameNodes
<1>4. CASE R = [S EXCEPT !.node[p].st = "doomed"]
  <2>1. Sound(R) /\ Fits(R) /\ Frame(S, R)
    BY <1>1, <1>4, MisbehavingFacts
  <2> QED
    BY <2>1, FrameNodes, Zenon DEF Good
<1>5. CASE /\ n.sync
           /\ R = [S EXCEPT !.node[p].sync = FALSE, !.node[p].hdr = -1, !.nSyncStarted = @ - 1]
  <2> DEFINE k == S.nSyncStarted - 1
             m == [n EXCEPT !.sync = FALSE, !.hdr = h]
  <2>1. n.sync \in BOOLEAN /\ S.nSyncStarted \in Int
    BY <1>1, Zenon DEF NodeState, MainState
  <2>2. R = WithSync(S, p, m, k)
    BY <1>1, <1>5, ZenonT(40) DEF WithSync, MainState, NodeState
  <2> HIDE DEF h
  <2>3. n.sync = TRUE
    BY <1>5, <2>1
  <2>4. /\ m \in NodeState /\ m.st = n.st /\ m.queue = n.queue /\ m.sync = FALSE
        /\ m.common = n.common /\ m.stalling = n.stalling
    BY <1>0, <1>1, Zenon DEF NodeState
  <2> HIDE DEF m
  <2>5. /\ m.common # None => HaveChain(S, m.common)
        /\ m.stalling # -1 => Queue(S, p) # <<>>
        /\ p \in Nodes(S) => m.st \in {"on", "doomed"}
    BY <1>1, <2>4, Zenon DEF Sound, Unskipped, Exact
  <2>6. k \in Int /\ k = S.nSyncStarted - 1
    BY <2>1, SMTT(40)
  <2> HIDE DEF k
  <2>7. PeerStep(S, p, m, k, R)
    BY <1>1, <2>2, <2>3, <2>4, <2>5, <2>6, Zenon DEF PeerStep
  <2> QED
    BY <2>7, PeerChange, Zenon
<1> QED
  BY <1>2, <1>3, <1>4, <1>5, Zenon DEF HeadersTimeout

(* ConsiderEviction changes m_chain_sync, asks for headers or dooms.       *)
LEMMA EvictionFacts ==
    ASSUME NEW S, Good(S), NEW p \in Nodes(S), NEW R, R = ConsiderEviction(S, p)
    PROVE  Good(R) /\ p \in Nodes(R)
<1> DEFINE v == p \in Prompt
           c0 == [S.node[p].m_chain_sync EXCEPT !.age = 0, !.m_sent_getheaders = TRUE]
           c1 == [NoChainSync EXCEPT !.age = 0, !.m_work_header = S.tip]
           D == [S EXCEPT !.node[p].st = "doomed"]
           X == WithChainSync(S, p, c0)
<1>1. \/ R = S \/ R = D \/ R = WithChainSync(S, p, NoChainSync)
      \/ R = WithChainSync(S, p, c1) \/ R = WithAsked(X, p, v)
  BY Zenon DEF ConsiderEviction, WithChainSync, WithAsked
<1>2. /\ S \in MainState /\ Sound(S) /\ Fits(S) /\ p \in Peer
      /\ S.node[p].m_chain_sync \in ChainSyncTimeoutState /\ S.tip \in Block
  BY Zenon DEF Good, Sound, MainState, NodeState, Nodes
<1>3. /\ c0 \in ChainSyncTimeoutState /\ c1 \in ChainSyncTimeoutState
      /\ NoChainSync \in ChainSyncTimeoutState
  BY <1>2, ChainSyncTypes, Zenon
<1>4. v \in BOOLEAN
  OBVIOUS
<1>5. Good(X) /\ p \in Nodes(X)
  <2> HIDE DEF c0
  <2>1. Good(X) /\ Frame(S, X)
    BY <1>2, <1>3, ChainSyncFacts, Zenon
  <2> QED
    BY <2>1, FrameNodes, Zenon
<1> HIDE DEF c0, c1, v, X
<1>6. CASE R = D
  <2>1. Sound(R) /\ Fits(R) /\ Frame(S, R)
    BY <1>2, <1>6, MisbehavingFacts
  <2> QED
    BY <2>1, FrameNodes, Zenon DEF Good
<1>7. ASSUME NEW c \in ChainSyncTimeoutState, R = WithChainSync(S, p, c)
      PROVE  Good(R) /\ p \in Nodes(R)
  <2>1. Good(R) /\ Frame(S, R)
    BY <1>2, <1>7, ChainSyncFacts, Zenon
  <2> QED
    BY <2>1, FrameNodes, Zenon
<1>8. CASE R = WithAsked(X, p, v)
  BY <1>4, <1>5, <1>8, AskedFacts, Zenon
<1> QED
  BY <1>1, <1>3, <1>6, <1>7, <1>8, Zenon

-----------------------------------------------------------------------------
(* The actions.  SendMessages asks for headers, gives up a peer that does  *)
(* not answer in time, or asks it for blocks.                              *)
LEMMA SendFacts ==
    ASSUME Good(main), NEW p \in Peer, SendMessages(p)
    PROVE  Good(main')
<1> DEFINE A == AskForHeaders(main, p)
           S == ProcessBlockAvailability(A, p)
           R == HeadersTimeout(S, p)
           D == [S EXCEPT !.node[p].st = "doomed"]
           E == ConsiderEviction(R, p)
           G == GetData(E, p)
<1>1. p \in Nodes(main) /\ (main' = D \/ main' = R \/ main' = G)
  BY DEF SendMessages, Serving, Nodes
<1>2. Good(A) /\ p \in Nodes(A)
  BY <1>1, AskFacts
<1> HIDE DEF A
<1>3. Good(S) /\ p \in Nodes(S)
  <2>1. Sound(S) /\ Frame(A, S) /\ Fits(S)
    BY <1>2, ProcessAvailabilityFacts, Zenon DEF Good
  <2> QED
    BY <1>2, <2>1, FrameNodes, Zenon DEF Good
<1> HIDE DEF S
<1>4. Good(R) /\ p \in Nodes(R)
  BY <1>3, HeadersTimeoutFacts, Zenon
<1>5. Good(D)
  BY <1>3, MisbehavingFacts DEF Good
<1> HIDE DEF R
<1>6. Good(E) /\ p \in Nodes(E)
  BY <1>4, EvictionFacts, Zenon
<1> HIDE DEF E
<1>7. Good(G)
  BY <1>6, GetDataFacts, Zenon
<1> QED
  BY <1>1, <1>4, <1>5, <1>7

(* A block or the header of one that a peer sends.                         *)
LEMMA SentFacts ==
    ASSUME NEW p \in Peer, NEW b \in Sent(p)
    PROVE  b \in Block \ {Genesis}
<1>1. PeerTip[p] \in Block
  BY DownloadAssumption, Zenon
<1> QED
  BY <1>1, ChainDef, Zenon DEF Sent

(* Every message handler keeps the bookkeeping exact.                      *)
LEMMA ReceiveFacts ==
    ASSUME Good(main), NEW p \in Peer, Receive(p)
    PROVE  Good(main')
<1>1. CASE NoMessage(p) \/ \E b \in Sent(p) : FillBlockAsserts(p, b)
  BY <1>1 DEF NoMessage, FillBlockAsserts
<1>2. ASSUME NEW f \in Sent(p), NEW t \in Sent(p), Headers(p, f, t) PROVE Good(main')
  <2>1. f \in Block \ {Genesis} /\ t \in Block
    BY SentFacts
  <2>2. p \in Nodes(main) /\ f \in Chain[t]
    BY <1>2, Zenon DEF Headers, Serving, Nodes
  <2> DEFINE fPunish == p \in Outbound
  <2>3. PICK direct \in CanDirectFetch(main) :
           main' = ProcessHeadersMessage(main, p, f, t, fPunish, direct)
    BY <1>2, Zenon DEF Headers
  <2> HIDE DEF fPunish
  <2> QED
    BY <2>1, <2>2, <2>3, HeadersFacts, Zenon
<1>3. ASSUME NEW b \in Sent(p), Inv(p, b) PROVE Good(main')
  <2>1. b \in Block /\ main' = UpdateBlockAvailability(main, p, b) /\ Sound(main) /\ Fits(main)
    BY <1>3, SentFacts, Zenon DEF Inv, Good
  <2>2. Sound(main') /\ (Fits(main) => Fits(main'))
    BY <2>1, UpdateAvailabilityFacts, Zenon
  <2> QED
    BY <2>1, <2>2, Zenon DEF Good
<1>4. ASSUME NEW b \in Sent(p), NEW fGood \in BOOLEAN, BlockMessage(p, b, fGood)
      PROVE  Good(main')
  <2> DEFINE R == MarkBlockAsReceived(main, b)
             fForce == b \in DOMAIN main.inFlight
  <2>1. b \in Block \ {Genesis} /\ Sound(main) /\ Fits(main) /\ p \in Nodes(main)
    BY <1>4, SentFacts, Zenon DEF BlockMessage, Serving, Nodes, Good
  <2>2. main' \in ProcessNewBlock(R, b, fForce) \/ main' = Misbehaving(R, p)
    BY <1>4, Zenon DEF BlockMessage
  <2>3. /\ Sound(R) /\ Nodes(R) = Nodes(main)
        /\ \A q \in Peer : Len(Queue(R, q)) <= Len(Queue(main, q))
    BY <2>1, ReceivedFacts, Zenon
  <2> HIDE DEF R, fForce
  <2>4. Fits(R)
    BY <2>1, <2>3, ShorterFits, Zenon
  <2>5. CASE main' \in ProcessNewBlock(R, b, fForce)
    BY <2>1, <2>3, <2>4, <2>5, ProcessNewFacts, Zenon DEF Good
  <2>6. CASE main' = Misbehaving(R, p)
    BY <2>1, <2>3, <2>4, <2>6, MisbehavingFacts DEF Good
  <2> QED
    BY <2>2, <2>5, <2>6, Zenon
<1>5. ASSUME NEW b \in Sent(p), NEW read \in Read, NEW fill \in Fill(b),
             CmpctBlock(p, b, read, fill)
      PROVE  Good(main')
  <2>1. b \in Block \ {Genesis} /\ p \in Nodes(main)
    BY <1>5, SentFacts, Zenon DEF CmpctBlock, Serving, Nodes
  <2>2. PICK direct \in CanDirectFetch(main) :
           main' \in CompactBlock(main, p, b, read, fill, direct)
    BY <1>5, Zenon DEF CmpctBlock
  <2> QED
    BY <2>1, <2>2, CompactFacts, Zenon
<1>6. ASSUME NEW b \in Sent(p), NEW fill \in Fill(b), BlockTxn(p, b, fill)
      PROVE  Good(main')
  <2>1. b \in Block \ {Genesis} /\ p \in Nodes(main) /\ main' \in FillBlock(main, p, b, fill)
    BY <1>6, SentFacts, Zenon DEF BlockTxn, Serving, Nodes
  <2> QED
    BY <2>1, FillBlockFacts, Zenon
<1>7. CASE NoHeaders(p)
  <2> DEFINE no == FALSE
  <2>1. p \in Nodes(main) /\ main' = WithAsked(main, p, no)
    BY <1>7, Zenon DEF NoHeaders, Serving, Nodes, WithAsked
  <2>2. no \in BOOLEAN
    OBVIOUS
  <2> HIDE DEF no
  <2> QED
    BY <2>1, <2>2, AskedFacts, Zenon
<1> QED
  BY <1>1, <1>2, <1>3, <1>4, <1>5, <1>6, <1>7, Zenon DEF Receive

(* A peer connects, or its connection is lost.                             *)
LEMMA ConnectionFacts ==
    ASSUME Good(main), NEW p \in Peer, Connect(p) \/ Leave(p)
    PROVE  Good(main')
<1>1. PICK v \in {"on", "doomed"} : main' = [main EXCEPT !.node[p].st = v]
  BY DEF Connect, Leave
<1> DEFINE n == main.node[p]
           m == [n EXCEPT !.st = v]
<1>2. main' = SetNode(main, p, m)
  BY <1>1 DEF SetNode
<1>3. main \in MainState /\ Sound(main) /\ Fits(main) /\ n \in NodeState
  BY Zenon DEF Good, Sound, MainState
<1>4. /\ m \in NodeState /\ m.st = v /\ m.queue = n.queue /\ m.sync = n.sync
      /\ m.common = n.common /\ m.stalling = n.stalling
  BY <1>3 DEF NodeState
<1> HIDE DEF m
<1>5. NodeStep(main, p, m, main')
  BY <1>2, <1>3, <1>4, Zenon DEF NodeStep
<1> QED
  BY <1>5, NodeStepFacts, Zenon

(* A timer stops growing once it has expired.                              *)
LEMMA AgedFacts ==
    ASSUME NEW limit \in Nat, NEW a \in 0 .. limit + 1
    PROVE  Aged(a, limit) \in 0 .. limit + 1
BY DEF Aged

(* So does the one of m_chain_sync.                                        *)
LEMMA AgedChainSyncFacts ==
    ASSUME NEW c \in ChainSyncTimeoutState
    PROVE  AgedChainSync(c) \in ChainSyncTimeoutState
<1> DEFINE T == -1 .. CHAIN_SYNC_TIMEOUT + HEADERS_RESPONSE_TIME + 1
           a == IF c.age = -1 THEN c.age ELSE Aged(c.age, ChainSyncLimit(c))
<1>1. ChainSyncTimeoutState = [age: T, m_work_header: Block \cup {None},
                               m_sent_getheaders: BOOLEAN, m_protect: BOOLEAN]
  BY DEF ChainSyncTimeoutState
<1>2. c.age \in T
  BY <1>1, Zenon
<1>3. ChainSyncLimit(c) \in Nat /\ ChainSyncLimit(c) <= CHAIN_SYNC_TIMEOUT + HEADERS_RESPONSE_TIME
  BY DownloadAssumption DEF ChainSyncLimit
<1>4. a \in T
  BY <1>2, <1>3, DownloadAssumption DEF Aged
<1>5. AgedChainSync(c) = [c EXCEPT !.age = a]
  BY DEF AgedChainSync
<1> HIDE DEF T, a
<1> QED
  BY <1>1, <1>4, <1>5

(* The clock moves the timers only.                                        *)
LEMMA TickFacts ==
    ASSUME Good(main), Tick
    PROVE  Good(main')
<1> DEFINE st(p) == IF main.node[p].stalling = -1 THEN -1
                    ELSE Aged(main.node[p].stalling, BLOCK_STALLING_TIMEOUT)
           si(p) == IF main.node[p].queue = <<>> THEN 0
                    ELSE Aged(main.node[p].since, MaxAge - 1)
           hd(p) == IF main.node[p].hdr = -1 THEN -1
                    ELSE Aged(main.node[p].hdr, HEADERS_DOWNLOAD_TIMEOUT)
           cs(p) == AgedChainSync(main.node[p].m_chain_sync)
           m(p) == [main.node[p] EXCEPT !.stalling = st(p), !.since = si(p), !.hdr = hd(p),
                                        !.m_chain_sync = cs(p)]
           g == [p \in Peer |-> m(p)]
<1>1. main \in MainState /\ Sound(main) /\ Fits(main) /\ Closed(main)
  BY DEF Good, Sound
<1>2. \A p \in Peer : main.node[p] \in NodeState
  BY <1>1 DEF MainState
<1>3. main' = [main EXCEPT !.node = g]
  <2>1. main' = [main EXCEPT !.node = [p \in Peer |-> AgedNode(main.node[p])]]
    BY DEF Tick
  <2>2. ASSUME NEW p \in Peer PROVE AgedNode(main.node[p]) = m(p)
    <3> DEFINE r == main.node[p]
    <3>1. r \in NodeState
      BY <1>2
    <3> QED
      BY <3>1, Zenon DEF AgedNode, NodeState
  <2> HIDE DEF m
  <2>3. [p \in Peer |-> AgedNode(main.node[p])] = g
    BY <2>2
  <2> QED
    BY <2>1, <2>3
<1>4. ASSUME NEW p \in Peer
      PROVE  /\ st(p) \in -1 .. BLOCK_STALLING_TIMEOUT + 1
             /\ si(p) \in 0 .. MaxAge
             /\ hd(p) \in -1 .. HEADERS_DOWNLOAD_TIMEOUT + 1
             /\ cs(p) \in ChainSyncTimeoutState
             /\ st(p) # -1 => main.node[p].stalling # -1
  <2>1. main.node[p].stalling \in -1 .. BLOCK_STALLING_TIMEOUT + 1
        /\ main.node[p].since \in 0 .. MaxAge
        /\ main.node[p].hdr \in -1 .. HEADERS_DOWNLOAD_TIMEOUT + 1
    BY <1>2, Zenon DEF NodeState
  <2>2. st(p) \in -1 .. BLOCK_STALLING_TIMEOUT + 1
    BY <2>1, DownloadAssumption, SMTT(40) DEF Aged
  <2>3. hd(p) \in -1 .. HEADERS_DOWNLOAD_TIMEOUT + 1
    BY <2>1, DownloadAssumption, SMTT(40) DEF Aged
  <2>4. si(p) \in 0 .. MaxAge
    BY <2>1, MaxAgeNat DEF Aged
  <2>5. cs(p) \in ChainSyncTimeoutState
    <3>1. main.node[p].m_chain_sync \in ChainSyncTimeoutState
      BY <1>2, Zenon DEF NodeState
    <3> QED
      BY <3>1, AgedChainSyncFacts, Zenon
  <2> QED
    BY <2>2, <2>3, <2>4, <2>5, Zenon
<1> HIDE DEF st, si, hd, cs
<1>5. ASSUME NEW p \in Peer
      PROVE  /\ m(p) \in NodeState /\ m(p).queue = main.node[p].queue
             /\ m(p).sync = main.node[p].sync /\ m(p).common = main.node[p].common
             /\ m(p).st = main.node[p].st /\ m(p).stalling = st(p)
  BY <1>2, <1>4, Zenon DEF NodeState
<1> HIDE DEF m
<1>6. g \in [Peer -> NodeState] /\ \A p \in Peer : g[p] = m(p)
  BY <1>5, Zenon
<1> HIDE DEF g
<1>7. /\ main' \in MainState /\ main'.node = g /\ main'.inFlight = main.inFlight
      /\ main'.nDownloads = main.nDownloads /\ main'.nSyncStarted = main.nSyncStarted
      /\ main'.known = main.known /\ main'.data = main.data
      /\ main'.failed = main.failed /\ main'.tip = main.tip
  BY <1>1, <1>3, <1>6 DEF MainState
<1>8. Nodes(main) \subseteq Nodes(main')
  BY <1>5, <1>6, <1>7, Zenon DEF Nodes
<1>9. Frame(main, main')
  BY <1>4, <1>5, <1>6, <1>7, <1>8, Zenon DEF Frame
<1>10. Closed(main')
  BY <1>1, <1>7, Zenon DEF Closed, HaveChain
<1>11. Sound(main') /\ (Fits(main) => Fits(main'))
  BY <1>1, <1>7, <1>9, <1>10, FrameKeeps, Zenon
<1> QED
  BY <1>1, <1>11 DEF Good

(* What FinalizeNode leaves of a peer.                                     *)
Forget(S, p, m, f, d, k) ==
    [S EXCEPT !.node[p] = m, !.inFlight = f, !.nDownloads = d, !.nSyncStarted = k]

Forgets(S, p, m, f, d, k, R) ==
    /\ S \in MainState /\ p \in Peer /\ m \in NodeState /\ f \in InFlightMaps
    /\ d \in Int /\ k \in Int /\ R = Forget(S, p, m, f, d, k)

(* Such a state has the right type, and differs in these parts only.       *)
LEMMA ForgetFacts ==
    ASSUME NEW S, NEW p, NEW m, NEW f, NEW d, NEW k, NEW R,
           Forgets(S, p, m, f, d, k, R)
    PROVE  /\ R \in MainState /\ R.node[p] = m /\ R.inFlight = f /\ R.nDownloads = d
           /\ R.nSyncStarted = k /\ R.known = S.known /\ R.data = S.data
           /\ R.failed = S.failed /\ R.tip = S.tip
           /\ \A q \in Peer : q # p => R.node[q] = S.node[q]
<1> DEFINE g == [S.node EXCEPT ![p] = m]
<1>0. /\ S \in MainState /\ p \in Peer /\ m \in NodeState /\ f \in InFlightMaps
      /\ d \in Int /\ k \in Int /\ R = Forget(S, p, m, f, d, k)
  BY Zenon DEF Forgets
<1>1. R = [S EXCEPT !.node = g, !.inFlight = f, !.nDownloads = d, !.nSyncStarted = k]
  BY <1>0 DEF Forget
<1>2. g \in [Peer -> NodeState] /\ g[p] = m /\ \A q \in Peer : q # p => g[q] = S.node[q]
  BY <1>0 DEF MainState
<1> HIDE DEF g
<1>3. /\ R.node = g /\ R.inFlight = f /\ R.nDownloads = d
      /\ R.nSyncStarted = k /\ R.known = S.known /\ R.data = S.data
      /\ R.failed = S.failed /\ R.tip = S.tip
  BY <1>0, <1>1 DEF MainState
<1>4. R \in MainState
  BY <1>0, <1>1, <1>2, Zenon DEF MainState
<1> QED
  BY <1>2, <1>3, <1>4, Zenon

(* FinalizeNode takes the blocks of the peer out of the map, and the peer  *)
(* out of the counters.                                                    *)
LEMMA FinalizeFacts ==
    ASSUME Good(main), NEW p \in Peer, FinalizeNode(p)
    PROVE  Good(main')
<1> DEFINE S == main
           n == S.node[p]
           mine == BlocksOf(Queue(S, p))
           m == [NewNode EXCEPT !.st = "gone"]
           f == Restrict(S.inFlight, DOMAIN S.inFlight \ mine)
           d == S.nDownloads - (IF n.queue = <<>> THEN 0 ELSE 1)
           k == S.nSyncStarted - (IF n.sync THEN 1 ELSE 0)
           R == main'
<1>1. S \in MainState /\ Closed(S) /\ Exact(S) /\ Unskipped(S) /\ Fits(S)
  BY DEF Good, Sound
<1>2. R = Forget(S, p, m, f, d, k)
  BY DEF FinalizeNode, Forget, BlocksOf, Queue
<1>3. n \in NodeState /\ n.sync \in BOOLEAN /\ Queue(S, p) \in Seq(Entry)
  BY <1>1, Zenon DEF MainState, NodeState, Queue
<1>4. /\ m \in NodeState /\ m.queue = <<>> /\ m.stalling = -1 /\ m.sync = FALSE
      /\ m.common = None
  <2>1. /\ -1 \in -1 .. BLOCK_STALLING_TIMEOUT + 1 /\ 0 \in 0 .. MaxAge
        /\ -1 \in -1 .. HEADERS_DOWNLOAD_TIMEOUT + 1
    BY MaxAgeNat, DownloadAssumption
  <2>2. <<>> \in Seq(Entry)
    OBVIOUS
  <2> QED
    BY <2>1, <2>2, ChainSyncTypes, Zenon DEF NodeState, NewNode
<1>5. /\ f \in InFlightMaps /\ DOMAIN f = DOMAIN S.inFlight \ mine
      /\ \A b \in DOMAIN f : f[b] = S.inFlight[b]
  <2>1. PICK D \in SUBSET Block : S.inFlight \in [D -> Peer]
    BY <1>1, Zenon DEF MainState, InFlightMaps
  <2>2. f = [b \in D \ mine |-> S.inFlight[b]]
    BY <2>1, Zenon DEF Restrict
  <2>3. f \in [D \ mine -> Peer]
    BY <2>1, <2>2, Zenon
  <2>4. f \in InFlightMaps
    BY <2>3, Zenon DEF InFlightMaps
  <2> QED
    BY <2>1, <2>2, <2>4, Zenon
<1>6. d \in Int /\ k \in Int
  BY <1>1, SMTT(40) DEF MainState
<1> HIDE DEF R, S, m, f, d, k
<1>7. /\ R \in MainState /\ R.node[p] = m /\ R.inFlight = f /\ R.nDownloads = d
      /\ R.nSyncStarted = k /\ R.known = S.known /\ R.data = S.data
      /\ R.failed = S.failed /\ R.tip = S.tip
      /\ \A q \in Peer : q # p => R.node[q] = S.node[q]
  <2>1. Forgets(S, p, m, f, d, k, R)
    BY <1>1, <1>2, <1>4, <1>5, <1>6, Zenon DEF Forgets
  <2> QED
    BY <2>1, ForgetFacts
<1>8. mine = From(S, p) /\ Distinct(Queue(S, p))
  BY <1>1, Zenon DEF Exact
<1>9. /\ Queue(R, p) = <<>> /\ From(R, p) = {}
      /\ \A q \in Peer : q # p => Queue(R, q) = Queue(S, q) /\ From(R, q) = From(S, q)
  <2>1. Queue(R, p) = <<>> /\ \A q \in Peer : q # p => Queue(R, q) = Queue(S, q)
    BY <1>4, <1>7, Zenon DEF Queue
  <2>2. From(R, p) = {} /\ \A q \in Peer : q # p => From(R, q) = From(S, q)
    BY <1>5, <1>7, <1>8, Zenon DEF From
  <2> QED
    BY <2>1, <2>2, Zenon
<1>10. \A q \in Peer : Distinct(Queue(R, q)) /\ BlocksOf(Queue(R, q)) = From(R, q)
  <2>1. Distinct(<<>>) /\ BlocksOf(<<>>) = {}
    BY DEF Distinct, BlocksOf
  <2> QED
    BY <1>1, <1>9, <2>1, Zenon DEF Exact
<1>11. \A b \in DOMAIN R.inFlight : R.inFlight[b] \in Nodes(R)
  <2>1. ASSUME NEW b \in DOMAIN R.inFlight PROVE R.inFlight[b] \in Nodes(R)
    <3>1. b \in DOMAIN S.inFlight /\ R.inFlight[b] = S.inFlight[b] /\ b \notin From(S, p)
      BY <1>5, <1>7, <1>8, Zenon
    <3>2. S.inFlight[b] \in Nodes(S) /\ S.inFlight[b] # p
      BY <1>1, <3>1, Zenon DEF Exact, From
    <3> QED
      BY <1>7, <3>1, <3>2, Zenon DEF Nodes
  <2> QED
    BY <2>1
<1>12. R.nDownloads = Cardinality(Busy(R))
  <2>1. S.nDownloads = Cardinality(Busy(S)) /\ Busy(S) \in SUBSET Peer
    BY <1>1, Zenon DEF Exact, Busy
  <2>2. Busy(R) = Busy(S) \ {p}
    BY <1>9, Zenon DEF Busy
  <2>3. CASE n.queue = <<>>
    <3>1. p \notin Busy(S)
      BY <2>3, Zenon DEF Busy, Queue
    <3>2. d = S.nDownloads - 0
      BY <2>3, Zenon DEF d
    <3> QED
      BY <1>7, <2>1, <2>2, <3>1, <3>2, PeerCount, Zenon
  <2>4. CASE n.queue # <<>>
    <3>1. p \in Busy(S) /\ d = S.nDownloads - 1
      BY <2>4, Zenon DEF Busy, Queue, d
    <3> QED
      BY <1>7, <2>1, <2>2, <3>1, PeerCount, Zenon
  <2> QED
    BY <2>3, <2>4, Zenon
<1>13. R.nSyncStarted = Cardinality(Syncing(R))
  <2>1. S.nSyncStarted = Cardinality(Syncing(S)) /\ Syncing(S) \in SUBSET Peer
    BY <1>1, Zenon DEF Exact, Syncing
  <2>2. Syncing(R) = Syncing(S) \ {p}
    BY <1>4, <1>7, Zenon DEF Syncing
  <2>3. CASE n.sync = FALSE
    <3>1. p \notin Syncing(S)
      BY <2>3 DEF Syncing
    <3>2. k = S.nSyncStarted - 0
      BY <2>3, Zenon DEF k
    <3> QED
      BY <1>7, <2>1, <2>2, <3>1, <3>2, PeerCount, Zenon
  <2>4. CASE n.sync = TRUE
    <3>1. p \in Syncing(S) /\ k = S.nSyncStarted - 1
      BY <2>4, Zenon DEF Syncing, k
    <3> QED
      BY <1>7, <2>1, <2>2, <3>1, PeerCount, Zenon
  <2> QED
    BY <1>3, <2>3, <2>4, Zenon
<1>14. \A q \in Peer : R.node[q].stalling # -1 => Queue(R, q) # <<>>
  BY <1>1, <1>4, <1>7, <1>9, Zenon DEF Exact
<1>15. Exact(R)
  BY <1>10, <1>11, <1>12, <1>13, <1>14, Zenon DEF Exact
<1>16. Closed(R) /\ Unskipped(R)
  BY <1>1, <1>4, <1>7, Zenon DEF Closed, Unskipped, HaveChain
<1>17. Fits(R)
  <2>1. Len(<<>>) = 0 /\ 0 <= MAX_BLOCKS_IN_TRANSIT_PER_PEER
    BY DownloadAssumption
  <2> QED
    BY <1>1, <1>9, <2>1, Zenon DEF Fits
<1> QED
  BY <1>7, <1>15, <1>16, <1>17, Zenon DEF Good, Sound, R

-----------------------------------------------------------------------------
(* The inductive invariant.                                                *)
IInv == Good(main) /\ turn \in Peer /\ phase \in {"process", "send", "abort"}

(* It holds at the start.                                                  *)
LEMMA InitGood == Init => IInv
<1> SUFFICES ASSUME Init PROVE IInv
  OBVIOUS
<1> DEFINE g == [p \in Peer |-> NewNode]
           e == <<>>
           ibd == RecentHeight > 0
           S == main
<1>1. S = [known |-> {Genesis}, data |-> {Genesis}, failed |-> {}, tip |-> Genesis,
           ibd |-> ibd, node |-> g, inFlight |-> e, nDownloads |-> 0, nSyncStarted |-> 0]
  BY Zenon DEF Init
<1>2. /\ NewNode \in NodeState /\ NewNode.queue = <<>> /\ NewNode.stalling = -1
      /\ NewNode.sync = FALSE /\ NewNode.common = None
  <2>1. /\ -1 \in -1 .. BLOCK_STALLING_TIMEOUT + 1 /\ 0 \in 0 .. MaxAge
        /\ -1 \in -1 .. HEADERS_DOWNLOAD_TIMEOUT + 1
    BY MaxAgeNat, DownloadAssumption
  <2>2. <<>> \in Seq(Entry)
    OBVIOUS
  <2> QED
    BY <2>1, <2>2, ChainSyncTypes, Zenon DEF NodeState, NewNode
<1>3. g \in [Peer -> NodeState] /\ \A p \in Peer : g[p] = NewNode
  BY <1>2, Zenon
<1>4. e \in InFlightMaps /\ DOMAIN e = {}
  <2>1. e \in [{} -> Peer] /\ DOMAIN e = {}
    OBVIOUS
  <2> QED
    BY <2>1 DEF InFlightMaps
<1>5. ibd \in BOOLEAN
  BY SMTT(40)
<1> HIDE DEF g, e, ibd, S
<1>6. /\ S.known = {Genesis} /\ S.data = {Genesis} /\ S.failed = {} /\ S.tip = Genesis
      /\ S.node = g /\ S.inFlight = e /\ S.nDownloads = 0 /\ S.nSyncStarted = 0
  BY <1>1, Zenon
<1>7. S \in MainState
  <2>1. {Genesis} \in SUBSET Block /\ Genesis \in Block /\ {} \in SUBSET Block
    BY DownloadAssumption, Zenon
  <2> QED
    BY <1>1, <1>3, <1>4, <1>5, <2>1, SMTT(40) DEF MainState
<1>8. Closed(S)
  BY <1>6, ChainDef, Zenon DEF Closed, HaveChain
<1>9. \A p \in Peer : Queue(S, p) = <<>> /\ S.node[p] = NewNode
  BY <1>2, <1>3, <1>6, Zenon DEF Queue
<1>10. Busy(S) = {} /\ Syncing(S) = {}
  BY <1>2, <1>9 DEF Busy, Syncing
<1>11. Exact(S)
  <2>1. Cardinality({}) = 0
    BY FS_EmptySet
  <2>2. Distinct(<<>>) /\ BlocksOf(<<>>) = {}
    BY DEF Distinct, BlocksOf
  <2>3. \A p \in Peer : From(S, p) = {}
    BY <1>4, <1>6, Zenon DEF From
  <2> QED
    BY <1>2, <1>4, <1>6, <1>9, <1>10, <2>1, <2>2, <2>3, Zenon DEF Exact
<1>12. Unskipped(S)
  BY <1>2, <1>9, Zenon DEF Unskipped
<1>13. Fits(S)
  <2>1. Len(<<>>) = 0 /\ 0 <= MAX_BLOCKS_IN_TRANSIT_PER_PEER
    BY DownloadAssumption
  <2> QED
    BY <1>9, <2>1 DEF Fits
<1>14. Good(main)
  BY <1>7, <1>8, <1>11, <1>12, <1>13 DEF Good, Sound, S
<1>15. turn \in Peer /\ phase = "process"
  <2>1. Cardinality(Peer) \in Nat /\ Cardinality(Peer) > 0 /\ Peer = 1 .. Cardinality(Peer)
    BY DownloadAssumption, FS_CardinalityType, Zenon
  <2> QED
    BY <2>1, SMTT(40) DEF Init
<1> QED
  BY <1>14, <1>15 DEF IInv

(* The peers are served in turn.                                           *)
LEMMA TurnFacts ==
    ASSUME turn \in Peer, NextTurn
    PROVE  turn' \in Peer /\ phase' = "process"
<1> DEFINE n == Cardinality(Peer)
<1>1. n \in Nat /\ n > 0 /\ Peer = 1 .. n
  BY DownloadAssumption, FS_CardinalityType, Zenon
<1>2. turn' = (turn % n) + 1 /\ phase' = "process"
  BY DEF NextTurn
<1> HIDE DEF n
<1>3. turn \in Nat /\ turn % n \in 0 .. n - 1
  BY <1>1
<1> QED
  BY <1>1, <1>2, <1>3, SMTT(40)

(* Every step keeps the invariant.                                         *)
LEMMA NextGood == IInv /\ [Next]_vars => IInv'
<1> SUFFICES ASSUME IInv, [Next]_vars PROVE IInv'
  OBVIOUS
<1>1. Good(main) /\ turn \in Peer /\ phase \in {"process", "send", "abort"}
  BY DEF IInv
<1>2. CASE Skip
  BY <1>1, <1>2, TurnFacts, Zenon DEF Skip, IInv
<1>3. ASSUME NEW p \in Peer, Receive(p) PROVE IInv'
  <2>1. Good(main')
    BY <1>1, <1>3, ReceiveFacts
  <2>2. turn' = turn /\ phase' \in {"send", "abort"}
    BY <1>3, Zenon DEF Receive, NoMessage, Headers, NoHeaders, Inv, BlockMessage, CmpctBlock,
                       BlockTxn, FillBlockAsserts
  <2> QED
    BY <1>1, <2>1, <2>2 DEF IInv
<1>4. ASSUME NEW p \in Peer, SendMessages(p) PROVE IInv'
  <2>1. Good(main')
    BY <1>1, <1>4, SendFacts, Zenon
  <2>2. turn' \in Peer /\ phase' = "process"
    BY <1>1, <1>4, TurnFacts DEF SendMessages
  <2> QED
    BY <2>1, <2>2 DEF IInv
<1>5. CASE Tick
  <2>1. Good(main')
    BY <1>1, <1>5, TickFacts
  <2> QED
    BY <1>1, <1>5, <2>1 DEF Tick, IInv
<1>6. ASSUME NEW p \in Peer, Connect(p) \/ Leave(p) PROVE IInv'
  <2>1. Good(main')
    BY <1>1, <1>6, ConnectionFacts, Zenon
  <2> QED
    BY <1>1, <1>6, <2>1 DEF Connect, Leave, IInv
<1>7. ASSUME NEW p \in Peer, FinalizeNode(p) PROVE IInv'
  <2>1. Good(main')
    BY <1>1, <1>7, FinalizeFacts, Zenon
  <2> QED
    BY <1>1, <1>7, <2>1 DEF FinalizeNode, IInv
<1>8. CASE UNCHANGED vars \/ Aborted
  BY <1>1, <1>8 DEF vars, IInv, Aborted
<1> QED
  BY <1>2, <1>3, <1>4, <1>5, <1>6, <1>7, <1>8, Zenon DEF Next, Serve

(* The bookkeeping of the download is sound in every reachable state.      *)
THEOREM Invariant == Spec => []IInv
BY InitGood, NextGood, PTL DEF Spec

(* No peer is ever asked for more than MAX_BLOCKS_IN_TRANSIT_PER_PEER      *)
(* blocks at a time, and the index, the tip and the timers of              *)
(* net_processing.cpp stay within their types.                             *)
THEOREM TypeCorrect == Spec => []TypeOK
<1>1. IInv => TypeOK
  BY GoodMeans DEF IInv
<1> QED
  BY <1>1, Invariant, PTL

(* mapBlocksInFlight, the queues vBlocksInFlight of the peers and the      *)
(* counters that FinalizeNode asserts agree in every reachable state.      *)
THEOREM InFlightIsExact == Spec => []InFlightExact
<1>1. IInv => InFlightExact
  BY GoodMeans DEF IInv
<1> QED
  BY <1>1, Invariant, PTL

(* FindNextBlocksToDownload never moves pindexLastCommonBlock past a block *)
(* that is still missing.                                                  *)
THEOREM NothingIsSkipped == Spec => []NothingSkipped
<1>1. IInv => NothingSkipped
  BY GoodMeans DEF IInv
<1> QED
  BY <1>1, Invariant, PTL
=============================================================================
