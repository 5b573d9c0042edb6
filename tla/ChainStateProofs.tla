-------------------------- MODULE ChainStateProofs --------------------------
(***************************************************************************)
(* The coin database and the coin cache are exact through connections,     *)
(* disconnections, flushes, crashes and replays, and the node can always   *)
(* start, for every tree of blocks and any number of crashes.              *)
(*                                                                         *)
(* CoinsInv is inductive by itself: it says what the database, the cache   *)
(* and the undo records hold.  FilesInv, inductive with it, says that what *)
(* a disconnection or a replay reads is there.                             *)
(***************************************************************************)
EXTENDS ChainState, BlockCoinsProofs

(* What the coin database may hold: the UTXO set of the block it names, or *)
(* a mixture of those of the two tips it is in transition between.         *)
GoodDb(coins, best, heads) ==
    /\ coins \in Contents /\ best \in Block \cup {Null}
    /\ \/ heads = <<>> /\ coins = UtxoAt[best]
       \/ /\ heads \in Block \X (Block \cup {Null}) /\ best = Null
          /\ Mixed(coins, heads[2], heads[1])

(* An undo record the index refers to is that of its block.                *)
GoodUndo(st) ==
    \A b \in Block \ {Genesis} :
        "undo" \in st[b] => Applicable(b) /\ UndoRecord(b, undo[b])

(* The cache of pcoinsTip, or of a replay, answers with the UTXO set of    *)
(* the block it stands at.                                                 *)
GoodCache == cache \in Sound(db) /\ TipCoins = UtxoAt[cacheBest]

UndoInv ==
    /\ GoodUndo(status) /\ GoodUndo(index)
    /\ pc # "down" => \A b \in Block : index[b] \subseteq status[b]

DbInv ==
    /\ GoodDb(db, dbBest, dbHeads)
    /\ GoodDb(dbDisk[1], dbDisk[2], dbDisk[3])

(* Where a flush stands.  A replay enters it at the coins.                 *)
CacheInv ==
    /\ pc # "abort"
    /\ pc = "down" => cache = EmptyCache
    /\ pc \in {"run", "sync", "index"} => dbHeads = <<>> /\ GoodCache /\ ~asserted
    /\ pc = "run" => cacheBest = active
    /\ pc \in {"sync", "index", "coins"} => then \in {"exit", cacheBest}
    /\ pc = "coins" /\ ~asserted => /\ cacheBest # Null /\ GoodCache
                                    /\ dbHeads # <<>> => dbHeads[1] = cacheBest

CoinsInv == TypeOK /\ UndoInv /\ DbInv /\ CacheInv

-----------------------------------------------------------------------------
(* The blocks of a chain have been connected, as far as an index knows.    *)
Connected(tip, st) ==
    \A b \in Range(Chain[tip]) :
        "data" \in st[b] /\ (b # Genesis => "undo" \in st[b])

(* The same for the blocks that the coin database refers to.               *)
ConnectedDb(best, heads) ==
    /\ Connected(best, index)
    /\ heads # <<>> => Connected(heads[1], index) /\ Connected(heads[2], index)

(* What an index refers to is in the files, and is on the disk.            *)
Held(st) ==
    \A b \in Block : /\ "data" \in st[b] => blk[b] # "none"
                     /\ "undo" \in st[b] => rev[b] # "none"

Backed(st) ==
    \A b \in Block : /\ "data" \in st[b] => blk[b] = "disk"
                     /\ "undo" \in st[b] => rev[b] = "disk"

HeldInv == Held(index) /\ (pc # "down" => Held(status))

BackedInv == MaxFile = 0 => Backed(index) /\ (pc = "index" => Backed(status))

ConnectedInv ==
    /\ ConnectedDb(dbBest, dbHeads) /\ ConnectedDb(dbDisk[2], dbDisk[3])
    /\ pc # "down" => Connected(cacheBest, status)
    /\ pc = "coins" => Connected(cacheBest, index)

FilesInv == ~broken /\ HeldInv /\ BackedInv /\ ConnectedInv

-----------------------------------------------------------------------------
(* A database that names no heads holds the UTXO set of its best block.    *)
LEMMA SettledDb ==
    ASSUME NEW coins, NEW best, GoodDb(coins, best, <<>>)
    PROVE  coins = UtxoAt[best]
<1>1. \A heads \in Block \X (Block \cup {Null}) : Len(heads) = 2
  OBVIOUS
<1>2. Len(<<>>) = 0
  OBVIOUS
<1>3. <<>> \notin Block \X (Block \cup {Null})
  BY <1>1, <1>2
<1> QED
  BY <1>3 DEF GoodDb

-----------------------------------------------------------------------------
(***************************************************************************)
(* Chains and forks.                                                       *)
(***************************************************************************)

(* The blocks of a chain.                                                  *)
LEMMA ChainRange ==
    /\ Range(Chain[Null]) = {}
    /\ \A b \in Block : /\ Range(Chain[b]) = Range(Chain[Parent[b]]) \cup {b}
                        /\ Range(Chain[b]) \subseteq Block
<1>1. Range(Chain[Null]) = {}
  BY ChainFacts DEF Range
<1>2. ASSUME NEW b \in Block
      PROVE  /\ Range(Chain[b]) = Range(Chain[Parent[b]]) \cup {b}
             /\ Range(Chain[b]) \subseteq Block
  <2> DEFINE p == Chain[Parent[b]]
             s == Chain[b]
  <2>1. p \in Seq(Block) /\ s \in Seq(Block) /\ s = Append(p, b)
    BY ChainFacts, BlockAssumption
  <2> HIDE DEF p, s
  <2>2. /\ DOMAIN p = 1 .. Len(p) /\ Len(p) \in Nat
        /\ DOMAIN s = 1 .. Len(p) + 1 /\ s[Len(p) + 1] = b
        /\ \A i \in 1 .. Len(p) : s[i] = p[i]
        /\ \A i \in DOMAIN s : s[i] \in Block
    BY <2>1
  <2>3. \A i : i \in DOMAIN s <=> i \in DOMAIN p \/ i = Len(p) + 1
    BY <2>2
  <2>4. Range(s) = Range(p) \cup {b}
    BY <2>2, <2>3 DEF Range
  <2>5. Range(s) \subseteq Block
    BY <2>2 DEF Range
  <2> QED
    BY <2>4, <2>5 DEF p, s
<1> QED
  BY <1>1, <1>2

(* Fork is a position at which the two chains agree.                       *)
LEMMA ForkFacts ==
    ASSUME NEW new \in Block, NEW old \in Block \cup {Null}
    PROVE  /\ Fork(new, old) \in 1 .. Len(Chain[new])
           /\ old = Null => Fork(new, old) = 1
           /\ old # Null => /\ Fork(new, old) \in 1 .. Len(Chain[old])
                            /\ Chain[new][Fork(new, old)] = Chain[old][Fork(new, old)]
<1> DEFINE N == Len(Chain[new])
           C == {n \in DOMAIN Chain[new] \cap DOMAIN Chain[old] :
                    Chain[new][n] = Chain[old][n]}
           S == {1} \cup C
           D == {N - n : n \in S}
<1>1. /\ N \in Nat /\ N >= 1 /\ DOMAIN Chain[new] = 1 .. N
      /\ Chain[new][1] = Genesis
  BY ChainShape
<1>2. S \subseteq 1 .. N
  BY <1>1
<1>3. \E x \in S : \A y \in S : x >= y
  <2>1. D \subseteq Nat /\ D # {}
    BY <1>1, <1>2
  <2>2. PICK d \in D : \A e \in D : d <= e
    <3> HIDE DEF D
    <3> QED
      BY <2>1, LeastNat, Zenon
  <2>3. PICK x \in S : d = N - x
    BY <2>2
  <2>4. ASSUME NEW y \in S PROVE x >= y
    <3>1. N - x <= N - y /\ x \in 1 .. N /\ y \in 1 .. N
      BY <1>2, <2>2, <2>3, Zenon
    <3> QED
      BY <1>1, <3>1
  <2> QED
    BY <2>4
<1>4. Fork(new, old) \in S
  BY <1>3, Zenon DEF Fork, Max
<1>5. CASE old = Null
  <2>1. DOMAIN Chain[old] = {}
    BY <1>5, ChainFacts
  <2>2. S = {1}
    BY <2>1
  <2> QED
    BY <1>1, <1>4, <1>5, <2>2
<1>6. CASE old # Null
  <2>1. /\ Len(Chain[old]) \in Nat /\ Len(Chain[old]) >= 1
        /\ DOMAIN Chain[old] = 1 .. Len(Chain[old]) /\ Chain[old][1] = Genesis
    BY <1>6, ChainShape
  <2>2. 1 \in C
    BY <1>1, <2>1
  <2> QED
    BY <1>1, <1>4, <1>6, <2>1, <2>2
<1> QED
  BY <1>5, <1>6

(* at lists the blocks along a branch, from the one it starts after.       *)
Along(at, branch) ==
    /\ branch \in Seq(Block \ {Genesis})
    /\ at \in [0 .. Len(branch) -> Block \cup {Null}]
    /\ \A i \in 1 .. Len(branch) : /\ at[i] = branch[i]
                                   /\ at[i - 1] = Parent[branch[i]]

(* The part of a chain after a position is a branch.                       *)
LEMMA BranchFacts ==
    ASSUME NEW tip \in Block, NEW n \in 1 .. Len(Chain[tip])
    PROVE  LET branch == SubSeq(Chain[tip], n + 1, Len(Chain[tip]))
               at == [i \in 0 .. Len(branch) |-> Chain[tip][n + i]]
           IN  /\ Along(at, branch)
               /\ at[0] = Chain[tip][n] /\ at[Len(branch)] = tip
               /\ \A b \in Range(branch) : b \in Range(Chain[tip]) \ {Genesis}
<1> DEFINE s == Chain[tip]
           N == Len(s)
           branch == SubSeq(s, n + 1, N)
           at == [i \in 0 .. Len(branch) |-> s[n + i]]
<1>1. /\ s \in Seq(Block) /\ N \in Nat /\ N >= 1 /\ s[N] = tip
      /\ \A i \in 1 .. N : s[i] \in Block
      /\ \A i \in 2 .. N : s[i] \in Block \ {Genesis} /\ Parent[s[i]] = s[i - 1]
  BY ChainShape
<1> HIDE DEF s, N
<1>2. n \in 1 .. N
  BY DEF s, N
<1>3. /\ branch \in Seq(Block \ {Genesis}) /\ Len(branch) = N - n
      /\ \A i \in 1 .. N - n : branch[i] = s[n + i]
  <2>1. n + 1 \in Int /\ N \in Int /\ \A i \in n + 1 .. N : i \in 2 .. N
    BY <1>1, <1>2
  <2>2. /\ branch \in Seq(Block \ {Genesis})
        /\ Len(branch) = IF n + 1 <= N THEN N - (n + 1) + 1 ELSE 0
        /\ \A i \in 1 .. N - (n + 1) + 1 : branch[i] = s[n + 1 + i - 1]
    BY <1>1, <2>1, SMTT(40)
  <2>3. \A i \in 1 .. N - n : i \in 1 .. N - (n + 1) + 1 /\ n + 1 + i - 1 = n + i
    BY <1>1, <1>2
  <2> HIDE DEF branch
  <2> QED
    BY <1>1, <1>2, <2>2, <2>3
<1> HIDE DEF branch
<1>4. at \in [0 .. Len(branch) -> Block \cup {Null}]
  BY <1>1, <1>2, <1>3
<1>5. ASSUME NEW i \in 1 .. Len(branch)
      PROVE  /\ at[i] = branch[i] /\ at[i - 1] = Parent[branch[i]]
             /\ branch[i] \in Range(s) \ {Genesis}
  <2>1. n + i \in 2 .. N /\ n + (i - 1) = (n + i) - 1 /\ i - 1 \in 0 .. Len(branch)
        /\ i \in 0 .. Len(branch) /\ n + i \in DOMAIN s
    BY <1>1, <1>2, <1>3, SMTT(40) DEF N
  <2>2. branch[i] = s[n + i]
    BY <1>3
  <2> QED
    BY <1>1, <2>1, <2>2 DEF Range
<1>6. at[0] = s[n] /\ at[Len(branch)] = tip
  BY <1>1, <1>2, <1>3
<1>7. \A b \in Range(branch) : b \in Range(s) \ {Genesis}
  <2>1. DOMAIN branch = 1 .. Len(branch)
    BY <1>3
  <2> QED
    BY <1>5, <2>1, Zenon DEF Range
<1>8. Along(at, branch)
  BY <1>3, <1>4, <1>5, Zenon DEF Along
<1> QED
  BY <1>6, <1>7, <1>8 DEF branch, N, s

(* The roll back of a branch, over a mixture of its tip and q, ends in a   *)
(* mixture of the block it starts after and q.                             *)
LEMMA RollBackFacts ==
    ASSUME db \in Contents, NEW branch, NEW at, Along(at, branch), NEW q,
           \A b \in Range(branch) : Applicable(b) /\ UndoRecord(b, undo[b]),
           Mixed(db, at[Len(branch)], q)
    PROVE  /\ RollBack(branch)[Len(branch)] \in Sound(db)
           /\ Mixed(Answers(RollBack(branch)[Len(branch)], db), at[0], q)
<1> DEFINE N == Len(branch)
           B(k) == branch[N + 1 - k]
           T == Sound(db)
           Step(t, k) == DisconnectBlock(t, db, B(k), undo[B(k)]).view
           Body(g) == [n \in 0 .. N |-> IF n = 0 THEN EmptyCache
                                        ELSE Step(g[n - 1], n)]
           F == [k \in 1 .. N |-> [t \in T |-> Step(t, k)]]
           f == RollBack(branch)
<1>1. N \in Nat /\ DOMAIN branch = 1 .. N
  BY DEF Along
<1>2. ASSUME NEW k \in 1 .. N
      PROVE  /\ B(k) \in Block \ {Genesis} /\ Applicable(B(k))
             /\ UndoRecord(B(k), undo[B(k)])
             /\ at[N - (k - 1)] = B(k) /\ at[N - k] = Parent[B(k)]
  <2>1. /\ N + 1 - k \in 1 .. N /\ (N + 1 - k) - 1 = N - k
        /\ N + 1 - k = N - (k - 1)
    BY <1>1
  <2>2. B(k) \in Range(branch)
    BY <1>1, <2>1 DEF Range
  <2> QED
    BY <1>1, <2>1, <2>2 DEF Along
<1>3. EmptyCache \in T /\ Answers(EmptyCache, db) = db
  BY EmptyFacts DEF Sound
<1>4. ASSUME NEW k \in 1 .. N, NEW t \in T PROVE Step(t, k) \in T
  BY <1>2, DisconnectBlockExact
<1>5. f = CHOOSE g : g = Body(g)
  BY DEF RollBack
<1> HIDE DEF N, T, Step, f
<1>6. F \in [1 .. N -> [T -> T]]
  BY <1>4
<1>7. PICK g : LoopOf(g, N, T, EmptyCache, F)
  <2> HIDE DEF F
  <2> QED
    BY <1>1, <1>3, <1>6, LoopExists
<1>8. g = Body(g)
  <2>1. g \in [0 .. N -> T] /\ g[0] = EmptyCache
    BY <1>7 DEF LoopOf
  <2>2. ASSUME NEW k \in 1 .. N PROVE g[k] = Step(g[k - 1], k)
    <3>1. g[k] = F[k][g[k - 1]] /\ g[k - 1] \in T
      BY <1>1, <1>7, <2>1 DEF LoopOf
    <3> QED
      BY <3>1
  <2> QED
    BY <1>1, <2>1, <2>2
<1>9. f = Body(f)
  BY <1>5, <1>8, Zenon
<1>10. f[0] = EmptyCache /\ \A n \in 1 .. N : f[n] = Step(f[n - 1], n)
  BY <1>1, <1>9
<1> DEFINE J(k) == f[k] \in T /\ Mixed(Answers(f[k], db), at[N - k], q)
           S == {k \in 0 .. N : J(k)}
<1>11. 0 \in S
  <2>1. N - 0 = N /\ 0 \in 0 .. N
    BY <1>1
  <2> QED
    BY <1>3, <1>10, <2>1 DEF N
<1>12. ASSUME NEW k \in 1 .. N, k - 1 \in S PROVE k \in S
  <2> DEFINE t == f[k - 1]
  <2>1. t \in T /\ Mixed(Answers(t, db), B(k), q)
    BY <1>2, <1>12
  <2>2. f[k] = Step(t, k)
    BY <1>10
  <2> HIDE DEF t
  <2>3. Step(t, k) \in T /\ Mixed(Answers(Step(t, k), db), Parent[B(k)], q)
    BY <1>2, <2>1, MixedBack, Zenon DEF T, Step
  <2> QED
    BY <1>1, <1>2, <2>2, <2>3
<1>13. 0 .. N \subseteq S
  <2> HIDE DEF S
  <2> QED
    BY <1>1, <1>11, <1>12, LoopInduct, Zenon
<1>14. J(N) /\ N - N = 0
  <2>1. N \in 0 .. N /\ N - N = 0
    BY <1>1
  <2> HIDE DEF J
  <2> QED
    BY <1>13, <2>1
<1> QED
  BY <1>14 DEF f, N, T

(* The roll forward of a branch, over a mixture of the block it starts     *)
(* after and q, ends in a mixture of its tip and q.                        *)
LEMMA RollForwardFacts ==
    ASSUME db \in Contents, NEW branch, NEW at, Along(at, branch), NEW q,
           NEW view \in Sound(db), Mixed(Answers(view, db), at[0], q)
    PROVE  /\ RollForward(view, branch)[Len(branch)] \in Sound(db)
           /\ Mixed(Answers(RollForward(view, branch)[Len(branch)], db),
                    at[Len(branch)], q)
<1> DEFINE N == Len(branch)
           T == Sound(db)
           Step(t, k) == RollforwardBlock(t, db, branch[k])
           Body(g) == [n \in 0 .. N |-> IF n = 0 THEN view
                                        ELSE Step(g[n - 1], n)]
           F == [k \in 1 .. N |-> [t \in T |-> Step(t, k)]]
           f == RollForward(view, branch)
<1>1. N \in Nat
  BY DEF Along
<1>2. ASSUME NEW k \in 1 .. N
      PROVE  /\ branch[k] \in Block \ {Genesis}
             /\ at[k] = branch[k] /\ at[k - 1] = Parent[branch[k]]
  BY DEF Along
<1>3. ASSUME NEW k \in 1 .. N, NEW t \in T PROVE Step(t, k) \in T
  BY <1>2, RollforwardBlockExact
<1>4. f = CHOOSE g : g = Body(g)
  BY DEF RollForward
<1>5. view \in T
  OBVIOUS
<1> HIDE DEF N, T, Step, f
<1>6. F \in [1 .. N -> [T -> T]]
  BY <1>3
<1>7. PICK g : LoopOf(g, N, T, view, F)
  <2> HIDE DEF F
  <2> QED
    BY <1>1, <1>5, <1>6, LoopExists
<1>8. g = Body(g)
  <2>1. g \in [0 .. N -> T] /\ g[0] = view
    BY <1>7 DEF LoopOf
  <2>2. ASSUME NEW k \in 1 .. N PROVE g[k] = Step(g[k - 1], k)
    <3>1. g[k] = F[k][g[k - 1]] /\ g[k - 1] \in T
      <4> HIDE DEF F
      <4> QED
        BY <1>1, <1>7, <2>1 DEF LoopOf
    <3> QED
      BY <3>1
  <2> QED
    BY <1>1, <2>1, <2>2
<1>9. f = Body(f)
  BY <1>4, <1>8, Zenon
<1>10. f[0] = view /\ \A n \in 1 .. N : f[n] = Step(f[n - 1], n)
  BY <1>1, <1>9
<1> DEFINE J(k) == f[k] \in T /\ Mixed(Answers(f[k], db), at[k], q)
           S == {k \in 0 .. N : J(k)}
<1>11. 0 \in S
  BY <1>1, <1>5, <1>10
<1>12. ASSUME NEW k \in 1 .. N, k - 1 \in S PROVE k \in S
  <2> DEFINE t == f[k - 1]
  <2>1. t \in T /\ Mixed(Answers(t, db), Parent[branch[k]], q)
    BY <1>2, <1>12
  <2>2. f[k] = Step(t, k)
    BY <1>10
  <2> HIDE DEF t
  <2>3. Step(t, k) \in T /\ Mixed(Answers(Step(t, k), db), branch[k], q)
    BY <1>2, <2>1, MixedForward DEF T, Step
  <2> QED
    BY <1>1, <1>2, <2>2, <2>3
<1>13. 0 .. N \subseteq S
  <2> HIDE DEF S
  <2> QED
    BY <1>1, <1>11, <1>12, LoopInduct
<1>14. J(N)
  <2>1. N \in 0 .. N
    BY <1>1
  <2> HIDE DEF J
  <2> QED
    BY <1>13, <2>1
<1> QED
  BY <1>14 DEF f, N, T

(***************************************************************************)
(* ReplayBlocks repairs whatever an interrupted flush left: over any       *)
(* mixture of the coins of the old tip and of the new one it ends in the   *)
(* UTXO set of the new tip.                                                *)
(***************************************************************************)
THEOREM ReplayExact ==
    ASSUME db \in Contents, NEW new \in Block, NEW old \in Block \cup {Null},
           Mixed(db, old, new),
           \A b \in Range(RolledBack(new, old)) :
                Applicable(b) /\ UndoRecord(b, undo[b])
    PROVE  /\ Replayed(new, old) \in Sound(db)
           /\ Answers(Replayed(new, old), db) = UtxoAt[new]
<1> DEFINE n == Fork(new, old)
           back == RolledBack(new, old)
           forward == RolledForward(new, old)
           middle == RollBack(back)[Len(back)]
           at == [i \in 0 .. Len(forward) |-> Chain[new][n + i]]
<1>1. /\ n \in 1 .. Len(Chain[new])
      /\ old = Null => n = 1
      /\ old # Null => n \in 1 .. Len(Chain[old]) /\ Chain[new][n] = Chain[old][n]
  BY ForkFacts
<1>2. middle \in Sound(db) /\ Mixed(Answers(middle, db), Chain[new][n], new)
  <2>1. CASE old = Null
    <3> DEFINE none == [i \in 0 .. 0 |-> Null]
    <3>1. back = <<>>
      BY <1>1, <2>1, ChainFacts DEF RolledBack
    <3>2. Along(none, back) /\ Len(back) = 0 /\ none[0] = Null
      BY <3>1 DEF Along
    <3>3. middle \in Sound(db) /\ Mixed(Answers(middle, db), Null, new)
      <4> HIDE DEF none, back
      <4> QED
        BY <2>1, <3>2, RollBackFacts DEF back
    <3>4. UtxoAt[Chain[new][n]] = UtxoAt[Null]
      BY <1>1, <2>1, ChainShape, UtxoAtFacts, Zenon
    <3> QED
      BY <3>3, <3>4, Zenon DEF Mixed
  <2>2. CASE old # Null
    <3> DEFINE path == [i \in 0 .. Len(back) |-> Chain[old][n + i]]
    <3>1. /\ Along(path, back) /\ path[0] = Chain[old][n]
          /\ path[Len(back)] = old
      BY <1>1, <2>2, BranchFacts, ZenonT(40) DEF RolledBack
    <3> HIDE DEF path, back
    <3>2. middle \in Sound(db) /\ Mixed(Answers(middle, db), path[0], new)
      BY <3>1, RollBackFacts, Zenon DEF back
    <3> QED
      BY <1>1, <2>2, <3>1, <3>2, Zenon
  <2> QED
    BY <2>1, <2>2, Zenon
<1>3. Along(at, forward) /\ at[0] = Chain[new][n] /\ at[Len(forward)] = new
  BY <1>1, BranchFacts, ZenonT(40) DEF RolledForward
<1>4. Replayed(new, old) = RollForward(middle, forward)[Len(forward)]
  BY DEF Replayed
<1> HIDE DEF middle, at, forward
<1>5. /\ Replayed(new, old) \in Sound(db)
      /\ Mixed(Answers(Replayed(new, old), db), new, new)
  BY <1>2, <1>3, <1>4, RollForwardFacts, Zenon
<1>6. Answers(Replayed(new, old), db) = UtxoAt[new]
  <2>1. \A o \in Outpoint : Answers(Replayed(new, old), db)[o] = UtxoAt[new][o]
    BY <1>5, Zenon DEF Mixed
  <2>2. UtxoAt[new] = [o \in Outpoint |-> UtxoAt[new][o]]
    BY UtxoAtFacts, Zenon DEF Utxos
  <2>3. Answers(Replayed(new, old), db)
          = [o \in Outpoint |-> Answers(Replayed(new, old), db)[o]]
    BY Zenon DEF Answers
  <2> QED
    BY <2>1, <2>2, <2>3
<1> QED
  BY <1>5, <1>6

-----------------------------------------------------------------------------
(***************************************************************************)
(* What the steps do to the cache and the database.                        *)
(***************************************************************************)

(* A block that ConnectTip connects.                                       *)
LEMMA ConnectCache ==
    ASSUME db \in Contents, cache \in Sound(db), NEW b \in Block,
           TipCoins = UtxoAt[Parent[b]],
           ConnectBlock(EmptyCache, TipCoins, b).ok
    PROVE  LET r == ConnectBlock(EmptyCache, TipCoins, b)
           IN  /\ BatchWrite(cache, r.view) \in Sound(db)
               /\ Answers(BatchWrite(cache, r.view), db) = UtxoAt[b]
               /\ b # Genesis => Applicable(b) /\ UndoRecord(b, r.undo)
               /\ r.undo \in Contents
<1> DEFINE base == TipCoins
           r == ConnectBlock(EmptyCache, base, b)
<1>1. cache \in CCoinsMap /\ SoundOver(cache, db) /\ base \in Contents
  BY AnswersType, Zenon DEF Sound, TipCoins
<1>2. /\ r.view \in Sound(base) /\ Answers(r.view, base) = UtxoAt[b]
      /\ b # Genesis => Applicable(b) /\ UndoRecord(b, r.undo)
  <2>1. CASE b = Genesis
    <3>1. r.view = EmptyCache
      BY <1>1, <2>1, ConnectGenesis, Zenon
    <3>2. EmptyCache \in Sound(base) /\ Answers(EmptyCache, base) = base
      BY <1>1, EmptyFacts DEF Sound
    <3>3. base = UtxoAt[b]
      BY <2>1, UtxoAtFacts, BlockAssumption, Zenon
    <3> QED
      BY <2>1, <3>1, <3>2, <3>3, Zenon
  <2>2. CASE b # Genesis
    <3> HIDE DEF base
    <3> QED
      BY <2>2, ConnectBlockExact, Zenon DEF base
  <2> QED
    BY <2>1, <2>2, Zenon
<1>3. r.undo \in Contents
  <2>1. EmptyCache \in CCoinsMap /\ Len(Vtx[b]) \in Nat
    BY BlockFacts DEF EmptyCache, CCoinsMap
  <2>2. ConnectTxs(EmptyCache, base, b) \in [0 .. Len(Vtx[b]) -> ConnectState]
    BY <1>1, <2>1, ConnectTxsFacts, Zenon
  <2>3. r \in ConnectState
    BY <2>1, <2>2 DEF ConnectBlock
  <2> QED
    BY <2>3, Zenon DEF ConnectState
<1> HIDE DEF r
<1>4. /\ BatchWrite(cache, r.view) \in CCoinsMap
      /\ SoundOver(BatchWrite(cache, r.view), db)
      /\ Answers(BatchWrite(cache, r.view), db) = Answers(r.view, base)
  BY <1>1, <1>2, BatchWriteFacts, Zenon DEF Sound, TipCoins
<1> QED
  BY <1>2, <1>3, <1>4, Zenon DEF Sound, r

(* A tip that DisconnectTip disconnects.                                   *)
LEMMA DisconnectCache ==
    ASSUME db \in Contents, cache \in Sound(db), NEW b \in Block \ {Genesis},
           TipCoins = UtxoAt[b], Applicable(b), UndoRecord(b, undo[b])
    PROVE  LET r == DisconnectBlock(EmptyCache, TipCoins, b, undo[b])
           IN  /\ r.clean
               /\ BatchWrite(cache, r.view) \in Sound(db)
               /\ Answers(BatchWrite(cache, r.view), db) = UtxoAt[Parent[b]]
<1> DEFINE base == TipCoins
           r == DisconnectBlock(EmptyCache, base, b, undo[b])
<1>1. cache \in CCoinsMap /\ SoundOver(cache, db) /\ base \in Contents
  BY AnswersType DEF Sound, TipCoins
<1>2. EmptyCache \in Sound(base) /\ Answers(EmptyCache, base) = base
  BY <1>1, EmptyFacts DEF Sound
<1>3. /\ r.view \in Sound(base) /\ r.clean
      /\ Answers(r.view, base) = UtxoAt[Parent[b]]
  BY <1>1, <1>2, DisconnectBlockExact, SMTT(40)
<1> HIDE DEF r
<1>4. /\ BatchWrite(cache, r.view) \in CCoinsMap
      /\ SoundOver(BatchWrite(cache, r.view), db)
      /\ Answers(BatchWrite(cache, r.view), db) = Answers(r.view, base)
  BY <1>1, <1>3, BatchWriteFacts, Zenon DEF Sound, TipCoins
<1> QED
  BY <1>3, <1>4, Zenon DEF Sound, r

(* Writing some entries of the cache, and dropping them from it, does not  *)
(* change what it answers; what is written is what it answered.            *)
LEMMA WriteSome ==
    ASSUME db \in Contents, cache \in Sound(db), NEW S \in SUBSET Entries
    PROVE  LET d == DBBatchWrite(db, Only(S))
               c == Only(Entries \ S)
           IN  /\ d \in Contents /\ c \in Sound(d)
               /\ Answers(c, d) = TipCoins
               /\ \A o \in Outpoint : d[o] = db[o] \/ d[o] = TipCoins[o]
<1> DEFINE d == DBBatchWrite(db, Only(S))
           c == Only(Entries \ S)
<1>1. cache \in CCoinsMap /\ SoundOver(cache, db)
  BY DEF Sound
<1>2. ASSUME NEW o \in Outpoint
      PROVE  /\ c[o] \in Entry \cup {NoEntry} /\ d[o] \in Coin \cup {Spent}
             /\ SoundEntry(c[o], d[o])
             /\ (IF c[o] = NoEntry THEN d[o] ELSE c[o].coin) = TipCoins[o]
             /\ d[o] = db[o] \/ d[o] = TipCoins[o]
  <2>1. /\ cache[o] \in Entry \cup {NoEntry} /\ SoundEntry(cache[o], db[o])
        /\ db[o] \in Coin \cup {Spent}
        /\ TipCoins[o] = IF cache[o] = NoEntry THEN db[o] ELSE cache[o].coin
    BY <1>1 DEF CCoinsMap, SoundOver, Contents, TipCoins, Answers
  <2>2. CASE o \in S
    <3>1. d[o] = WriteKey(db[o], cache[o]) /\ c[o] = NoEntry /\ cache[o] # NoEntry
      BY <2>2 DEF DBBatchWrite, Only, Entries
    <3>2. d[o] = cache[o].coin
      BY <2>1, <3>1, Zenon DEF WriteKey, SoundEntry
    <3>3. cache[o].coin \in Coin \cup {Spent}
      BY <2>1, <3>1, Zenon DEF Entry
    <3> HIDE DEF c, d
    <3> QED
      BY <2>1, <3>1, <3>2, <3>3, Zenon DEF SoundEntry
  <2>3. CASE o \notin S
    <3>1. d[o] = db[o] /\ c[o] = cache[o]
      BY <2>3, Zenon DEF DBBatchWrite, Only, Entries, WriteKey
    <3> HIDE DEF c, d
    <3> QED
      BY <2>1, <3>1
  <2> QED
    BY <2>2, <2>3, Zenon
<1>3. c = [o \in Outpoint |-> c[o]] /\ d = [o \in Outpoint |-> d[o]]
  BY DEF Only, DBBatchWrite
<1> HIDE DEF c, d
<1>4. c \in CCoinsMap /\ d \in Contents /\ SoundOver(c, d)
  BY <1>2, <1>3 DEF CCoinsMap, Contents, SoundOver
<1>5. Answers(c, d) = TipCoins
  BY <1>2, Zenon DEF Answers, TipCoins
<1> QED
  BY <1>2, <1>4, <1>5, Zenon DEF Sound, c, d

-----------------------------------------------------------------------------
(***************************************************************************)
(* CoinsInv is inductive: one lemma for each action.                       *)
(***************************************************************************)

(* No coins at all is the UTXO set of the genesis block and of no block.   *)
LEMMA NoCoinsGood ==
    ASSUME NEW best \in {Null, Genesis} PROVE GoodDb(NoCoins, best, <<>>)
<1>1. NoCoins \in Contents
  BY DEF NoCoins, Contents
<1> QED
  BY <1>1, UtxoAtFacts, BlockAssumption, Zenon DEF GoodDb

(* The node starts in CoinsInv.                                            *)
LEMMA CoinsInit == Init => CoinsInv
<1> SUFFICES ASSUME Init PROVE CoinsInv
  OBVIOUS
<1>1. EmptyCache \in CCoinsMap
  BY DEF EmptyCache, CCoinsMap
<1>2. dbBest \in {Null, Genesis} /\ db = NoCoins /\ dbHeads = <<>>
  BY DEF Init
<1>3. GoodDb(db, dbBest, dbHeads)
  BY <1>2, NoCoinsGood
<1>4. dbDisk = <<db, dbBest, dbHeads>>
  BY DEF Init
<1>5. DbInv
  <2>1. dbDisk[1] = db /\ dbDisk[2] = dbBest /\ dbDisk[3] = dbHeads
    BY <1>4
  <2> QED
    BY <1>3, <2>1 DEF DbInv
<1>6. TypeOK
  <2>1. /\ status \in [Block -> Status] /\ index \in [Block -> Status]
        /\ blk \in [Block -> Where] /\ rev \in [Block -> Where]
        /\ file \in [Block -> 0 .. MaxFile]
        /\ undo \in [Block -> Contents \cup {NoUndo}]
        /\ last \in 0 .. MaxFile /\ lastDisk \in 0 .. MaxFile
        /\ crashes \in 0 .. MaxCrashes
    BY BoundsAssumption DEF Init, Status, Where
  <2>2. db \in Contents /\ dbBest \in Block \cup {Null} /\ dbHeads \in Heads
    BY <1>2, <1>3 DEF GoodDb, Heads
  <2>3. dbDisk \in Contents \X (Block \cup {Null}) \X Heads
    BY <1>4, <2>2
  <2> QED
    BY <1>1, <1>2, <2>1, <2>2, <2>3, BoundsAssumption, Zenon DEF Init, TypeOK
<1>7. UndoInv
  BY DEF Init, UndoInv, GoodUndo
<1>8. CacheInv
  BY DEF Init, CacheInv
<1> QED
  BY <1>5, <1>6, <1>7, <1>8 DEF CoinsInv

(* AcceptBlock: the coins are left alone.                                  *)
LEMMA AcceptBlockCoins ==
    ASSUME CoinsInv, NEW b \in Block \ {Genesis}, NEW fileFull \in BOOLEAN,
           AcceptBlock(b, fileFull)
    PROVE  CoinsInv'
<1> USE DEF CoinsInv
<1>1. pc = "run" /\ pc' = "run"
  BY Zenon DEF AcceptBlock, Up
<1>2. TypeOK'
  <2>1. last' \in 0 .. MaxFile
    BY BoundsAssumption DEF AcceptBlock, TypeOK
  <2>2. /\ Synced(blk) \in [Block -> Where] /\ Synced(rev) \in [Block -> Where]
        /\ blk \in [Block -> Where] /\ rev \in [Block -> Where]
    BY DEF Synced, TypeOK, Where
  <2>3. blk' \in [Block -> Where] /\ rev' \in [Block -> Where]
    BY <2>2, Zenon DEF AcceptBlock, Where
  <2>4. file' \in [Block -> 0 .. MaxFile]
    BY <2>1, Zenon DEF AcceptBlock, TypeOK
  <2>5. status' \in [Block -> Status]
    BY Zenon DEF AcceptBlock, TypeOK, Status
  <2> QED
    BY <2>1, <2>3, <2>4, <2>5 DEF AcceptBlock, TypeOK, indexDb, coinDb
<1>3. UndoInv'
  <2>1. \A c \in Block : "undo" \in status'[c] <=> "undo" \in status[c]
    BY Zenon DEF AcceptBlock, TypeOK
  <2>2. \A c \in Block : status[c] \subseteq status'[c]
    BY Zenon DEF AcceptBlock, TypeOK
  <2> QED
    BY <1>1, <2>1, <2>2, Zenon DEF AcceptBlock, UndoInv, GoodUndo, indexDb
<1>4. DbInv'
  BY Zenon DEF AcceptBlock, DbInv, coinDb
<1>5. CacheInv'
  BY <1>1, Zenon DEF AcceptBlock, CacheInv, GoodCache, TipCoins, coinDb
<1> QED
  BY <1>2, <1>3, <1>4, <1>5

(* ConnectTip: the cache goes on to the UTXO set of the new tip, and an    *)
(* undo record that is written is the block's.                             *)
LEMMA ConnectTipCoins ==
    ASSUME CoinsInv, NEW b \in Block, NEW flush \in BOOLEAN, ConnectTip(b, flush)
    PROVE  CoinsInv'
<1> DEFINE r == ConnectBlock(EmptyCache, TipCoins, b)
           new == BatchWrite(cache, r.view)
           writeUndo == b # Genesis /\ "undo" \notin status[b]
<1> USE DEF CoinsInv
<1>1. /\ pc = "run" /\ cacheBest = active /\ active = Parent[b]
      /\ dbHeads = <<>> /\ cache \in Sound(db) /\ TipCoins = UtxoAt[Parent[b]]
      /\ asserted' = FALSE /\ db \in Contents
      /\ \A c \in Block : index[c] \subseteq status[c]
  BY Zenon DEF ConnectTip, Up, CacheInv, GoodCache, TypeOK, UndoInv
<1>2. /\ last' = last /\ blk' = blk /\ file' = file /\ index' = index
      /\ lastDisk' = lastDisk /\ db' = db /\ dbBest' = dbBest
      /\ dbHeads' = dbHeads /\ dbDisk' = dbDisk
      /\ crashes' = crashes /\ broken' = broken
  BY Zenon DEF ConnectTip, indexDb, coinDb
<1>3. DbInv'
  BY <1>2 DEF DbInv
<1>4. CASE r.ok
  <2>1. /\ new \in Sound(db) /\ Answers(new, db) = UtxoAt[b]
        /\ b # Genesis => Applicable(b) /\ UndoRecord(b, r.undo)
        /\ r.undo \in Contents
    BY <1>1, <1>4, ConnectCache, Zenon
  <2>2. /\ cache' = new /\ cacheBest' = b
        /\ undo' = IF writeUndo THEN [undo EXCEPT ![b] = r.undo] ELSE undo
        /\ rev' = IF writeUndo THEN [rev EXCEPT ![b] = "os"] ELSE rev
        /\ status' = IF writeUndo THEN [status EXCEPT ![b] = @ \cup {"undo"}]
                     ELSE status
        /\ MaybeFlush(flush, b)
    BY <1>4, Zenon DEF ConnectTip
  <2> HIDE DEF new, r
  <2>3. /\ pc' \in {"sync", "run"} /\ full' \in BOOLEAN
        /\ then' \in Block \cup {Null} /\ active' \in Block \cup {Null}
        /\ pc' = "run" => active' = b
        /\ pc' = "sync" => then' = b
    BY <2>2, Zenon DEF MaybeFlush, TypeOK
  <2>4. TypeOK'
    <3>1. cache' \in CCoinsMap
      BY <2>1, <2>2 DEF Sound
    <3>2. rev' \in [Block -> Where] /\ status' \in [Block -> Status]
      BY <2>2, Zenon DEF TypeOK, Where, Status
    <3>3. undo' \in [Block -> Contents \cup {NoUndo}]
      BY <2>1, <2>2, Zenon DEF TypeOK
    <3> QED
      BY <1>1, <1>2, <2>2, <2>3, <3>1, <3>2, <3>3, Zenon DEF TypeOK
  <2>5. UndoInv'
    <3>1. CASE writeUndo
      <4>1. /\ \A c \in Block : status[c] \subseteq status'[c]
            /\ \A c \in Block \ {b} : status'[c] = status[c] /\ undo'[c] = undo[c]
            /\ "undo" \notin index[b]
        BY <1>1, <2>2, <3>1, Zenon DEF TypeOK
      <4>2. UndoRecord(b, undo[b])' /\ Applicable(b)
        <5>1. undo'[b] = r.undo
          BY <2>2, <3>1, Zenon DEF TypeOK
        <5> QED
          BY <2>1, <3>1, <5>1, Zenon DEF UndoRecord
      <4>3. ASSUME NEW c \in Block \ {Genesis}, c # b, "undo" \in status[c]
            PROVE  Applicable(c) /\ UndoRecord(c, undo[c])'
        <5>1. Applicable(c) /\ UndoRecord(c, undo[c])
          BY <4>3, Zenon DEF UndoInv, GoodUndo
        <5>2. undo'[c] = undo[c]
          BY <4>1, <4>3, Zenon
        <5> QED
          BY <5>1, <5>2, Zenon DEF UndoRecord
      <4>4. GoodUndo(status)'
        <5> SUFFICES ASSUME NEW c \in Block \ {Genesis}, "undo" \in status'[c]
                     PROVE  Applicable(c) /\ UndoRecord(c, undo[c])'
          BY Zenon DEF GoodUndo
        <5> QED
          BY <4>1, <4>2, <4>3, Zenon
      <4>5. GoodUndo(index)'
        <5> SUFFICES ASSUME NEW c \in Block \ {Genesis}, "undo" \in index[c]
                     PROVE  Applicable(c) /\ UndoRecord(c, undo[c])'
          BY <1>2, Zenon DEF GoodUndo
        <5>1. c # b /\ "undo" \in status[c]
          BY <1>1, <4>1
        <5> QED
          BY <4>3, <5>1, Zenon
      <4>6. \A c \in Block : index'[c] \subseteq status'[c]
        BY <1>1, <1>2, <4>1, Zenon
      <4> QED
        BY <4>4, <4>5, <4>6, Zenon DEF UndoInv
    <3>2. CASE ~writeUndo
      BY <1>1, <1>2, <2>2, <3>2, Zenon DEF UndoInv, GoodUndo
    <3> QED
      BY <3>1, <3>2
  <2>6. CacheInv'
    <3>1. GoodCache'
      BY <1>2, <2>1, <2>2, Zenon DEF GoodCache, TipCoins
    <3> QED
      BY <1>1, <1>2, <2>2, <2>3, <3>1, Zenon DEF CacheInv
  <2> QED
    BY <1>3, <2>4, <2>5, <2>6
<1>5. CASE ~r.ok
  <2>1. /\ status' = [status EXCEPT ![b] = @ \cup {"failed"}]
        /\ pc' = pc /\ then' = then /\ full' = full /\ active' = active
        /\ cache' = cache /\ cacheBest' = cacheBest /\ undo' = undo /\ rev' = rev
    BY <1>5, Zenon DEF ConnectTip
  <2>2. TypeOK'
    <3>1. status' \in [Block -> Status]
      BY <2>1 DEF TypeOK, Status
    <3> QED
      BY <1>1, <1>2, <2>1, <3>1, Zenon DEF TypeOK
  <2>3. UndoInv'
    <3>1. \A c \in Block : /\ status[c] \subseteq status'[c]
                           /\ "undo" \in status'[c] <=> "undo" \in status[c]
      BY <2>1, Zenon DEF TypeOK
    <3> QED
      BY <1>1, <1>2, <2>1, <3>1, Zenon DEF UndoInv, GoodUndo
  <2>4. CacheInv'
    BY <1>1, <1>2, <2>1, Zenon DEF CacheInv, GoodCache, TipCoins
  <2> QED
    BY <1>3, <2>2, <2>3, <2>4, Zenon
<1> QED
  BY <1>4, <1>5

(* DisconnectTip: the cache goes back to the UTXO set of the parent.       *)
LEMMA DisconnectTipCoins ==
    ASSUME CoinsInv, NEW flush \in BOOLEAN, DisconnectTip(flush)
    PROVE  CoinsInv'
<1> DEFINE r == DisconnectBlock(EmptyCache, TipCoins, active, undo[active])
           new == BatchWrite(cache, r.view)
           readable == /\ "undo" \in status[active] /\ rev[active] # "none"
                       /\ "data" \in status[active] /\ blk[active] # "none"
<1> USE DEF CoinsInv
<1>1. /\ pc = "run" /\ cacheBest = active /\ active \in Block \ {Genesis}
      /\ dbHeads = <<>> /\ cache \in Sound(db) /\ TipCoins = UtxoAt[active]
      /\ asserted' = FALSE /\ db \in Contents
      /\ Parent[active] \in Block \cup {Null}
  BY BlockAssumption, Zenon DEF DisconnectTip, Up, CacheInv, GoodCache, TypeOK
<1>2. /\ status' = status /\ last' = last /\ blk' = blk /\ rev' = rev
      /\ file' = file /\ undo' = undo /\ index' = index
      /\ lastDisk' = lastDisk /\ db' = db /\ dbBest' = dbBest
      /\ dbHeads' = dbHeads /\ dbDisk' = dbDisk /\ crashes' = crashes
  BY Zenon DEF DisconnectTip, files, indexDb, coinDb
<1>3. DbInv'
  BY <1>2 DEF DbInv
<1>4. CASE readable /\ r.clean
  <2>1. Applicable(active) /\ UndoRecord(active, undo[active])
    BY <1>1, <1>4, Zenon DEF UndoInv, GoodUndo
  <2>2. new \in Sound(db) /\ Answers(new, db) = UtxoAt[Parent[active]]
    BY <1>1, <2>1, DisconnectCache, Zenon
  <2>3. /\ cache' = new /\ cacheBest' = Parent[active]
        /\ MaybeFlush(flush, Parent[active]) /\ broken' = broken
    BY <1>4, Zenon DEF DisconnectTip
  <2> HIDE DEF new, r
  <2>4. /\ pc' \in {"sync", "run"} /\ full' \in BOOLEAN
        /\ then' \in Block \cup {Null} /\ active' \in Block \cup {Null}
        /\ pc' = "run" => active' = Parent[active]
        /\ pc' = "sync" => then' = Parent[active]
    BY <1>1, <2>3, Zenon DEF MaybeFlush, TypeOK
  <2>5. TypeOK'
    <3>1. cache' \in CCoinsMap
      BY <2>2, <2>3, Zenon DEF Sound
    <3> QED
      BY <1>1, <1>2, <2>3, <2>4, <3>1, Zenon DEF TypeOK
  <2>6. UndoInv'
    BY <1>1, <1>2, Zenon DEF UndoInv, GoodUndo
  <2>7. CacheInv'
    <3>1. GoodCache'
      BY <1>2, <2>2, <2>3, Zenon DEF GoodCache, TipCoins
    <3> QED
      BY <1>1, <1>2, <2>3, <2>4, <3>1, Zenon DEF CacheInv
  <2> QED
    BY <1>3, <2>5, <2>6, <2>7
<1>5. CASE ~(readable /\ r.clean)
  <2>1. /\ broken' = TRUE /\ pc' = pc /\ then' = then /\ full' = full
        /\ active' = active /\ cache' = cache /\ cacheBest' = cacheBest
    BY <1>5, Zenon DEF DisconnectTip
  <2>2. TypeOK'
    BY <1>1, <1>2, <2>1, Zenon DEF TypeOK
  <2>3. UndoInv'
    BY <1>1, <1>2, <2>1, Zenon DEF UndoInv, GoodUndo
  <2>4. CacheInv'
    BY <1>1, <1>2, <2>1, Zenon DEF CacheInv, GoodCache, TipCoins
  <2> QED
    BY <1>3, <2>2, <2>3, <2>4, Zenon
<1> QED
  BY <1>4, <1>5, Zenon

(* The start of a flush, periodic or at the shutdown.                      *)
LEMMA BeginFlushCoins ==
    ASSUME CoinsInv, Shutdown \/ \E everything \in BOOLEAN : PeriodicFlush(everything)
    PROVE  CoinsInv'
<1> USE DEF CoinsInv
<1>1. /\ pc = "run" /\ pc' = "sync" /\ full' \in BOOLEAN
      /\ then' \in {"exit", cacheBest} /\ cacheBest' = cacheBest
  BY Zenon DEF Shutdown, PeriodicFlush, Up, CacheInv
<1>2. /\ active' = active /\ status' = status /\ last' = last /\ cache' = cache
      /\ blk' = blk /\ rev' = rev /\ file' = file /\ undo' = undo
      /\ index' = index /\ lastDisk' = lastDisk /\ db' = db /\ dbBest' = dbBest
      /\ dbHeads' = dbHeads /\ dbDisk' = dbDisk
      /\ crashes' = crashes /\ broken' = broken /\ asserted' = asserted
  BY DEF Shutdown, PeriodicFlush, files, indexDb, coinDb
<1>3. TypeOK'
  BY <1>1, <1>2, Zenon DEF TypeOK
<1>4. UndoInv' /\ DbInv'
  BY <1>1, <1>2, Zenon DEF UndoInv, GoodUndo, DbInv
<1>5. CacheInv'
  BY <1>1, <1>2, Zenon DEF CacheInv, GoodCache, TipCoins
<1> QED
  BY <1>3, <1>4, <1>5

(* The block files are synced.                                             *)
LEMMA SyncBlockFilesCoins ==
    ASSUME CoinsInv, SyncBlockFiles
    PROVE  CoinsInv'
<1> USE DEF CoinsInv
<1>1. /\ pc = "sync" /\ pc' = "index"
      /\ blk' = Synced(blk) /\ rev' = Synced(rev)
      /\ active' = active /\ status' = status /\ last' = last /\ cache' = cache
      /\ cacheBest' = cacheBest /\ full' = full /\ then' = then
      /\ file' = file /\ undo' = undo
      /\ index' = index /\ lastDisk' = lastDisk /\ db' = db /\ dbBest' = dbBest
      /\ dbHeads' = dbHeads /\ dbDisk' = dbDisk
      /\ crashes' = crashes /\ broken' = broken /\ asserted' = asserted
  BY Zenon DEF SyncBlockFiles, memory, indexDb, coinDb
<1>2. blk' \in [Block -> Where] /\ rev' \in [Block -> Where]
  BY <1>1, Zenon DEF Synced, TypeOK, Where
<1>3. TypeOK'
  BY <1>1, <1>2, Zenon DEF TypeOK
<1>4. UndoInv' /\ DbInv'
  BY <1>1, Zenon DEF UndoInv, GoodUndo, DbInv
<1>5. CacheInv'
  BY <1>1, Zenon DEF CacheInv, GoodCache, TipCoins
<1> QED
  BY <1>3, <1>4, <1>5

(* What follows a flush.                                                   *)
LEMMA FlushDoneFacts ==
    ASSUME TypeOK, FlushDone
    PROVE  /\ then' \in Block \cup {Null, "exit"} /\ full' \in BOOLEAN
           /\ active' \in Block \cup {Null} /\ status' \in [Block -> Status]
           /\ last' \in 0 .. MaxFile
           /\ \/ /\ then = "exit" /\ pc' = "down" /\ cache' = EmptyCache
                 /\ cacheBest' = Null /\ status' = [b \in Block |-> {}]
              \/ /\ then # "exit" /\ pc' = "run" /\ active' = then
                 /\ status' = status /\ last' = last
<1>1. CASE then = "exit"
  <2>1. /\ pc' = "down" /\ cache' = EmptyCache /\ cacheBest' = Null
        /\ status' = [b \in Block |-> {}] /\ last' = 0
        /\ active' = Null /\ then' = Null /\ full' = FALSE
    BY <1>1 DEF FlushDone, NoMemory
  <2>2. status' \in [Block -> Status]
    BY <2>1 DEF Status
  <2>3. last' \in 0 .. MaxFile
    BY <2>1, BoundsAssumption
  <2> QED
    BY <1>1, <2>1, <2>2, <2>3, Zenon
<1>2. CASE then # "exit"
  BY <1>2, Zenon DEF FlushDone, TypeOK
<1> QED
  BY <1>1, <1>2

(* The block index is written; the coins come next, or the work goes on.   *)
LEMMA WriteBlockIndexCoins ==
    ASSUME CoinsInv, WriteBlockIndex
    PROVE  CoinsInv'
<1> USE DEF CoinsInv
<1>1. /\ pc = "index" /\ index' = status /\ lastDisk' = last
      /\ blk' = blk /\ rev' = rev /\ file' = file /\ undo' = undo
      /\ db' = db /\ dbBest' = dbBest /\ dbHeads' = dbHeads /\ dbDisk' = dbDisk
      /\ crashes' = crashes /\ broken' = broken
  BY DEF WriteBlockIndex, files, coinDb
<1>2. /\ dbHeads = <<>> /\ GoodCache /\ ~asserted /\ then \in {"exit", cacheBest}
  BY <1>1 DEF CacheInv
<1>3. DbInv'
  BY <1>1 DEF DbInv
<1>4. CASE full
  <2>1. /\ asserted' = BatchWriteAsserts /\ pc' = "coins"
        /\ active' = active /\ status' = status /\ last' = last /\ cache' = cache
        /\ cacheBest' = cacheBest /\ full' = full /\ then' = then
    BY <1>4 DEF WriteBlockIndex, memory
  <2>2. asserted' = (cacheBest = Null)
    BY <1>2, <2>1, Zenon DEF BatchWriteAsserts
  <2>3. TypeOK'
    BY <1>1, <2>1, <2>2, Zenon DEF TypeOK
  <2>4. UndoInv'
    BY <1>1, <2>1, Zenon DEF UndoInv, GoodUndo
  <2>5. CacheInv'
    BY <1>1, <1>2, <2>1, <2>2, Zenon DEF CacheInv, GoodCache, TipCoins
  <2> QED
    BY <1>3, <2>3, <2>4, <2>5
<1>5. CASE ~full
  <2>1. /\ FlushDone
        /\ asserted' = asserted /\ cache' = cache /\ cacheBest' = cacheBest
    BY <1>5 DEF WriteBlockIndex
  <2>2. /\ then' \in Block \cup {Null, "exit"} /\ full' \in BOOLEAN
        /\ active' \in Block \cup {Null} /\ status' \in [Block -> Status]
        /\ last' \in 0 .. MaxFile
        /\ \/ /\ then = "exit" /\ pc' = "down" /\ cache' = EmptyCache
              /\ cacheBest' = Null /\ status' = [b \in Block |-> {}]
           \/ /\ then # "exit" /\ pc' = "run" /\ active' = then
              /\ status' = status /\ last' = last
    BY <2>1, FlushDoneFacts
  <2>3. TypeOK'
    BY <1>1, <2>1, <2>2, Zenon DEF TypeOK
  <2>4. UndoInv'
    BY <1>1, <2>2, Zenon DEF UndoInv, GoodUndo
  <2>5. CacheInv'
    BY <1>1, <1>2, <2>1, <2>2, Zenon DEF CacheInv, GoodCache, TipCoins
  <2> QED
    BY <1>3, <2>3, <2>4, <2>5, Zenon
<1> QED
  BY <1>4, <1>5

(* A partial batch: the database is then a mixture of the tip it stood at  *)
(* and of the one the cache stands at.                                     *)
LEMMA WritePartialBatchCoins ==
    ASSUME CoinsInv, NEW S \in SUBSET Entries, WritePartialBatch(S)
    PROVE  CoinsInv'
<1> USE DEF CoinsInv
<1>1. /\ pc = "coins" /\ ~asserted /\ db' = DBBatchWrite(db, Only(S))
      /\ dbBest' = Null /\ dbHeads' = <<cacheBest, OldTip>>
      /\ cache' = Only(Entries \ S)
      /\ pc' = pc /\ active' = active /\ status' = status /\ last' = last
      /\ cacheBest' = cacheBest /\ full' = full /\ then' = then
      /\ blk' = blk /\ rev' = rev /\ file' = file /\ undo' = undo
      /\ index' = index /\ lastDisk' = lastDisk /\ dbDisk' = dbDisk
      /\ crashes' = crashes /\ broken' = broken /\ asserted' = asserted
  BY DEF WritePartialBatch, files, indexDb
<1>2. /\ cacheBest \in Block /\ db \in Contents
      /\ cache \in Sound(db) /\ TipCoins = UtxoAt[cacheBest]
      /\ dbHeads # <<>> => dbHeads[1] = cacheBest
      /\ then \in {"exit", cacheBest}
  BY <1>1, Zenon DEF CacheInv, GoodCache, TypeOK
<1>3. /\ db' \in Contents /\ cache' \in Sound(db')
      /\ Answers(cache', db') = TipCoins
      /\ \A o \in Outpoint : db'[o] = db[o] \/ db'[o] = TipCoins[o]
  BY <1>1, <1>2, WriteSome, Zenon
<1>4. OldTip \in Block \cup {Null} /\ Mixed(db, OldTip, cacheBest)
  <2>1. CASE dbHeads = <<>>
    <3>1. dbBest \in Block \cup {Null} /\ db = UtxoAt[dbBest]
      BY <2>1, SettledDb, Zenon DEF DbInv, GoodDb
    <3>2. OldTip = dbBest
      BY <2>1 DEF OldTip
    <3> QED
      BY <3>1, <3>2 DEF Mixed
  <2>2. CASE dbHeads # <<>>
    BY <1>2, <2>2, Zenon DEF DbInv, GoodDb, OldTip
  <2> QED
    BY <2>1, <2>2
<1>5. dbHeads' \in Block \X (Block \cup {Null}) /\ dbHeads'[1] = cacheBest
      /\ dbHeads'[2] = OldTip
  BY <1>1, <1>2, <1>4
<1>6. Mixed(db', OldTip, cacheBest)
  BY <1>2, <1>3, <1>4, Zenon DEF Mixed
<1>7. GoodDb(db', dbBest', dbHeads')
  BY <1>1, <1>3, <1>5, <1>6, Zenon DEF GoodDb
<1>8. DbInv'
  BY <1>1, <1>7, Zenon DEF DbInv
<1>9. TypeOK'
  BY <1>1, <1>3, <1>5, Zenon DEF TypeOK, Heads, Sound
<1>10. UndoInv'
  BY <1>1, Zenon DEF UndoInv, GoodUndo
<1>11. CacheInv'
  BY <1>1, <1>2, <1>3, <1>5, Zenon DEF CacheInv, GoodCache, TipCoins
<1> QED
  BY <1>8, <1>9, <1>10, <1>11

(* The last batch: the database holds the UTXO set of the tip it names.    *)
LEMMA WriteFinalBatchCoins ==
    ASSUME CoinsInv, WriteFinalBatch
    PROVE  CoinsInv'
<1> USE DEF CoinsInv
<1>1. /\ pc = "coins" /\ ~asserted /\ db' = DBBatchWrite(db, cache)
      /\ dbBest' = cacheBest /\ dbHeads' = <<>> /\ dbDisk' = dbDisk
      /\ FlushDone /\ cache' = EmptyCache
      /\ cacheBest' = IF then = "exit" THEN Null ELSE cacheBest
      /\ blk' = blk /\ rev' = rev /\ file' = file /\ undo' = undo
      /\ index' = index /\ lastDisk' = lastDisk
      /\ crashes' = crashes /\ broken' = broken /\ asserted' = asserted
  BY DEF WriteFinalBatch, files, indexDb
<1>2. /\ cacheBest \in Block /\ db \in Contents
      /\ cache \in CCoinsMap /\ SoundOver(cache, db) /\ TipCoins = UtxoAt[cacheBest]
      /\ then \in {"exit", cacheBest}
  BY <1>1, Zenon DEF CacheInv, GoodCache, TypeOK, Sound
<1>3. db' = UtxoAt[cacheBest] /\ db' \in Contents
  BY <1>1, <1>2, DBBatchWriteFacts, AnswersType DEF TipCoins
<1>4. /\ then' \in Block \cup {Null, "exit"} /\ full' \in BOOLEAN
      /\ active' \in Block \cup {Null} /\ status' \in [Block -> Status]
      /\ last' \in 0 .. MaxFile
      /\ \/ /\ then = "exit" /\ pc' = "down" /\ cache' = EmptyCache
            /\ cacheBest' = Null /\ status' = [b \in Block |-> {}]
         \/ /\ then # "exit" /\ pc' = "run" /\ active' = then
            /\ status' = status /\ last' = last
  BY <1>1, FlushDoneFacts, Zenon
<1>5. GoodDb(db', dbBest', dbHeads')
  BY <1>1, <1>2, <1>3, Zenon DEF GoodDb
<1>6. DbInv'
  BY <1>1, <1>5, Zenon DEF DbInv
<1>7. /\ cache' \in CCoinsMap /\ cache' \in Sound(db')
      /\ Answers(cache', db') = db'
  BY <1>1, <1>3, EmptyFacts DEF Sound
<1>8. TypeOK'
  BY <1>1, <1>2, <1>3, <1>4, <1>7, Zenon DEF TypeOK, Heads
<1>9. UndoInv'
  BY <1>1, <1>4, Zenon DEF UndoInv, GoodUndo
<1>10. CacheInv'
  <2>1. CASE then = "exit"
    BY <1>1, <1>4, <2>1, Zenon DEF CacheInv
  <2>2. CASE then # "exit"
    <3>1. cacheBest' = cacheBest /\ pc' = "run" /\ active' = cacheBest
      BY <1>1, <1>2, <1>4, <2>2, Zenon
    <3>2. GoodCache'
      BY <1>3, <1>7, <3>1 DEF GoodCache, TipCoins
    <3> QED
      BY <1>1, <3>1, <3>2, Zenon DEF CacheInv
  <2> QED
    BY <2>1, <2>2
<1> QED
  BY <1>6, <1>8, <1>9, <1>10, Zenon

(* The operating system writes the database back.                          *)
LEMMA WriteBackCoins ==
    ASSUME CoinsInv, WriteBack
    PROVE  CoinsInv'
<1> USE DEF CoinsInv
<1>1. /\ dbDisk' = <<db, dbBest, dbHeads>>
      /\ pc' = pc /\ active' = active /\ status' = status /\ last' = last
      /\ cache' = cache /\ cacheBest' = cacheBest /\ full' = full /\ then' = then
      /\ blk' = blk /\ rev' = rev /\ file' = file /\ undo' = undo
      /\ index' = index /\ lastDisk' = lastDisk
      /\ db' = db /\ dbBest' = dbBest /\ dbHeads' = dbHeads
      /\ crashes' = crashes /\ broken' = broken /\ asserted' = asserted
  BY DEF WriteBack, memory, files, indexDb
<1>2. dbDisk'[1] = db /\ dbDisk'[2] = dbBest /\ dbDisk'[3] = dbHeads
  BY <1>1
<1>3. TypeOK'
  <2>1. dbDisk' \in Contents \X (Block \cup {Null}) \X Heads
    BY <1>1, Zenon DEF TypeOK
  <2> QED
    BY <1>1, <2>1 DEF TypeOK
<1>4. UndoInv' /\ CacheInv'
  BY <1>1, Zenon DEF UndoInv, GoodUndo, CacheInv, GoodCache, TipCoins
<1>5. DbInv'
  BY <1>1, <1>2 DEF DbInv
<1> QED
  BY <1>3, <1>4, <1>5

(* A crash: the database is as it was or as the disk has it.               *)
LEMMA CrashCoins ==
    ASSUME CoinsInv, Crash
    PROVE  CoinsInv'
<1> USE DEF CoinsInv
<1>1. /\ pc' = "down" /\ active' = Null /\ then' = Null /\ full' = FALSE
      /\ status' = [b \in Block |-> {}] /\ last' = 0
      /\ cache' = EmptyCache /\ cacheBest' = Null
      /\ file' = file /\ undo' = undo /\ index' = index /\ lastDisk' = lastDisk
      /\ dbDisk' = dbDisk /\ broken' = broken /\ asserted' = asserted
      /\ crashes' = crashes + 1 /\ crashes < MaxCrashes
  BY Zenon DEF Crash, NoMemory, indexDb, coinDb
<1>2. /\ blk' \in [Block -> Where] /\ rev' \in [Block -> Where]
      /\ \/ db' = db /\ dbBest' = dbBest /\ dbHeads' = dbHeads
         \/ db' = dbDisk[1] /\ dbBest' = dbDisk[2] /\ dbHeads' = dbDisk[3]
  <2>1. CASE PowerLoss
    <3>1. PICK lostBlk, lostRev \in SUBSET Block :
            /\ blk' = [b \in Block |-> IF b \in lostBlk THEN "none" ELSE blk[b]]
            /\ rev' = [b \in Block |-> IF b \in lostRev THEN "none" ELSE rev[b]]
      BY <2>1 DEF Crash
    <3>2. blk' \in [Block -> Where] /\ rev' \in [Block -> Where]
      BY <3>1, Zenon DEF TypeOK, Where
    <3> QED
      BY <2>1, <3>2, Zenon DEF Crash
  <2>2. CASE ~PowerLoss
    BY <2>2, Zenon DEF Crash, coinDb, TypeOK
  <2> QED
    BY <2>1, <2>2
<1>3. DbInv' /\ dbHeads' \in Heads
  BY <1>1, <1>2, Zenon DEF DbInv, TypeOK
<1>4. TypeOK'
  <2>1. /\ status' \in [Block -> Status] /\ last' \in 0 .. MaxFile
        /\ crashes' \in 0 .. MaxCrashes
    BY <1>1, BoundsAssumption DEF Status, TypeOK
  <2>2. cache' \in CCoinsMap
    BY <1>1 DEF EmptyCache, CCoinsMap
  <2>3. db' \in Contents /\ dbBest' \in Block \cup {Null}
    BY <1>3, Zenon DEF DbInv, GoodDb
  <2> QED
    BY <1>1, <1>2, <1>3, <2>1, <2>2, <2>3, Zenon DEF TypeOK
<1>5. UndoInv'
  BY <1>1, Zenon DEF UndoInv, GoodUndo
<1>6. CacheInv'
  BY <1>1 DEF CacheInv
<1> QED
  BY <1>3, <1>4, <1>5, <1>6

(* The blocks that a replay rolls back and forward.                        *)
LEMMA ReplayBlocks ==
    ASSUME NEW new \in Block, NEW old \in Block \cup {Null}
    PROVE  /\ \A b \in Range(RolledBack(new, old)) :
                b \in Block \ {Genesis} /\ b \in Range(Chain[old])
           /\ \A b \in Range(RolledForward(new, old)) :
                b \in Block \ {Genesis} /\ b \in Range(Chain[new])
<1> DEFINE n == Fork(new, old)
<1>1. /\ n \in 1 .. Len(Chain[new])
      /\ old = Null => n = 1
      /\ old # Null => n \in 1 .. Len(Chain[old])
  BY ForkFacts, Zenon
<1>2. ASSUME NEW b \in Range(RolledForward(new, old))
      PROVE  b \in Block \ {Genesis} /\ b \in Range(Chain[new])
  <2>1. b \in Range(Chain[new]) \ {Genesis}
    BY <1>1, <1>2, BranchFacts, Zenon DEF RolledForward
  <2> QED
    BY <2>1, ChainRange, Zenon
<1>3. ASSUME NEW b \in Range(RolledBack(new, old))
      PROVE  b \in Block \ {Genesis} /\ b \in Range(Chain[old])
  <2>1. CASE old = Null
    <3>1. RolledBack(new, old) = <<>>
      BY <1>1, <2>1, ChainFacts, SMTT(40) DEF RolledBack
    <3>2. Range(<<>>) = {}
      BY SMTT(40) DEF Range
    <3> QED
      BY <1>3, <3>1, <3>2
  <2>2. CASE old # Null
    <3>1. b \in Range(Chain[old]) \ {Genesis}
      BY <1>1, <1>3, <2>2, BranchFacts, Zenon DEF RolledBack
    <3> QED
      BY <2>2, <3>1, ChainRange, Zenon
  <2> QED
    BY <2>1, <2>2
<1> QED
  BY <1>2, <1>3

(* The start: a replay ends in the UTXO set of the new tip.                *)
LEMMA StartCoins ==
    ASSUME CoinsInv, Start
    PROVE  CoinsInv'
<1> USE DEF CoinsInv
<1>1. /\ pc = "down" /\ ~asserted /\ cache = EmptyCache
      /\ status' = IF index[Genesis] = {}
                   THEN [index EXCEPT ![Genesis] = {"data"}] ELSE index
      /\ blk' = IF index[Genesis] = {} THEN [blk EXCEPT ![Genesis] = "os"] ELSE blk
      /\ last' = lastDisk
      /\ rev' = rev /\ file' = file /\ undo' = undo
      /\ index' = index /\ lastDisk' = lastDisk /\ db' = db /\ dbBest' = dbBest
      /\ dbHeads' = dbHeads /\ dbDisk' = dbDisk
      /\ crashes' = crashes /\ asserted' = asserted
  BY Zenon DEF Start, LoadBlockIndex, CacheInv, indexDb, coinDb
<1>2. DbInv'
  BY <1>1 DEF DbInv
<1>3. /\ status' \in [Block -> Status] /\ blk' \in [Block -> Where]
      /\ \A b \in Block : index[b] \subseteq status'[b]
      /\ \A b \in Block \ {Genesis} : status'[b] = index[b]
  BY <1>1, BlockAssumption, Zenon DEF TypeOK, Status, Where
<1>4. UndoInv'
  BY <1>1, <1>3, Zenon DEF UndoInv, GoodUndo
<1>5. db \in Contents /\ dbBest \in Block \cup {Null}
  BY Zenon DEF TypeOK
<1>6. CASE dbHeads # <<>> /\ CanReplay(dbHeads[1], dbHeads[2])
  <2> DEFINE new == dbHeads[1]
             old == dbHeads[2]
  <2>1. /\ pc' = "coins" /\ full' = TRUE /\ then' = new /\ cacheBest' = new
        /\ cache' = Replayed(new, old) /\ active' = active /\ broken' = broken
    BY <1>6, Zenon DEF Start
  <2>2. new \in Block /\ old \in Block \cup {Null} /\ Mixed(db, old, new)
    BY <1>6, Zenon DEF DbInv, GoodDb
  <2>3. \A b \in Range(RolledBack(new, old)) : "undo" \in index[b]
    BY <1>6, Zenon DEF CanReplay
  <2> HIDE DEF new, old
  <2>4. \A b \in Range(RolledBack(new, old)) : Applicable(b) /\ UndoRecord(b, undo[b])
    BY <2>2, <2>3, ReplayBlocks, Zenon DEF UndoInv, GoodUndo
  <2>5. cache' \in Sound(db) /\ Answers(cache', db) = UtxoAt[new]
    BY <1>5, <2>1, <2>2, <2>4, ReplayExact, Zenon
  <2>6. TypeOK'
    <3>1. cache' \in CCoinsMap
      BY <2>5 DEF Sound
    <3> QED
      BY <1>1, <1>3, <2>1, <2>2, <3>1, Zenon DEF TypeOK
  <2>7. GoodCache'
    BY <1>1, <2>1, <2>5, Zenon DEF GoodCache, TipCoins
  <2>8. CacheInv'
    BY <1>1, <2>1, <2>2, <2>7, BlockAssumption, Zenon DEF CacheInv, new
  <2> QED
    BY <1>2, <1>4, <2>6, <2>8
<1>7. CASE dbHeads = <<>> /\ (dbBest = Null \/ "data" \in index[dbBest])
  <2>1. /\ pc' = "run" /\ active' = dbBest /\ cacheBest' = dbBest
        /\ full' = full /\ then' = then /\ cache' = cache /\ broken' = broken
    BY <1>7, Zenon DEF Start
  <2>2. TypeOK'
    BY <1>1, <1>3, <1>5, <2>1, Zenon DEF TypeOK
  <2>3. db = UtxoAt[dbBest]
    BY <1>7, SettledDb, Zenon DEF DbInv
  <2>4. EmptyCache \in Sound(db) /\ Answers(EmptyCache, db) = db
    BY <1>5, EmptyFacts DEF Sound
  <2>5. GoodCache'
    BY <1>1, <2>1, <2>3, <2>4, Zenon DEF GoodCache, TipCoins
  <2>6. CacheInv'
    BY <1>1, <1>7, <2>1, <2>5, Zenon DEF CacheInv
  <2> QED
    BY <1>2, <1>4, <2>2, <2>6, Zenon
<1>8. CASE /\ ~ (dbHeads # <<>> /\ CanReplay(dbHeads[1], dbHeads[2]))
           /\ ~ (dbHeads = <<>> /\ (dbBest = Null \/ "data" \in index[dbBest]))
  <2>1. /\ broken' = TRUE /\ pc' = pc /\ full' = full /\ then' = then
        /\ active' = active /\ cache' = cache /\ cacheBest' = cacheBest
    BY <1>8, Zenon DEF Start
  <2>2. TypeOK'
    BY <1>1, <1>3, <2>1, Zenon DEF TypeOK
  <2>3. CacheInv'
    BY <1>1, <2>1, Zenon DEF CacheInv
  <2> QED
    BY <1>2, <1>4, <2>2, <2>3, Zenon
<1> QED
  BY <1>6, <1>7, <1>8, Zenon

(* Every step keeps CoinsInv.                                              *)
LEMMA CoinsNext == CoinsInv /\ [Next]_vars => CoinsInv'
<1> SUFFICES ASSUME CoinsInv, [Next]_vars PROVE CoinsInv'
  OBVIOUS
<1>1. ASSUME UNCHANGED vars PROVE CoinsInv'
  <2>1. /\ pc' = pc /\ active' = active /\ status' = status /\ last' = last
        /\ cache' = cache /\ cacheBest' = cacheBest /\ full' = full
        /\ then' = then /\ blk' = blk /\ rev' = rev /\ file' = file
        /\ undo' = undo /\ index' = index /\ lastDisk' = lastDisk /\ db' = db
        /\ dbBest' = dbBest /\ dbHeads' = dbHeads /\ dbDisk' = dbDisk
        /\ crashes' = crashes /\ broken' = broken /\ asserted' = asserted
    BY <1>1, Zenon DEF vars, memory, files, indexDb, coinDb
  <2>2. TypeOK'
    BY <2>1, SMTT(40) DEF CoinsInv, TypeOK
  <2>3. UndoInv' /\ DbInv'
    BY <2>1, Zenon DEF CoinsInv, UndoInv, GoodUndo, DbInv
  <2>4. CacheInv'
    BY <2>1, Zenon DEF CoinsInv, CacheInv, GoodCache, TipCoins
  <2> QED
    BY <2>2, <2>3, <2>4 DEF CoinsInv
<1> QED
  BY <1>1, AcceptBlockCoins, ConnectTipCoins, DisconnectTipCoins, BeginFlushCoins,
     SyncBlockFilesCoins, WriteBlockIndexCoins, WritePartialBatchCoins,
     WriteFinalBatchCoins, WriteBackCoins, CrashCoins, StartCoins, Zenon DEF Next

(* CoinsInv always holds.                                                  *)
THEOREM CoinsAlways == Spec => []CoinsInv
BY CoinsInit, CoinsNext, PTL DEF Spec

-----------------------------------------------------------------------------
(***************************************************************************)
(* FilesInv is inductive together with CoinsInv.                           *)
(***************************************************************************)

(* A chain is connected if its parent's is and its tip is.                 *)
LEMMA ConnectedFacts ==
    ASSUME NEW st
    PROVE  /\ Connected(Null, st)
           /\ \A b \in Block :
                Connected(b, st) <=> /\ Connected(Parent[b], st)
                                     /\ "data" \in st[b]
                                     /\ b # Genesis => "undo" \in st[b]
<1>1. Connected(Null, st)
  BY ChainRange DEF Connected
<1>2. ASSUME NEW b \in Block
      PROVE  Connected(b, st) <=> /\ Connected(Parent[b], st)
                                  /\ "data" \in st[b]
                                  /\ b # Genesis => "undo" \in st[b]
  <2>1. Range(Chain[b]) = Range(Chain[Parent[b]]) \cup {b}
    BY ChainRange
  <2> QED
    BY <2>1, Zenon DEF Connected
<1> QED
  BY <1>1, <1>2, Zenon

(* A chain stays connected as the index grows.                             *)
LEMMA ConnectedGrows ==
    ASSUME NEW st, NEW st2, \A b \in Block : st[b] \subseteq st2[b],
           NEW tip \in Block \cup {Null}, Connected(tip, st)
    PROVE  Connected(tip, st2)
<1>1. Range(Chain[tip]) \subseteq Block
  BY ChainRange, Zenon
<1> QED
  BY <1>1, Zenon DEF Connected

(* The coin database and the index on disk are left alone.                 *)
LEMMA ConnectedDbSame ==
    ASSUME ConnectedInv, index' = index, dbBest' = dbBest, dbHeads' = dbHeads,
           dbDisk' = dbDisk
    PROVE  ConnectedDb(dbBest, dbHeads)' /\ ConnectedDb(dbDisk[2], dbDisk[3])'
BY Zenon DEF ConnectedInv, ConnectedDb, Connected

(* The node starts in FilesInv.                                            *)
LEMMA FilesInit == Init => FilesInv
<1> SUFFICES ASSUME Init PROVE FilesInv
  BY Zenon
<1>1. /\ dbHeads = <<>> /\ dbDisk = <<db, dbBest, dbHeads>> /\ pc = "down"
      /\ broken = FALSE
  BY DEF Init
<1>2. dbDisk[2] = dbBest /\ dbDisk[3] = dbHeads
  BY <1>1
<1>3. Connected(dbBest, index)
  <2>1. CASE Fresh
    BY <2>1, ConnectedFacts, Zenon DEF Init
  <2>2. CASE ~Fresh
    <3>1. dbBest = Genesis /\ index[Genesis] = {"data"} /\ Parent[Genesis] = Null
      BY <2>2, BlockAssumption, Zenon DEF Init
    <3> QED
      BY <3>1, ConnectedFacts, BlockAssumption, Zenon
  <2> QED
    BY <2>1, <2>2
<1>4. ConnectedInv
  BY <1>1, <1>2, <1>3, Zenon DEF ConnectedInv, ConnectedDb
<1>5. \A b \in Block : /\ "undo" \notin index[b]
                       /\ "data" \in index[b] => blk[b] = "disk"
  BY Zenon DEF Init
<1>6. HeldInv /\ BackedInv
  BY <1>1, <1>5, Zenon DEF HeldInv, BackedInv, Held, Backed
<1> QED
  BY <1>1, <1>4, <1>6 DEF FilesInv

(* AcceptBlock writes only a block that the index does not have.           *)
LEMMA AcceptBlockFiles ==
    ASSUME CoinsInv, FilesInv, NEW b \in Block \ {Genesis},
           NEW fileFull \in BOOLEAN, AcceptBlock(b, fileFull)
    PROVE  FilesInv'
<1> USE DEF FilesInv
<1>1. /\ pc = "run" /\ pc' = "run" /\ "data" \notin status[b]
      /\ status' = [status EXCEPT ![b] = @ \cup {"data"}]
      /\ cacheBest' = cacheBest /\ index' = index /\ dbBest' = dbBest
      /\ dbHeads' = dbHeads /\ dbDisk' = dbDisk /\ broken' = broken
      /\ \A c \in Block : index[c] \subseteq status[c]
      /\ blk' = [(IF fileFull THEN Synced(blk) ELSE blk) EXCEPT ![b] = "os"]
      /\ rev' = IF fileFull THEN Synced(rev) ELSE rev
      /\ cacheBest \in Block \cup {Null}
  BY Zenon DEF AcceptBlock, Up, CoinsInv, TypeOK, UndoInv, indexDb, coinDb
<1>2. /\ \A c \in Block : status[c] \subseteq status'[c]
      /\ \A c \in Block \ {b} : status'[c] = status[c]
      /\ status'[b] = status[b] \cup {"data"}
  BY <1>1, Zenon DEF CoinsInv, TypeOK
<1>3. /\ blk'[b] = "os"
      /\ \A c \in Block \ {b} : blk'[c] = blk[c] \/ blk'[c] = "disk"
      /\ \A c \in Block : rev'[c] = rev[c] \/ rev'[c] = "disk"
  BY <1>1, Zenon DEF CoinsInv, TypeOK, Synced
<1>4. HeldInv'
  <2>1. ASSUME NEW c \in Block
        PROVE  /\ "data" \in status'[c] => blk'[c] # "none"
               /\ "undo" \in status'[c] => rev'[c] # "none"
    <3>1. "undo" \in status'[c] => "undo" \in status[c]
      BY <1>2, SMTT(40)
    <3>2. c # b => ("data" \in status'[c] => blk[c] # "none")
      BY <1>1, <1>2, Zenon DEF HeldInv, Held
    <3> QED
      BY <1>1, <1>3, <3>1, <3>2, Zenon DEF HeldInv, Held
  <2>2. \A c \in Block : index'[c] \subseteq status'[c]
    BY <1>1, <1>2, Zenon
  <2> QED
    BY <2>1, <2>2, Zenon DEF HeldInv, Held
<1>5. BackedInv'
  <2>1. ASSUME Backed(index) PROVE Backed(index)'
    <3>1. "data" \notin index[b]
      BY <1>1, Zenon
    <3> QED
      BY <1>1, <1>3, <2>1, <3>1, Zenon DEF Backed
  <2> QED
    BY <1>1, <2>1, Zenon DEF BackedInv
<1>6. ConnectedInv'
  <2>1. Connected(cacheBest, status')
    BY <1>1, <1>2, ConnectedGrows, Zenon DEF ConnectedInv
  <2> QED
    BY <1>1, <2>1, ConnectedDbSame, Zenon DEF ConnectedInv, Connected
<1> QED
  BY <1>1, <1>4, <1>5, <1>6, Zenon

(* ConnectTip: the new tip has its data and its undo record.               *)
LEMMA ConnectTipFiles ==
    ASSUME CoinsInv, FilesInv, NEW b \in Block, NEW flush \in BOOLEAN,
           ConnectTip(b, flush)
    PROVE  FilesInv'
<1> DEFINE ok == ConnectBlock(EmptyCache, TipCoins, b).ok
           writeUndo == b # Genesis /\ "undo" \notin status[b]
<1> USE DEF FilesInv
<1>1. /\ pc = "run" /\ cacheBest = Parent[b] /\ cacheBest \in Block \cup {Null}
      /\ "data" \in status[b]
      /\ blk' = blk /\ index' = index /\ dbBest' = dbBest
      /\ dbHeads' = dbHeads /\ dbDisk' = dbDisk /\ broken' = broken
      /\ \A c \in Block : index[c] \subseteq status[c]
  BY Zenon DEF ConnectTip, Up, CoinsInv, TypeOK, UndoInv, CacheInv, indexDb, coinDb
<1>2. /\ \A c \in Block : status[c] \subseteq status'[c]
      /\ \A c \in Block \ {b} : status'[c] = status[c] /\ rev'[c] = rev[c]
      /\ status'[b] \subseteq status[b] \cup {"undo", "failed"}
      /\ pc' \in {"run", "sync"}
      /\ \/ rev'[b] = rev[b] /\ ("undo" \in status'[b] => "undo" \in status[b])
         \/ rev'[b] = "os" /\ "undo" \notin status[b]
      /\ \/ cacheBest' = cacheBest
         \/ cacheBest' = b /\ (b # Genesis => "undo" \in status'[b])
  <2>1. CASE ok
    <3>1. /\ cacheBest' = b
          /\ rev' = IF writeUndo THEN [rev EXCEPT ![b] = "os"] ELSE rev
          /\ status' = IF writeUndo THEN [status EXCEPT ![b] = @ \cup {"undo"}]
                       ELSE status
          /\ pc' \in {"run", "sync"}
      BY <2>1, Zenon DEF ConnectTip, MaybeFlush
    <3> QED
      BY <3>1, Zenon DEF CoinsInv, TypeOK
  <2>2. CASE ~ok
    <3>1. /\ status' = [status EXCEPT ![b] = @ \cup {"failed"}]
          /\ rev' = rev /\ cacheBest' = cacheBest /\ pc' = pc
      BY <2>2, Zenon DEF ConnectTip
    <3> QED
      BY <1>1, <3>1, Zenon DEF CoinsInv, TypeOK
  <2> QED
    BY <2>1, <2>2, Zenon
<1>3. HeldInv'
  BY <1>1, <1>2, Zenon DEF HeldInv, Held
<1>4. BackedInv'
  BY <1>1, <1>2, Zenon DEF BackedInv, Backed
<1>5. Connected(cacheBest', status')
  <2>1. Connected(cacheBest, status')
    BY <1>1, <1>2, ConnectedGrows, Zenon DEF ConnectedInv
  <2>2. cacheBest' = b => Connected(b, status') \/ cacheBest' = cacheBest
    <3>1. "data" \in status'[b]
      BY <1>1, <1>2, Zenon
    <3> QED
      BY <1>1, <1>2, <2>1, <3>1, ConnectedFacts, Zenon
  <2> QED
    BY <1>2, <2>1, <2>2, Zenon
<1>6. ConnectedInv'
  BY <1>1, <1>2, <1>5, ConnectedDbSame, Zenon DEF ConnectedInv, Connected
<1> QED
  BY <1>1, <1>3, <1>4, <1>6, Zenon

(* DisconnectTip finds what it reads, and is clean.                        *)
LEMMA DisconnectTipFiles ==
    ASSUME CoinsInv, FilesInv, NEW flush \in BOOLEAN, DisconnectTip(flush)
    PROVE  FilesInv'
<1> USE DEF FilesInv
<1>1. /\ pc = "run" /\ cacheBest = active /\ active \in Block \ {Genesis}
      /\ cache \in Sound(db) /\ TipCoins = UtxoAt[active] /\ db \in Contents
      /\ status' = status /\ index' = index /\ blk' = blk /\ rev' = rev
      /\ dbBest' = dbBest /\ dbHeads' = dbHeads /\ dbDisk' = dbDisk
  BY Zenon DEF DisconnectTip, Up, CoinsInv, CacheInv, GoodCache, TypeOK, files,
         indexDb, coinDb
<1>2. /\ "data" \in status[active] /\ "undo" \in status[active]
      /\ Connected(Parent[active], status)
  BY <1>1, ConnectedFacts, Zenon DEF ConnectedInv
<1>3. blk[active] # "none" /\ rev[active] # "none"
  BY <1>1, <1>2, Zenon DEF HeldInv, Held
<1>4. DisconnectBlock(EmptyCache, TipCoins, active, undo[active]).clean
  <2>1. Applicable(active) /\ UndoRecord(active, undo[active])
    BY <1>1, <1>2, Zenon DEF CoinsInv, UndoInv, GoodUndo
  <2> QED
    BY <1>1, <2>1, DisconnectCache, Zenon
<1>5. /\ cacheBest' = Parent[active] /\ broken' = broken
      /\ pc' \in {"run", "sync"}
  BY <1>2, <1>3, <1>4, Zenon DEF DisconnectTip, MaybeFlush
<1>6. HeldInv' /\ BackedInv'
  BY <1>1, <1>5, Zenon DEF HeldInv, Held, BackedInv, Backed
<1>7. ConnectedInv'
  BY <1>1, <1>2, <1>5, ConnectedDbSame, Zenon DEF ConnectedInv, Connected
<1> QED
  BY <1>5, <1>6, <1>7

(* The start of a flush.                                                   *)
LEMMA BeginFlushFiles ==
    ASSUME CoinsInv, FilesInv,
           Shutdown \/ \E everything \in BOOLEAN : PeriodicFlush(everything)
    PROVE  FilesInv'
<1> USE DEF FilesInv
<1>1. /\ pc = "run" /\ pc' = "sync" /\ cacheBest' = cacheBest
      /\ status' = status /\ index' = index /\ blk' = blk /\ rev' = rev
      /\ dbBest' = dbBest /\ dbHeads' = dbHeads /\ dbDisk' = dbDisk
      /\ broken' = broken
  BY Zenon DEF Shutdown, PeriodicFlush, Up, CoinsInv, CacheInv, files, indexDb, coinDb
<1>2. HeldInv' /\ BackedInv'
  BY <1>1, Zenon DEF HeldInv, Held, BackedInv, Backed
<1>3. ConnectedInv'
  BY <1>1, ConnectedDbSame, Zenon DEF ConnectedInv, Connected
<1> QED
  BY <1>1, <1>2, <1>3, Zenon

(* With one file, all that the index is about to refer to is synced.       *)
LEMMA SyncBlockFilesFiles ==
    ASSUME CoinsInv, FilesInv, SyncBlockFiles
    PROVE  FilesInv'
<1> USE DEF FilesInv
<1>1. /\ pc = "sync" /\ pc' = "index" /\ cacheBest' = cacheBest
      /\ status' = status /\ index' = index
      /\ blk' = Synced(blk) /\ rev' = Synced(rev)
      /\ dbBest' = dbBest /\ dbHeads' = dbHeads /\ dbDisk' = dbDisk
      /\ broken' = broken
  BY Zenon DEF SyncBlockFiles, memory, indexDb, coinDb
<1>2. /\ \A b \in Block : blk'[b] = blk[b] \/ blk'[b] = "disk"
      /\ \A b \in Block : rev'[b] = rev[b] \/ rev'[b] = "disk"
  BY <1>1, Zenon DEF Synced
<1>3. HeldInv'
  BY <1>1, <1>2, Zenon DEF HeldInv, Held
<1>4. ASSUME MaxFile = 0, NEW b \in Block
      PROVE  /\ blk[b] # "none" => blk'[b] = "disk"
             /\ rev[b] # "none" => rev'[b] = "disk"
  <2>1. file[b] = last
    BY <1>4, SMTT(40) DEF CoinsInv, TypeOK
  <2>2. blk[b] \in Where /\ rev[b] \in Where
    BY Zenon DEF CoinsInv, TypeOK
  <2> QED
    BY <1>1, <2>1, <2>2, Zenon DEF Synced, Where
<1>5. BackedInv'
  <2> SUFFICES ASSUME MaxFile = 0 PROVE Backed(index)' /\ Backed(status)'
    BY DEF BackedInv
  <2>1. Held(index) /\ Held(status)
    BY <1>1 DEF HeldInv
  <2> QED
    BY <1>1, <1>4, <2>1, Zenon DEF Backed, Held
<1>6. ConnectedInv'
  BY <1>1, ConnectedDbSame, Zenon DEF ConnectedInv, Connected
<1> QED
  BY <1>1, <1>3, <1>5, <1>6

(* The index on disk becomes the one in memory.                            *)
LEMMA WriteBlockIndexFiles ==
    ASSUME CoinsInv, FilesInv, WriteBlockIndex
    PROVE  FilesInv'
<1> USE DEF FilesInv
<1>1. /\ pc = "index" /\ index' = status /\ blk' = blk /\ rev' = rev
      /\ dbBest' = dbBest /\ dbHeads' = dbHeads /\ dbDisk' = dbDisk
      /\ broken' = broken
      /\ \A b \in Block : index[b] \subseteq status[b]
      /\ dbHeads = <<>> /\ dbBest \in Block \cup {Null}
  BY Zenon DEF WriteBlockIndex, CoinsInv, UndoInv, CacheInv, TypeOK, files, coinDb
<1>2. /\ pc' \in {"coins", "run", "down"}
      /\ pc' # "down" => status' = status /\ cacheBest' = cacheBest
  <2>1. CASE full
    BY <2>1, Zenon DEF WriteBlockIndex, memory
  <2>2. CASE ~full
    BY <2>2, FlushDoneFacts, Zenon DEF WriteBlockIndex, CoinsInv
  <2> QED
    BY <2>1, <2>2
<1>3. HeldInv' /\ BackedInv'
  BY <1>1, <1>2, Zenon DEF HeldInv, Held, BackedInv, Backed
<1>4. ConnectedDb(dbBest, dbHeads)'
  BY <1>1, ConnectedGrows, Zenon DEF ConnectedInv, ConnectedDb, Connected
<1>5. ConnectedDb(dbDisk[2], dbDisk[3])'
  <2>1. /\ dbDisk[2] \in Block \cup {Null}
        /\ dbDisk[3] # <<>> => /\ dbDisk[3][1] \in Block
                               /\ dbDisk[3][2] \in Block \cup {Null}
    BY Zenon DEF CoinsInv, DbInv, GoodDb
  <2>2. /\ Connected(dbDisk[2], status)
        /\ dbDisk[3] # <<>> => /\ Connected(dbDisk[3][1], status)
                               /\ Connected(dbDisk[3][2], status)
    BY <1>1, <2>1, ConnectedGrows, Zenon DEF ConnectedInv, ConnectedDb
  <2> QED
    BY <1>1, <2>2, Zenon DEF ConnectedDb, Connected
<1>6. ConnectedInv'
  BY <1>1, <1>2, <1>4, <1>5, Zenon DEF ConnectedInv, Connected
<1> QED
  BY <1>1, <1>3, <1>6, Zenon

(* A partial batch names the tip of the cache, whose chain the index has.  *)
LEMMA WritePartialBatchFiles ==
    ASSUME CoinsInv, FilesInv, NEW S \in SUBSET Entries, WritePartialBatch(S)
    PROVE  FilesInv'
<1> USE DEF FilesInv
<1>1. /\ pc = "coins" /\ dbBest' = Null /\ dbHeads' = <<cacheBest, OldTip>>
      /\ pc' = pc /\ status' = status /\ cacheBest' = cacheBest
      /\ blk' = blk /\ rev' = rev /\ index' = index /\ dbDisk' = dbDisk
      /\ broken' = broken
  BY Zenon DEF WritePartialBatch, files, indexDb
<1>2. HeldInv' /\ BackedInv'
  BY <1>1, Zenon DEF HeldInv, Held, BackedInv, Backed
<1>3. Connected(OldTip, index) /\ Connected(cacheBest, index)
  BY <1>1, Zenon DEF ConnectedInv, ConnectedDb, OldTip
<1>4. dbHeads'[1] = cacheBest /\ dbHeads'[2] = OldTip
  BY <1>1
<1>5. ConnectedDb(dbBest, dbHeads)'
  <2>1. /\ Connected(dbBest', index') /\ Connected(dbHeads'[1], index')
        /\ Connected(dbHeads'[2], index')
    BY <1>1, <1>3, <1>4, ConnectedFacts, Zenon
  <2> QED
    BY <2>1, Zenon DEF ConnectedDb, Connected
<1>6. ConnectedInv'
  BY <1>1, <1>5, Zenon DEF ConnectedInv, ConnectedDb, Connected
<1> QED
  BY <1>1, <1>2, <1>6

(* So does the last batch.                                                 *)
LEMMA WriteFinalBatchFiles ==
    ASSUME CoinsInv, FilesInv, WriteFinalBatch
    PROVE  FilesInv'
<1> USE DEF FilesInv
<1>1. /\ pc = "coins" /\ dbBest' = cacheBest /\ dbHeads' = <<>> /\ FlushDone
      /\ cacheBest' = IF then = "exit" THEN Null ELSE cacheBest
      /\ blk' = blk /\ rev' = rev /\ index' = index /\ dbDisk' = dbDisk
      /\ broken' = broken
  BY DEF WriteFinalBatch, files, indexDb
<1>2. \/ pc' = "down"
      \/ pc' = "run" /\ status' = status /\ cacheBest' = cacheBest
  BY <1>1, FlushDoneFacts, Zenon DEF CoinsInv
<1>3. HeldInv' /\ BackedInv'
  BY <1>1, <1>2, Zenon DEF HeldInv, Held, BackedInv, Backed
<1>4. Connected(dbBest', index')
  BY <1>1 DEF ConnectedInv
<1>5. ConnectedInv'
  BY <1>1, <1>2, <1>4, Zenon DEF ConnectedInv, ConnectedDb, Connected
<1> QED
  BY <1>1, <1>3, <1>5

(* The operating system writes the database back.                          *)
LEMMA WriteBackFiles ==
    ASSUME CoinsInv, FilesInv, WriteBack
    PROVE  FilesInv'
<1> USE DEF FilesInv
<1>1. /\ dbDisk' = <<db, dbBest, dbHeads>> /\ pc' = pc
      /\ status' = status /\ cacheBest' = cacheBest
      /\ blk' = blk /\ rev' = rev /\ index' = index
      /\ dbBest' = dbBest /\ dbHeads' = dbHeads /\ broken' = broken
  BY Zenon DEF WriteBack, memory, files, indexDb
<1>2. dbDisk'[2] = dbBest /\ dbDisk'[3] = dbHeads
  BY <1>1
<1>3. HeldInv' /\ BackedInv'
  BY <1>1, Zenon DEF HeldInv, Held, BackedInv, Backed
<1>4. ConnectedInv'
  BY <1>1, <1>2, Zenon DEF ConnectedInv, ConnectedDb, Connected
<1> QED
  BY <1>1, <1>3, <1>4

(* A crash loses nothing that the index on disk refers to.                 *)
LEMMA CrashFiles ==
    ASSUME PowerLoss => MaxFile = 0, CoinsInv, FilesInv, Crash
    PROVE  FilesInv'
<1> USE DEF FilesInv
<1>1. /\ pc' = "down" /\ index' = index /\ dbDisk' = dbDisk /\ broken' = broken
      /\ \/ dbBest' = dbBest /\ dbHeads' = dbHeads
         \/ dbBest' = dbDisk[2] /\ dbHeads' = dbDisk[3]
  BY Zenon DEF Crash, indexDb, coinDb
<1>2. \A b \in Block : /\ blk'[b] = blk[b] \/ (PowerLoss /\ blk[b] = "os")
                       /\ rev'[b] = rev[b] \/ (PowerLoss /\ rev[b] = "os")
  <2>1. CASE PowerLoss
    <3>1. PICK lostBlk, lostRev \in SUBSET Block :
            /\ \A b \in lostBlk : blk[b] = "os"
            /\ \A b \in lostRev : rev[b] = "os"
            /\ blk' = [b \in Block |-> IF b \in lostBlk THEN "none" ELSE blk[b]]
            /\ rev' = [b \in Block |-> IF b \in lostRev THEN "none" ELSE rev[b]]
      BY <2>1, Zenon DEF Crash
    <3> QED
      BY <2>1, <3>1, Zenon
  <2>2. CASE ~PowerLoss
    BY <2>2, Zenon DEF Crash
  <2> QED
    BY <2>1, <2>2, Zenon
<1>3. BackedInv'
  BY <1>1, <1>2, Zenon DEF BackedInv, Backed
<1>4. HeldInv'
  <2>1. CASE PowerLoss
    BY <1>1, <1>2, <2>1, Zenon DEF HeldInv, Held, BackedInv, Backed
  <2>2. CASE ~PowerLoss
    BY <1>1, <1>2, <2>2, Zenon DEF HeldInv, Held
  <2> QED
    BY <2>1, <2>2
<1>5. ConnectedInv'
  BY <1>1, Zenon DEF ConnectedInv, ConnectedDb, Connected
<1> QED
  BY <1>1, <1>3, <1>4, <1>5

(* The start finds what it reads.                                          *)
LEMMA StartFiles ==
    ASSUME CoinsInv, FilesInv, Start
    PROVE  FilesInv'
<1> USE DEF FilesInv
<1>1. /\ pc = "down" /\ rev' = rev /\ index' = index /\ dbBest' = dbBest
      /\ dbHeads' = dbHeads /\ dbDisk' = dbDisk
      /\ status' = IF index[Genesis] = {}
                   THEN [index EXCEPT ![Genesis] = {"data"}] ELSE index
      /\ blk' = IF index[Genesis] = {} THEN [blk EXCEPT ![Genesis] = "os"] ELSE blk
      /\ dbBest \in Block \cup {Null}
  BY Zenon DEF Start, LoadBlockIndex, CoinsInv, TypeOK, indexDb, coinDb
<1>2. /\ \A b \in Block : index[b] \subseteq status'[b]
      /\ \A b \in Block \ {Genesis} : status'[b] = index[b] /\ blk'[b] = blk[b]
      /\ \/ status'[Genesis] = index[Genesis] /\ blk'[Genesis] = blk[Genesis]
         \/ /\ status'[Genesis] = {"data"} /\ blk'[Genesis] = "os"
            /\ index[Genesis] = {}
  BY <1>1, BlockAssumption, Zenon DEF CoinsInv, TypeOK
<1>3. HeldInv'
  <2>1. Held(index)
    BY DEF HeldInv
  <2>2. Held(status)'
    <3> SUFFICES ASSUME NEW b \in Block
                 PROVE  /\ "data" \in status'[b] => blk'[b] # "none"
                        /\ "undo" \in status'[b] => rev'[b] # "none"
      BY DEF Held
    <3>1. CASE b = Genesis
      BY <1>1, <1>2, <2>1, <3>1, SMTT(40) DEF Held
    <3>2. CASE b # Genesis
      BY <1>1, <1>2, <2>1, <3>2, Zenon DEF Held
    <3> QED
      BY <3>1, <3>2, Zenon
  <2>3. Held(index)'
    BY <1>1, <1>2, <2>2, Zenon DEF Held
  <2> QED
    BY <2>2, <2>3 DEF HeldInv

<1>4. BackedInv'
  <2> SUFFICES ASSUME MaxFile = 0
               PROVE  Backed(index)' /\ (pc' = "index" => Backed(status)')
    BY DEF BackedInv
  <2>1. pc' # "index"
    BY <1>1, Zenon DEF Start
  <2>2. Backed(index)'
    BY <1>1, <1>2, Zenon DEF Backed, BackedInv
  <2> QED
    BY <2>1, <2>2
<1>5. CASE dbHeads # <<>>
  <2> DEFINE new == dbHeads[1]
             old == dbHeads[2]
  <2>1. /\ new \in Block /\ old \in Block \cup {Null}
        /\ Connected(new, index) /\ Connected(old, index)
    BY <1>5, Zenon DEF CoinsInv, TypeOK, Heads, ConnectedInv, ConnectedDb
  <2> HIDE DEF new, old
  <2>2. new \in Range(Chain[new]) /\ (old # Null => old \in Range(Chain[old]))
    BY <2>1, ChainRange, Zenon
  <2>3. CanReplay(new, old)
    <3>1. "data" \in index[new] /\ (old # Null => "data" \in index[old])
      BY <2>1, <2>2, Zenon DEF Connected
    <3>2. ASSUME NEW b \in Range(RolledBack(new, old))
          PROVE  /\ "data" \in index[b] /\ blk[b] # "none"
                 /\ "undo" \in index[b] /\ rev[b] # "none"
      <4>1. b \in Block \ {Genesis} /\ b \in Range(Chain[old])
        BY <2>1, <3>2, ReplayBlocks, Zenon
      <4> QED
        BY <2>1, <4>1, Zenon DEF Connected, HeldInv, Held
    <3>3. ASSUME NEW b \in Range(RolledForward(new, old))
          PROVE  "data" \in index[b] /\ blk[b] # "none"
      <4>1. b \in Block \ {Genesis} /\ b \in Range(Chain[new])
        BY <2>1, <3>3, ReplayBlocks
      <4> QED
        BY <2>1, <4>1, Zenon DEF Connected, HeldInv, Held
    <3> QED
      BY <3>1, <3>2, <3>3, Zenon DEF CanReplay
  <2>4. pc' = "coins" /\ cacheBest' = new /\ broken' = broken
    BY <1>5, <2>3, Zenon DEF Start, new, old
  <2>5. Connected(cacheBest', index') /\ Connected(cacheBest', status')
    <3>1. Range(Chain[new]) \subseteq Block
      BY <2>1, ChainRange, Zenon
    <3> QED
      BY <1>1, <1>2, <2>1, <2>4, <3>1, Zenon DEF Connected
  <2>6. ConnectedInv'
    BY <1>1, <2>4, <2>5, Zenon DEF ConnectedInv, ConnectedDb, Connected
  <2> QED
    BY <1>3, <1>4, <2>4, <2>6
<1>6. CASE dbHeads = <<>>
  <2>1. Connected(dbBest, index)
    BY Zenon DEF ConnectedInv, ConnectedDb
  <2>2. dbBest = Null \/ "data" \in index[dbBest]
    BY <1>1, <2>1, ChainRange, Zenon DEF Connected
  <2>3. pc' = "run" /\ cacheBest' = dbBest /\ broken' = broken
    BY <1>6, <2>2, Zenon DEF Start
  <2>4. Connected(cacheBest', status')
    <3>1. Range(Chain[dbBest]) \subseteq Block
      BY <1>1, ChainRange, Zenon
    <3> QED
      BY <1>2, <2>1, <2>3, <3>1, Zenon DEF Connected
  <2>5. ConnectedInv'
    BY <1>1, <2>3, <2>4, Zenon DEF ConnectedInv, ConnectedDb, Connected
  <2> QED
    BY <1>3, <1>4, <2>3, <2>5
<1> QED
  BY <1>5, <1>6

(* Every step preserves FilesInv.                                          *)
LEMMA FilesNext ==
    ASSUME PowerLoss => MaxFile = 0
    PROVE  CoinsInv /\ FilesInv /\ [Next]_vars => FilesInv'
<1> SUFFICES ASSUME CoinsInv, FilesInv, [Next]_vars
             PROVE  FilesInv'
  OBVIOUS
<1>1. CASE UNCHANGED vars
  BY <1>1, Zenon DEF vars, memory, files, indexDb, coinDb, FilesInv, HeldInv, Held,
              BackedInv, Backed, ConnectedInv, ConnectedDb, Connected
<1>2. CASE Next
  BY <1>2, AcceptBlockFiles, ConnectTipFiles, DisconnectTipFiles,
     BeginFlushFiles, SyncBlockFilesFiles, WriteBlockIndexFiles,
     WritePartialBatchFiles, WriteFinalBatchFiles, WriteBackFiles, CrashFiles,
     StartFiles DEF Next
<1> QED
  BY <1>1, <1>2

(* What a disconnection, a replay or a start-up reads is always there, as  *)
(* long as a power loss does not meet a second block file.                 *)
THEOREM FilesAlways ==
    ASSUME PowerLoss => MaxFile = 0
    PROVE  Spec => []FilesInv
<1>1. CoinsInv /\ FilesInv /\ [Next]_vars => FilesInv'
  BY FilesNext
<1> QED
  BY <1>1, CoinsAlways, FilesInit, PTL DEF Spec

-----------------------------------------------------------------------------
(***************************************************************************)
(* The properties of the runs, for every tree of blocks.                   *)
(***************************************************************************)

(* Every variable keeps its type.                                          *)
THEOREM TypeCorrect == Spec => []TypeOK
<1>1. CoinsInv => TypeOK
  BY DEF CoinsInv
<1> QED
  BY <1>1, CoinsAlways, PTL

(* Outside a transition the coin database holds exactly the UTXO set of    *)
(* the block it names, whatever crashes, power losses and replays it has   *)
(* been through (BatchWrite, ReplayBlocks).                                *)
THEOREM DbConsistentAlways == Spec => []DbConsistent
<1>1. CoinsInv => DbConsistent
  BY SettledDb, Zenon DEF CoinsInv, DbInv, DbConsistent
<1> QED
  BY <1>1, CoinsAlways, PTL

(* While the node runs, pcoinsTip answers with exactly the UTXO set of the *)
(* tip of the active chain (ConnectTip, DisconnectTip, FlushStateToDisk,   *)
(* LoadChainTip).                                                          *)
THEOREM TipExactAlways == Spec => []TipExact
<1>1. CoinsInv => TipExact
  BY DEF CoinsInv, CacheInv, GoodCache, TipExact
<1> QED
  BY <1>1, CoinsAlways, PTL

(* Every start-up succeeds and every tip can be disconnected cleanly, when *)
(* crashes lose no file contents or there is one block file only.  With    *)
(* both a power loss and a second file the property fails.                 *)
THEOREM NeverBrokenAlways ==
    ASSUME PowerLoss => MaxFile = 0
    PROVE  Spec => []NeverBroken
<1>1. FilesInv => NeverBroken
  BY DEF FilesInv, NeverBroken
<1> QED
  BY <1>1, FilesAlways, PTL

(* As long as there is one block file, the block index on disk refers to   *)
(* synced data only (FlushBlockFile before WriteBatchSync).                *)
THEOREM IndexBackedAlways ==
    ASSUME MaxFile = 0
    PROVE  Spec => []IndexBacked
<1>1. CoinsInv /\ FilesInv => IndexBacked
  <2> SUFFICES ASSUME CoinsInv, FilesInv PROVE IndexBacked
    OBVIOUS
  <2>1. DOMAIN index = Block
    BY Zenon DEF CoinsInv, TypeOK
  <2> QED
    BY <2>1, Zenon DEF FilesInv, BackedInv, Backed, IndexBacked
<1> QED
  BY <1>1, CoinsAlways, FilesAlways, PTL
=============================================================================
