--------------------------- MODULE AssetTagsProofs ---------------------------
(***************************************************************************)
(* Proofs about AssetTags, for any tags, roots, blocks and commands.       *)
(* OneVerdict and LruBacked are inductive as they stand: the first because *)
(* Flush keeps the two sets of passets apart whatever the view of a block  *)
(* holds, the second because the dump treats cache and database alike.     *)
(* StatusExact needs both, and that every command of the chain changed the *)
(* status when its block was connected: the undoing of a command answers   *)
(* the opposite of the command.                                            *)
(***************************************************************************)
EXTENDS AssetTags, Recursion

(* Flush of any view leaves no tag both with a command and with one undone *)
(* (CAssetsCache::Flush).                                                  *)
LEMMA FlushKeepsApart ==
    ASSUME OneVerdict, NEW v, Flush(v)
    PROVE  OneVerdict'
<1>1. SUFFICES ASSUME NEW t \in Tags(FlushedAdd(v)), t \in Tags(FlushedUndo(v))
               PROVE  FALSE
      BY DEF Flush, OneVerdict, Tags
<1>2. /\ t \notin Tags(v.undo)
      /\ t \in Tags(add) \cup Tags(v.add)
      BY <1>1 DEF FlushedAdd, Tags, Without
<1>3. t \in Tags(undo) /\ t \notin Tags(v.add)
      BY <1>1, <1>2 DEF FlushedUndo, Tags, Without
<1> QED BY <1>2, <1>3 DEF OneVerdict

(* What the dump does to a set is monotone in the set: a cache within the  *)
(* database stays within it (DumpCacheToDatabase).                         *)
LEMMA DumpKeepsWithin ==
    ASSUME NEW S, NEW T, S \subseteq T
    PROVE  Dumped(S) \subseteq Dumped(T)
BY DEF Dumped

(* The lookups never find a tag both in the set of commands and in that of *)
(* undone ones, after any blocks, reorganizations, dumps and restarts      *)
(* (CAssetsCache::Flush).                                                  *)
THEOREM VerdictIsOne == Spec => []OneVerdict
<1>1. Init => OneVerdict
      BY DEF Init, OneVerdict, Tags
<1>2. OneVerdict /\ [Next]_vars => OneVerdict'
  <2> SUFFICES ASSUME OneVerdict, [Next]_vars PROVE OneVerdict'
      OBVIOUS
  <2>1. ASSUME NEW commands \in Commands, ConnectTip(commands) PROVE OneVerdict'
        BY <2>1, FlushKeepsApart DEF ConnectTip
  <2>2. CASE DisconnectTip
        BY <2>2, FlushKeepsApart DEF DisconnectTip
  <2>3. CASE DumpCacheToDatabase \/ Restart
        BY <2>3 DEF DumpCacheToDatabase, Restart, ClearDirtyCache, OneVerdict, Tags
  <2>4. ASSUME NEW t \in Tag, Lookup(t) \/ Evict(t) PROVE OneVerdict'
        BY <2>4 DEF Lookup, Evict, OneVerdict, Tags
  <2>5. CASE UNCHANGED vars
        BY <2>5 DEF vars, OneVerdict, Tags
  <2> QED BY <2>1, <2>2, <2>3, <2>4, <2>5 DEF Next
<1> QED BY <1>1, <1>2, PTL DEF Spec

(* The least-recently-used cache never has a tag that the database has     *)
(* not, so that a hit in it is as good as a read (passetsQualifierCache    *)
(* and its like).                                                          *)
THEOREM LruIsBacked == Spec => []LruBacked
<1>1. Init => LruBacked
      BY DEF Init, LruBacked
<1>2. LruBacked /\ [Next]_vars => LruBacked'
  <2> SUFFICES ASSUME LruBacked, [Next]_vars PROVE LruBacked'
      OBVIOUS
  <2>1. ASSUME NEW commands \in Commands, ConnectTip(commands) PROVE LruBacked'
        BY <2>1 DEF ConnectTip, CachedBy, LruBacked
  <2>2. CASE DisconnectTip
        BY <2>2 DEF DisconnectTip, LruBacked
  <2>3. CASE DumpCacheToDatabase
        BY <2>3, DumpKeepsWithin DEF DumpCacheToDatabase, DumpedLru, LruBacked
  <2>4. CASE Restart
        BY <2>4 DEF Restart, LruBacked
  <2>5. ASSUME NEW t \in Tag, Lookup(t) \/ Evict(t) PROVE LruBacked'
        BY <2>5 DEF Lookup, Evict, CachedBy, LruBacked
  <2>6. CASE UNCHANGED vars
        BY <2>6 DEF vars, LruBacked
  <2> QED BY <2>1, <2>2, <2>3, <2>4, <2>5, <2>6 DEF Next
<1> QED BY <1>1, <1>2, PTL DEF Spec

-----------------------------------------------------------------------------
(* The commands of a block are a sequence of commands, and its range are   *)
(* its members.                                                            *)
LEMMA CommandsFacts ==
    ASSUME TagAssumption, NEW cs \in Commands
    PROVE  /\ Len(cs) \in Nat \ {0}
           /\ DOMAIN cs = 1 .. Len(cs)
           /\ \A k \in 1 .. Len(cs) : cs[k] \in Command
           /\ Range(cs) = {cs[k] : k \in 1 .. Len(cs)}
<1>1. PICK n \in 1 .. MaxCommands : cs \in [1 .. n -> Command]
  BY DEF Commands
<1>2. n \in Nat \ {0}
  BY DEF TagAssumption
<1>3. cs \in Seq(Command) /\ Len(cs) = n
  BY <1>1, <1>2
<1> QED
  BY <1>1, <1>2, <1>3 DEF Range

(* The views of blocks, and the tags of a set of commands.                 *)
View == [add: SUBSET Command, undo: SUBSET Command,
         rootAdd: SUBSET Tag, rootRemove: SUBSET Tag]

(* A command added to a view (AddQualifierAddress and its like).           *)
LEMMA AddCommandFacts ==
    ASSUME NEW v \in View, NEW c \in Command
    PROVE  /\ AddCommand(v, c) \in View
           /\ AddCommand(v, c).add = Insert(v.add, c)
           /\ AddCommand(v, c).undo = Without(v.undo, {c.tag})
<1>1. WithSub(v, c.tag, c.on) \in View
  BY DEF WithSub, View, SubOf, Command
<1>2. /\ WithSub(v, c.tag, c.on).add = v.add
      /\ WithSub(v, c.tag, c.on).undo = v.undo
  BY DEF WithSub, View
<1>3. Insert(v.add, c) \in SUBSET Command /\ Without(v.undo, {c.tag}) \in SUBSET Command
  BY DEF Insert, Without, View
<1> HIDE DEF WithSub
<1> QED
  BY <1>1, <1>2, <1>3 DEF AddCommand, View

(* A command undone in a view (RemoveQualifierAddress and its like).       *)
LEMMA RemoveCommandFacts ==
    ASSUME NEW v \in View, NEW c \in Command
    PROVE  /\ RemoveCommand(v, c) \in View
           /\ RemoveCommand(v, c).add = Without(v.add, {c.tag})
           /\ RemoveCommand(v, c).undo = Insert(v.undo, c)
<1>1. WithSub(v, c.tag, ~c.on) \in View
  BY DEF WithSub, View, SubOf, Command
<1>2. /\ WithSub(v, c.tag, ~c.on).add = v.add
      /\ WithSub(v, c.tag, ~c.on).undo = v.undo
  BY DEF WithSub, View
<1>3. Insert(v.undo, c) \in SUBSET Command /\ Without(v.add, {c.tag}) \in SUBSET Command
  BY DEF Insert, Without, View
<1> HIDE DEF WithSub
<1> QED
  BY <1>1, <1>2, <1>3 DEF RemoveCommand, View

(* The loop over the commands of a block that is connected goes through    *)
(* its views.                                                              *)
LEMMA ConnectedLoop ==
    ASSUME TagAssumption, NEW cs \in Commands
    PROVE  /\ ConnectedViews(cs) \in [0 .. Len(cs) -> View]
           /\ ConnectedViews(cs)[0] = EmptyView
           /\ \A k \in 1 .. Len(cs) :
                ConnectedViews(cs)[k] = AddCommand(ConnectedViews(cs)[k - 1], cs[k])
<1> DEFINE N == Len(cs)
           Step(v, k) == AddCommand(v, cs[k])
           F == [k \in 1 .. N |-> [v \in View |-> Step(v, k)]]
           f == ConnectedViews(cs)
           Body(g) == [n \in 0 .. N |-> IF n = 0 THEN EmptyView ELSE Step(g[n - 1], n)]
<1>1. N \in Nat
  BY CommandsFacts
<1>2. ASSUME NEW k \in 1 .. N, NEW v \in View PROVE Step(v, k) \in View
  BY CommandsFacts, AddCommandFacts
<1>3. f = CHOOSE g : g = Body(g)
  BY DEF ConnectedViews
<1>4. EmptyView \in View
  BY DEF EmptyView, View
<1> HIDE DEF N, Step, f
<1>5. F \in [1 .. N -> [View -> View]]
  BY <1>2
<1>6. PICK g : LoopOf(g, N, View, EmptyView, F)
  <2> HIDE DEF F
  <2> QED
    BY <1>1, <1>4, <1>5, LoopExists
<1>7. g = Body(g)
  <2>1. g \in [0 .. N -> View] /\ g[0] = EmptyView
    BY <1>6 DEF LoopOf
  <2>2. ASSUME NEW k \in 1 .. N PROVE g[k] = Step(g[k - 1], k)
    <3>1. g[k] = F[k][g[k - 1]] /\ g[k - 1] \in View
      BY <1>1, <1>6, <2>1 DEF LoopOf
    <3> QED
      BY <3>1
  <2> QED
    BY <1>1, <2>1, <2>2
<1>8. f = Body(f)
  BY <1>3, <1>7, Zenon
<1>9. f[0] = EmptyView /\ \A n \in 1 .. N : f[n] = Step(f[n - 1], n)
  BY <1>1, <1>8
<1> DEFINE S == {n \in 0 .. N : f[n] \in View}
<1>10. 0 \in S /\ \A k \in 1 .. N : k - 1 \in S => k \in S
  BY <1>1, <1>2, <1>4, <1>9
<1>11. 0 .. N \subseteq S
  <2> HIDE DEF S
  <2> QED
    BY <1>1, <1>10, LoopInduct
<1>12. f \in [0 .. N -> View]
  BY <1>8, <1>11
<1> QED
  BY <1>9, <1>12 DEF N, f, Step

(* The loop over the commands of a block that is undone, last to first.    *)
LEMMA UndoneLoop ==
    ASSUME TagAssumption, NEW cs \in Commands
    PROVE  /\ UndoneViews(cs) \in [0 .. Len(cs) -> View]
           /\ UndoneViews(cs)[0] = EmptyView
           /\ \A k \in 1 .. Len(cs) :
                UndoneViews(cs)[k]
                    = RemoveCommand(UndoneViews(cs)[k - 1], cs[Len(cs) + 1 - k])
<1> DEFINE N == Len(cs)
           Step(v, k) == RemoveCommand(v, cs[N + 1 - k])
           F == [k \in 1 .. N |-> [v \in View |-> Step(v, k)]]
           f == UndoneViews(cs)
           Body(g) == [n \in 0 .. N |-> IF n = 0 THEN EmptyView ELSE Step(g[n - 1], n)]
<1>1. N \in Nat
  BY CommandsFacts
<1>2. ASSUME NEW k \in 1 .. N, NEW v \in View PROVE Step(v, k) \in View
  <2>1. cs[N + 1 - k] \in Command
    BY <1>1, CommandsFacts
  <2> QED
    BY <2>1, RemoveCommandFacts
<1>3. f = CHOOSE g : g = Body(g)
  BY DEF UndoneViews
<1>4. EmptyView \in View
  BY DEF EmptyView, View
<1> HIDE DEF N, Step, f
<1>5. F \in [1 .. N -> [View -> View]]
  BY <1>2
<1>6. PICK g : LoopOf(g, N, View, EmptyView, F)
  <2> HIDE DEF F
  <2> QED
    BY <1>1, <1>4, <1>5, LoopExists
<1>7. g = Body(g)
  <2>1. g \in [0 .. N -> View] /\ g[0] = EmptyView
    BY <1>6 DEF LoopOf
  <2>2. ASSUME NEW k \in 1 .. N PROVE g[k] = Step(g[k - 1], k)
    <3>1. g[k] = F[k][g[k - 1]] /\ g[k - 1] \in View
      BY <1>1, <1>6, <2>1 DEF LoopOf
    <3> QED
      BY <3>1
  <2> QED
    BY <1>1, <2>1, <2>2
<1>8. f = Body(f)
  BY <1>3, <1>7, Zenon
<1>9. f[0] = EmptyView /\ \A n \in 1 .. N : f[n] = Step(f[n - 1], n)
  BY <1>1, <1>8
<1> DEFINE S == {n \in 0 .. N : f[n] \in View}
<1>10. 0 \in S /\ \A k \in 1 .. N : k - 1 \in S => k \in S
  BY <1>1, <1>2, <1>4, <1>9
<1>11. 0 .. N \subseteq S
  <2> HIDE DEF S
  <2> QED
    BY <1>1, <1>10, LoopInduct
<1>12. f \in [0 .. N -> View]
  BY <1>8, <1>11
<1> QED
  BY <1>9, <1>12 DEF N, f, Step

(* The loop of what the commands of a block do to a set of tags.           *)
LEMMA ObeyedLoop ==
    ASSUME TagAssumption, NEW cs \in Commands, NEW T \in SUBSET Tag
    PROVE  /\ Obeyed(T, cs) \in [0 .. Len(cs) -> SUBSET Tag]
           /\ Obeyed(T, cs)[0] = T
           /\ \A k \in 1 .. Len(cs) : Obeyed(T, cs)[k] = Obey(Obeyed(T, cs)[k - 1], cs[k])
<1> DEFINE N == Len(cs)
           V == SUBSET Tag
           Step(v, k) == Obey(v, cs[k])
           F == [k \in 1 .. N |-> [v \in V |-> Step(v, k)]]
           f == Obeyed(T, cs)
           Body(g) == [n \in 0 .. N |-> IF n = 0 THEN T ELSE Step(g[n - 1], n)]
<1>1. N \in Nat
  BY CommandsFacts
<1>2. ASSUME NEW k \in 1 .. N, NEW v \in V PROVE Step(v, k) \in V
  BY CommandsFacts DEF Obey, Command
<1>3. f = CHOOSE g : g = Body(g)
  BY DEF Obeyed
<1>4. T \in V
  OBVIOUS
<1> HIDE DEF N, Step, f, V
<1>5. F \in [1 .. N -> [V -> V]]
  BY <1>2
<1>6. PICK g : LoopOf(g, N, V, T, F)
  <2> HIDE DEF F
  <2> QED
    BY <1>1, <1>4, <1>5, LoopExists
<1>7. g = Body(g)
  <2>1. g \in [0 .. N -> V] /\ g[0] = T
    BY <1>6 DEF LoopOf
  <2>2. ASSUME NEW k \in 1 .. N PROVE g[k] = Step(g[k - 1], k)
    <3>1. g[k] = F[k][g[k - 1]] /\ g[k - 1] \in V
      BY <1>1, <1>6, <2>1 DEF LoopOf
    <3> QED
      BY <3>1
  <2> QED
    BY <1>1, <2>1, <2>2
<1>8. f = Body(f)
  BY <1>3, <1>7, Zenon
<1>9. f[0] = T /\ \A n \in 1 .. N : f[n] = Step(f[n - 1], n)
  BY <1>1, <1>8
<1> DEFINE S == {n \in 0 .. N : f[n] \in V}
<1>10. 0 \in S /\ \A k \in 1 .. N : k - 1 \in S => k \in S
  BY <1>1, <1>2, <1>4, <1>9
<1>11. 0 .. N \subseteq S
  <2> HIDE DEF S
  <2> QED
    BY <1>1, <1>10, LoopInduct
<1>12. f \in [0 .. N -> V]
  BY <1>8, <1>11
<1> QED
  BY <1>9, <1>12 DEF N, f, Step, V

(* The loop of what the blocks of a chain do.                              *)
LEMMA StatusLoop ==
    ASSUME TagAssumption, NEW blocks \in Seq(Commands)
    PROVE  /\ StatusAfter(blocks) \in [0 .. Len(blocks) -> SUBSET Tag]
           /\ StatusAfter(blocks)[0] = {}
           /\ \A k \in 1 .. Len(blocks) :
                StatusAfter(blocks)[k]
                    = Obeyed(StatusAfter(blocks)[k - 1], blocks[k])[Len(blocks[k])]
<1> DEFINE N == Len(blocks)
           V == SUBSET Tag
           E == {}
           Step(v, k) == Obeyed(v, blocks[k])[Len(blocks[k])]
           F == [k \in 1 .. N |-> [v \in V |-> Step(v, k)]]
           f == StatusAfter(blocks)
           Body(g) == [n \in 0 .. N |-> IF n = 0 THEN E ELSE Step(g[n - 1], n)]
<1>1. N \in Nat
  OBVIOUS
<1>2. ASSUME NEW k \in 1 .. N, NEW v \in V PROVE Step(v, k) \in V
  <2>1. blocks[k] \in Commands
    OBVIOUS
  <2>2. Obeyed(v, blocks[k]) \in [0 .. Len(blocks[k]) -> V] /\ Len(blocks[k]) \in Nat
    BY <2>1, ObeyedLoop, CommandsFacts
  <2> QED
    BY <2>2
<1>3. f = CHOOSE g : g = Body(g)
  BY DEF StatusAfter
<1>4. E \in V
  OBVIOUS
<1> HIDE DEF N, Step, f, V, E
<1>5. F \in [1 .. N -> [V -> V]]
  BY <1>2
<1>6. PICK g : LoopOf(g, N, V, E, F)
  <2> HIDE DEF F
  <2> QED
    BY <1>1, <1>4, <1>5, LoopExists
<1>7. g = Body(g)
  <2>1. g \in [0 .. N -> V] /\ g[0] = E
    BY <1>6 DEF LoopOf
  <2>2. ASSUME NEW k \in 1 .. N PROVE g[k] = Step(g[k - 1], k)
    <3>1. g[k] = F[k][g[k - 1]] /\ g[k - 1] \in V
      BY <1>1, <1>6, <2>1 DEF LoopOf
    <3> QED
      BY <3>1
  <2> QED
    BY <1>1, <2>1, <2>2
<1>8. f = Body(f)
  BY <1>3, <1>7, Zenon
<1>9. f[0] = E /\ \A n \in 1 .. N : f[n] = Step(f[n - 1], n)
  BY <1>1, <1>8
<1> DEFINE S == {n \in 0 .. N : f[n] \in V}
<1>10. 0 \in S /\ \A k \in 1 .. N : k - 1 \in S => k \in S
  BY <1>1, <1>2, <1>4, <1>9
<1>11. 0 .. N \subseteq S
  <2> HIDE DEF S
  <2> QED
    BY <1>1, <1>10, LoopInduct
<1>12. f \in [0 .. N -> V]
  BY <1>8, <1>11
<1> QED
  BY <1>9, <1>12 DEF N, f, Step, V, E

(* No tag has two commands in a set.                                       *)
OnePerTag(S) == \A c, d \in S : c.tag = d.tag => c = d

(* A view that holds, in one of its sets, one command for each tag of a    *)
(* block.                                                                  *)
HoldsOf(S, cs) ==
    /\ S \subseteq Range(cs) /\ OnePerTag(S)
    /\ Tags(S) = Tags(Range(cs))

(* Inserting a command replaces the one of its tag.                        *)
LEMMA InsertFacts ==
    ASSUME NEW S \in SUBSET Command, NEW c \in Command, OnePerTag(S)
    PROVE  OnePerTag(Insert(S, c)) /\ Tags(Insert(S, c)) = Tags(S) \cup {c.tag}
BY DEF Insert, Without, OnePerTag, Tags

(* The view of a block that is connected has a command for each of its     *)
(* tags to add and none to undo (AddQualifierAddress and its like).        *)
LEMMA ConnectedView ==
    ASSUME TagAssumption, NEW cs \in Commands
    PROVE  LET v == ConnectedViews(cs)[Len(cs)]
           IN  v \in View /\ v.undo = {} /\ HoldsOf(v.add, cs)
<1> DEFINE N == Len(cs)
           f == ConnectedViews(cs)
           S == {n \in 0 .. N : /\ f[n].undo = {}
                                /\ f[n].add \subseteq Range(cs)
                                /\ OnePerTag(f[n].add)
                                /\ Tags(f[n].add) = {cs[i].tag : i \in 1 .. n}}
<1>1. N \in Nat \ {0}
  BY CommandsFacts
<1>2. 0 \in S
  <2>1. f[0] = EmptyView
    BY ConnectedLoop
  <2>2. f[0].undo = {} /\ f[0].add = {}
    BY <2>1 DEF EmptyView
  <2> HIDE DEF f
  <2> QED
    BY <1>1, <2>2 DEF OnePerTag, Tags
<1>3. ASSUME NEW k \in 1 .. N, k - 1 \in S PROVE k \in S
  <2>1. f[k - 1] \in View /\ cs[k] \in Command /\ cs[k] \in Range(cs) /\ k - 1 \in 0 .. N
    BY <1>1, ConnectedLoop, CommandsFacts
  <2>2. f[k] = AddCommand(f[k - 1], cs[k])
    BY ConnectedLoop
  <2> HIDE DEF f
  <2>3. /\ f[k].add = Insert(f[k - 1].add, cs[k])
        /\ f[k].undo = Without(f[k - 1].undo, {cs[k].tag})
    BY <2>1, <2>2, AddCommandFacts
  <2>4. f[k].undo = {} /\ f[k].add \subseteq Range(cs)
    BY <1>3, <2>1, <2>3 DEF Insert, Without
  <2>5. f[k - 1].add \in SUBSET Command
    BY <2>1 DEF View
  <2>6. OnePerTag(f[k].add) /\ Tags(f[k].add) = Tags(f[k - 1].add) \cup {cs[k].tag}
    BY <1>3, <2>1, <2>3, <2>5, InsertFacts
  <2>7. {cs[i].tag : i \in 1 .. k} = {cs[i].tag : i \in 1 .. k - 1} \cup {cs[k].tag}
    <3>1. 1 .. k = (1 .. k - 1) \cup {k}
      BY <1>1
    <3> QED
      BY <3>1, Zenon
  <2> QED
    BY <1>3, <2>4, <2>6, <2>7
<1>4. N \in S
  <2>1. 0 .. N \subseteq S
    <3> HIDE DEF S
    <3> QED
      BY <1>1, <1>2, <1>3, LoopInduct
  <2> HIDE DEF S
  <2> QED
    BY <1>1, <2>1
<1>5. {cs[i].tag : i \in 1 .. N} = Tags(Range(cs))
  BY CommandsFacts DEF Tags
<1>6. f[N] \in View
  BY <1>1, ConnectedLoop
<1> HIDE DEF f
<1>7. f[N].undo = {} /\ HoldsOf(f[N].add, cs)
  BY <1>4, <1>5, Zenon DEF HoldsOf
<1> QED
  BY <1>6, <1>7 DEF f

(* The view of a block that is undone has a command for each of its tags   *)
(* to undo and none to add (RemoveQualifierAddress and its like).          *)
LEMMA UndoneView ==
    ASSUME TagAssumption, NEW cs \in Commands
    PROVE  LET v == UndoneViews(cs)[Len(cs)]
           IN  v \in View /\ v.add = {} /\ HoldsOf(v.undo, cs)
<1> DEFINE N == Len(cs)
           f == UndoneViews(cs)
           S == {n \in 0 .. N : /\ f[n].add = {}
                                /\ f[n].undo \subseteq Range(cs)
                                /\ OnePerTag(f[n].undo)
                                /\ Tags(f[n].undo) = {cs[i].tag : i \in N + 1 - n .. N}}
<1>1. N \in Nat \ {0}
  BY CommandsFacts
<1>2. 0 \in S
  <2>1. f[0] = EmptyView
    BY UndoneLoop
  <2>2. f[0].undo = {} /\ f[0].add = {}
    BY <2>1 DEF EmptyView
  <2>3. N + 1 - 0 .. N = {}
    BY <1>1
  <2> HIDE DEF f
  <2> QED
    BY <1>1, <2>2, <2>3 DEF OnePerTag, Tags
<1>3. ASSUME NEW k \in 1 .. N, k - 1 \in S PROVE k \in S
  <2> DEFINE c == cs[N + 1 - k]
  <2>1. f[k - 1] \in View /\ c \in Command /\ c \in Range(cs) /\ k - 1 \in 0 .. N
    BY <1>1, UndoneLoop, CommandsFacts
  <2>2. f[k] = RemoveCommand(f[k - 1], c)
    BY UndoneLoop
  <2> HIDE DEF f
  <2>3. f[k].undo = Insert(f[k - 1].undo, c) /\ f[k].add = Without(f[k - 1].add, {c.tag})
    BY <2>1, <2>2, RemoveCommandFacts
  <2>4. f[k].add = {} /\ f[k].undo \subseteq Range(cs)
    BY <1>3, <2>1, <2>3 DEF Insert, Without
  <2>5. f[k - 1].undo \in SUBSET Command
    BY <2>1 DEF View
  <2>6. OnePerTag(f[k].undo) /\ Tags(f[k].undo) = Tags(f[k - 1].undo) \cup {c.tag}
    BY <1>3, <2>1, <2>3, <2>5, InsertFacts
  <2>7. {cs[i].tag : i \in N + 1 - k .. N}
           = {cs[i].tag : i \in N + 1 - (k - 1) .. N} \cup {c.tag}
    <3>1. N + 1 - k .. N = (N + 1 - (k - 1) .. N) \cup {N + 1 - k}
      BY <1>1
    <3> QED
      BY <3>1, Zenon
  <2> QED
    BY <1>3, <2>4, <2>6, <2>7
<1>4. N \in S
  <2>1. 0 .. N \subseteq S
    <3> HIDE DEF S
    <3> QED
      BY <1>1, <1>2, <1>3, LoopInduct
  <2> HIDE DEF S
  <2> QED
    BY <1>1, <2>1
<1>5. {cs[i].tag : i \in N + 1 - N .. N} = Tags(Range(cs))
  <2>1. N + 1 - N .. N = 1 .. N
    BY <1>1
  <2> QED
    BY <2>1, CommandsFacts DEF Tags
<1>6. f[N] \in View
  BY <1>1, UndoneLoop
<1> HIDE DEF f
<1>7. f[N].add = {} /\ HoldsOf(f[N].undo, cs)
  BY <1>4, <1>5, Zenon DEF HoldsOf
<1> QED
  BY <1>6, <1>7 DEF f

(* What the commands of a block do to a set of tags: nothing to other      *)
(* tags; and where all the commands for a tag say the same, what they say. *)
LEMMA ObeyedFacts ==
    ASSUME TagAssumption, NEW cs \in Commands, NEW T \in SUBSET Tag
    PROVE  LET D == Obeyed(T, cs)[Len(cs)]
           IN  /\ D \in SUBSET Tag
               /\ \A t \in Tag \ Tags(Range(cs)) : t \in D <=> t \in T
               /\ \A c \in Range(cs) :
                    (\A d \in Range(cs) : d.tag = c.tag => d.on = c.on)
                        => (c.tag \in D <=> c.on)
<1> DEFINE N == Len(cs)
           f == Obeyed(T, cs)
<1>1. N \in Nat \ {0}
  BY CommandsFacts
<1>2. f \in [0 .. N -> SUBSET Tag] /\ f[0] = T /\ \A k \in 1 .. N : f[k] = Obey(f[k - 1], cs[k])
  BY ObeyedLoop
<1>3. \A k \in 1 .. N : cs[k] \in Command /\ cs[k] \in Range(cs)
  BY CommandsFacts
<1> HIDE DEF f
<1>4. ASSUME NEW t \in Tag \ Tags(Range(cs)) PROVE t \in f[N] <=> t \in T
  <2> DEFINE S == {n \in 0 .. N : t \in f[n] <=> t \in T}
  <2>1. 0 \in S
    BY <1>1, <1>2
  <2>2. ASSUME NEW k \in 1 .. N, k - 1 \in S PROVE k \in S
    <3>1. t # cs[k].tag
      BY <1>3 DEF Tags
    <3>2. t \in f[k] <=> t \in f[k - 1]
      BY <1>2, <3>1 DEF Obey
    <3> QED
      BY <2>2, <3>2
  <2>3. 0 .. N \subseteq S
    <3> HIDE DEF S
    <3> QED
      BY <1>1, <2>1, <2>2, LoopInduct
  <2> QED
    BY <1>1, <2>3
<1>5. ASSUME NEW c \in Range(cs), \A d \in Range(cs) : d.tag = c.tag => d.on = c.on
      PROVE  c.tag \in f[N] <=> c.on
  <2>1. PICK j \in 1 .. N : c = cs[j]
    BY CommandsFacts
  <2> DEFINE S == {n \in 0 .. N : n >= j => (c.tag \in f[n] <=> c.on)}
  <2>2. 0 \in S
    BY <1>1
  <2>3. ASSUME NEW k \in 1 .. N, k - 1 \in S PROVE k \in S
    <3>1. f[k] = Obey(f[k - 1], cs[k]) /\ cs[k] \in Range(cs)
      BY <1>2, <1>3
    <3>2. CASE cs[k].tag = c.tag
      <4>1. cs[k].on = c.on
        BY <1>5, <3>1, <3>2
      <4> QED
        BY <3>1, <3>2, <4>1 DEF Obey
    <3>3. CASE cs[k].tag # c.tag
      <4>1. c.tag \in f[k] <=> c.tag \in f[k - 1]
        BY <3>1, <3>3 DEF Obey
      <4>2. k >= j => k - 1 >= j
        BY <1>1, <2>1, <3>3
      <4> QED
        BY <2>3, <4>1, <4>2
    <3> QED
      BY <3>2, <3>3
  <2>4. 0 .. N \subseteq S
    <3> HIDE DEF S
    <3> QED
      BY <1>1, <2>2, <2>3, LoopInduct
  <2> QED
    BY <1>1, <2>4
<1>6. f[N] \in SUBSET Tag
  BY <1>1, <1>2
<1> QED
  BY <1>4, <1>5, <1>6 DEF f

(* Two chains with the same first m blocks give the same status to them.   *)
LEMMA StatusOfPrefix ==
    ASSUME TagAssumption, NEW a \in Seq(Commands), NEW b \in Seq(Commands),
           NEW m \in Nat, m <= Len(a), m <= Len(b),
           \A k \in 1 .. m : a[k] = b[k]
    PROVE  \A k \in 0 .. m : StatusAfter(a)[k] = StatusAfter(b)[k]
<1> DEFINE S == {n \in 0 .. m : StatusAfter(a)[n] = StatusAfter(b)[n]}
<1>1. 0 \in S
  BY StatusLoop
<1>2. ASSUME NEW k \in 1 .. m, k - 1 \in S PROVE k \in S
  <2>1. k \in 1 .. Len(a) /\ k \in 1 .. Len(b) /\ a[k] = b[k]
    OBVIOUS
  <2>2. /\ StatusAfter(a)[k] = Obeyed(StatusAfter(a)[k - 1], a[k])[Len(a[k])]
        /\ StatusAfter(b)[k] = Obeyed(StatusAfter(b)[k - 1], b[k])[Len(b[k])]
    BY <2>1, StatusLoop
  <2> QED
    BY <1>2, <2>1, <2>2
<1> HIDE DEF S
<1>3. 0 .. m \subseteq S
  BY <1>1, <1>2, LoopInduct
<1> QED
  BY <1>3 DEF S

-----------------------------------------------------------------------------
(* A command that is undone must be known to have changed something: every *)
(* command of the chain found the other status in the blocks before it, as *)
(* VerifyChange makes sure.                                                *)
Toggles ==
    \A n \in 1 .. Len(chain) : \A c \in Range(chain[n]) :
        c.tag \notin Range(Root) => (c.on <=> c.tag \notin StatusAfter(chain)[n - 1])

(* The inductive invariant.                                                *)
StatusInv == TypeOK /\ OneVerdict /\ LruBacked /\ Toggles /\ StatusExact

(* What passets and the database say of a tag that is no root.             *)
Pending(a, u, d, t) ==
    IF t \in Tags(u) THEN t \in Switched(u, FALSE)
    ELSE t \in Switched(a, TRUE) \/ (t \notin Tags(a) /\ t \in d)

(* The lookups of such a tag: neither the map of roots nor the least-      *)
(* recently-used cache matters (CheckForAddressQualifier).                 *)
LEMMA CheckForPlain ==
    ASSUME TagAssumption, NEW t \in Tag, t \notin Range(Root),
           rootAdd \subseteq Tag, db \subseteq Tag, LruBacked
    PROVE  CheckFor(t) <=> Pending(add, undo, db, t)
<1>1. \A s \in Tag : Root[s] # t
  BY DEF TagAssumption, Range
<1>2. ~SubAdded(t) /\ (CheckForAddressRootQualifier(t) <=> t \in db)
  BY <1>1 DEF SubAdded, CheckForAddressRootQualifier
<1>3. t \in Switched(add, TRUE) => t \in Tags(add)
  BY DEF Switched, Tags
<1> QED
  BY <1>2, <1>3, Zenon DEF CheckFor, ReadsDatabase, Pending, LruBacked

(* The same after a step.                                                  *)
LEMMA CheckForPlainNext ==
    ASSUME TagAssumption, NEW t \in Tag, t \notin Range(Root),
           rootAdd' \subseteq Tag, db' \subseteq Tag, LruBacked'
    PROVE  CheckFor(t)' <=> Pending(add', undo', db', t)
<1>1. \A s \in Tag : Root[s] # t
  BY DEF TagAssumption, Range
<1>2. ~SubAdded(t)' /\ (CheckForAddressRootQualifier(t)' <=> t \in db')
  BY <1>1 DEF SubAdded, CheckForAddressRootQualifier
<1>3. t \in Switched(add', TRUE) => t \in Tags(add')
  BY DEF Switched, Tags
<1> QED
  BY <1>2, <1>3, Zenon DEF CheckFor, ReadsDatabase, Pending, LruBacked

(* Flush of a view within its type keeps passets within its own.           *)
LEMMA FlushKeepsType ==
    ASSUME TypeOK, NEW v \in View, OnePerTag(v.add), OnePerTag(v.undo), Flush(v)
    PROVE  /\ add' \subseteq Command /\ undo' \subseteq Command
           /\ OnePerTag(add') /\ OnePerTag(undo')
           /\ rootAdd' \subseteq Tag
<1>1. /\ v.add \subseteq Command /\ v.undo \subseteq Command
      /\ v.rootAdd \subseteq Tag /\ v.rootRemove \subseteq Tag
  BY DEF View
<1>2. OnePerTag(add) /\ OnePerTag(undo)
  BY DEF TypeOK, OnePerTag
<1>3. rootAdd' \subseteq Tag
  BY <1>1 DEF Flush, TypeOK
<1>4. add' \subseteq Command /\ undo' \subseteq Command
  BY <1>1 DEF Flush, FlushedAdd, FlushedUndo, Without, TypeOK
<1>5. OnePerTag(add')
  BY <1>2 DEF Flush, FlushedAdd, Without, Tags, OnePerTag
<1>6. OnePerTag(undo')
  BY <1>2 DEF Flush, FlushedUndo, Without, Tags, OnePerTag
<1> QED
  BY <1>3, <1>4, <1>5, <1>6

(* What Flush of the view of a connected block does to the answers.        *)
LEMMA FlushConnected ==
    ASSUME NEW v \in View, NEW cs, v.undo = {}, HoldsOf(v.add, cs), Flush(v), NEW t
    PROVE  /\ t \notin Tags(Range(cs)) =>
                (Pending(add', undo', db, t) <=> Pending(add, undo, db, t))
           /\ \A c \in Range(cs) :
                c.tag = t /\ (\A d \in Range(cs) : d.tag = t => d.on = c.on)
                    => (Pending(add', undo', db, t) <=> c.on = TRUE)
<1>1. Tags(v.add) = Tags(Range(cs)) /\ Tags(v.undo) = {} /\ v.add \subseteq Range(cs)
  BY DEF HoldsOf, Tags
<1>2. /\ add' = Without(add, Tags(Range(cs))) \cup v.add
      /\ undo' = Without(undo, Tags(Range(cs)))
  BY <1>1 DEF Flush, FlushedAdd, FlushedUndo, Without
<1>3. ASSUME t \notin Tags(Range(cs))
      PROVE  Pending(add', undo', db, t) <=> Pending(add, undo, db, t)
  <2>1. \A d \in v.add : d.tag # t
    BY <1>1, <1>3 DEF Tags
  <2>2. /\ t \in Tags(undo') <=> t \in Tags(undo)
        /\ t \in Switched(undo', FALSE) <=> t \in Switched(undo, FALSE)
    BY <1>2, <1>3 DEF Without, Tags, Switched
  <2>3. /\ t \in Tags(add') <=> t \in Tags(add)
        /\ t \in Switched(add', TRUE) <=> t \in Switched(add, TRUE)
    <3> DEFINE R == Tags(Range(cs))
    <3> HIDE DEF R
    <3>1. t \notin R /\ add' = Without(add, R) \cup v.add
      BY <1>2, <1>3 DEF R
    <3> QED
      BY <2>1, <3>1 DEF Without, Tags, Switched
  <2> QED
    BY <2>2, <2>3 DEF Pending
<1>4. ASSUME NEW c \in Range(cs), c.tag = t, \A d \in Range(cs) : d.tag = t => d.on = c.on
      PROVE  Pending(add', undo', db, t) <=> c.on = TRUE
  <2>1. t \in Tags(Range(cs))
    BY <1>4 DEF Tags
  <2>2. t \notin Tags(undo')
    BY <1>2, <2>1 DEF Without, Tags
  <2>3. PICK d \in v.add : d.tag = t
    BY <1>1, <2>1 DEF Tags
  <2>4. d \in add' /\ d.on = c.on
    BY <1>1, <1>2, <1>4, <2>3
  <2>5. \A e \in add' : e.tag = t => e.on = c.on
    BY <1>1, <1>2, <1>4, <2>1 DEF Without
  <2>6. t \in Tags(add') /\ (t \in Switched(add', TRUE) <=> c.on = TRUE)
    BY <2>3, <2>4, <2>5 DEF Tags, Switched
  <2> QED
    BY <2>2, <2>6 DEF Pending
<1> QED
  BY <1>3, <1>4

(* What Flush of the view of an undone block does to the answers.          *)
LEMMA FlushUndone ==
    ASSUME NEW v \in View, NEW cs, v.add = {}, HoldsOf(v.undo, cs), Flush(v), NEW t
    PROVE  /\ t \notin Tags(Range(cs)) =>
                (Pending(add', undo', db, t) <=> Pending(add, undo, db, t))
           /\ \A c \in Range(cs) :
                c.tag = t /\ (\A d \in Range(cs) : d.tag = t => d.on = c.on)
                    => (Pending(add', undo', db, t) <=> c.on = FALSE)
<1>1. Tags(v.undo) = Tags(Range(cs)) /\ Tags(v.add) = {} /\ v.undo \subseteq Range(cs)
  BY DEF HoldsOf, Tags
<1>2. /\ add' = Without(add, Tags(Range(cs)))
      /\ undo' = Without(undo, Tags(Range(cs))) \cup v.undo
  BY <1>1 DEF Flush, FlushedAdd, FlushedUndo, Without
<1>3. ASSUME t \notin Tags(Range(cs))
      PROVE  Pending(add', undo', db, t) <=> Pending(add, undo, db, t)
  <2>1. \A d \in v.undo : d.tag # t
    BY <1>1, <1>3 DEF Tags
  <2>2. /\ t \in Tags(add') <=> t \in Tags(add)
        /\ t \in Switched(add', TRUE) <=> t \in Switched(add, TRUE)
    BY <1>2, <1>3 DEF Without, Tags, Switched
  <2>3. /\ t \in Tags(undo') <=> t \in Tags(undo)
        /\ t \in Switched(undo', FALSE) <=> t \in Switched(undo, FALSE)
    <3> DEFINE R == Tags(Range(cs))
    <3> HIDE DEF R
    <3>1. t \notin R /\ undo' = Without(undo, R) \cup v.undo
      BY <1>2, <1>3 DEF R
    <3> QED
      BY <2>1, <3>1 DEF Without, Tags, Switched
  <2> QED
    BY <2>2, <2>3 DEF Pending
<1>4. ASSUME NEW c \in Range(cs), c.tag = t, \A d \in Range(cs) : d.tag = t => d.on = c.on
      PROVE  Pending(add', undo', db, t) <=> c.on = FALSE
  <2>1. t \in Tags(Range(cs))
    BY <1>4 DEF Tags
  <2>2. PICK d \in v.undo : d.tag = t
    BY <1>1, <2>1 DEF Tags
  <2>3. d \in undo' /\ d.on = c.on
    BY <1>1, <1>2, <1>4, <2>2
  <2>4. \A e \in undo' : e.tag = t => e.on = c.on
    BY <1>1, <1>2, <1>4, <2>1 DEF Without
  <2>5. t \in Tags(undo') /\ (t \in Switched(undo', FALSE) <=> c.on = FALSE)
    BY <2>2, <2>3, <2>4 DEF Tags, Switched
  <2> QED
    BY <2>5 DEF Pending
<1> QED
  BY <1>3, <1>4

(* The commands of a block that is accepted found the other status, and    *)
(* those for one tag agree (VerifyQualifierChange and its like).           *)
LEMMA AcceptedToggle ==
    ASSUME TagAssumption, StatusInv, NEW cs \in Commands, ConnectTip(cs),
           NEW c \in Range(cs), c.tag \notin Range(Root)
    PROVE  /\ c \in Command /\ (c.on <=> c.tag \notin Status)
           /\ \A d \in Range(cs) : d.tag = c.tag => d.on = c.on
<1>1. \A d \in Range(cs) : d \in Command /\ d.tag \in Tag /\ d.on \in BOOLEAN
  BY CommandsFacts DEF Command
<1>2. \A t \in Tag : CheckFor(t) \in BOOLEAN
  <2> SUFFICES ASSUME NEW t \in Tag PROVE CheckFor(t) \in BOOLEAN
    OBVIOUS
  <2>1. CASE t \in Tags(undo)
    BY <2>1 DEF CheckFor
  <2>2. CASE t \notin Tags(undo)
    BY <2>2 DEF CheckFor
  <2> QED
    BY <2>1, <2>2
<1>3. \A d \in Range(cs) : CheckFor(d.tag) # d.on
  BY DEF ConnectTip, VerifyChange
<1>4. ASSUME NEW d \in Range(cs), d.tag = c.tag PROVE d.on <=> ~CheckFor(c.tag)
  BY <1>1, <1>2, <1>3, <1>4
<1>5. CheckFor(c.tag) <=> c.tag \in Status
  BY <1>1 DEF StatusInv, StatusExact
<1>6. ASSUME NEW d \in Range(cs), d.tag = c.tag PROVE d.on = c.on
  <2>1. (d.on <=> ~CheckFor(c.tag)) /\ (c.on <=> ~CheckFor(c.tag))
    BY <1>4, <1>6
  <2> QED
    BY <1>1, <2>1
<1>7. c.on <=> c.tag \notin Status
  BY <1>4, <1>5
<1> QED
  BY <1>1, <1>6, <1>7

(* The status of the chain with one more block.                            *)
LEMMA StatusOfAppend ==
    ASSUME TagAssumption, NEW ch \in Seq(Commands), NEW cs \in Commands
    PROVE  LET more == Append(ch, cs)
           IN  /\ more \in Seq(Commands) /\ Len(more) = Len(ch) + 1
               /\ more[Len(ch) + 1] = cs /\ \A k \in 1 .. Len(ch) : more[k] = ch[k]
               /\ \A k \in 0 .. Len(ch) : StatusAfter(more)[k] = StatusAfter(ch)[k]
               /\ StatusAfter(more)[Len(ch) + 1]
                    = Obeyed(StatusAfter(ch)[Len(ch)], cs)[Len(cs)]
<1> DEFINE more == Append(ch, cs)
           n == Len(ch)
<1>1. /\ more \in Seq(Commands) /\ Len(more) = n + 1 /\ n \in Nat
      /\ more[n + 1] = cs /\ \A k \in 1 .. n : more[k] = ch[k]
  OBVIOUS
<1> HIDE DEF more, n
<1>2. \A k \in 0 .. n : StatusAfter(more)[k] = StatusAfter(ch)[k]
  <2>1. n <= Len(more) /\ n <= Len(ch)
    BY <1>1 DEF n
  <2> QED
    BY <1>1, <2>1, StatusOfPrefix
<1>3. StatusAfter(more)[n + 1] = Obeyed(StatusAfter(more)[(n + 1) - 1], more[n + 1])[Len(more[n + 1])]
  <2>1. n + 1 \in 1 .. Len(more)
    BY <1>1
  <2> QED
    BY <1>1, <2>1, StatusLoop
<1>4. (n + 1) - 1 = n /\ n \in 0 .. n
  BY <1>1
<1>5. StatusAfter(more)[n + 1] = Obeyed(StatusAfter(ch)[n], cs)[Len(cs)]
  BY <1>1, <1>2, <1>3, <1>4
<1> QED
  BY <1>1, <1>2, <1>5 DEF more, n

(* The status of the active chain is a set of tags, also after each of its *)
(* blocks.                                                                 *)
LEMMA StatusType ==
    ASSUME TagAssumption, TypeOK
    PROVE  /\ Len(chain) \in Nat /\ chain \in Seq(Commands)
           /\ \A k \in 0 .. Len(chain) : StatusAfter(chain)[k] \in SUBSET Tag
           /\ Status = StatusAfter(chain)[Len(chain)] /\ Status \in SUBSET Tag
<1>1. Len(chain) \in Nat /\ chain \in Seq(Commands)
  BY DEF TypeOK
<1>2. \A k \in 0 .. Len(chain) : StatusAfter(chain)[k] \in SUBSET Tag
  BY <1>1, StatusLoop
<1> QED
  BY <1>1, <1>2 DEF Status

(* ConnectTip.                                                             *)
LEMMA ConnectKeepsStatus ==
    ASSUME TagAssumption, StatusInv, NEW cs \in Commands, ConnectTip(cs)
    PROVE  StatusInv'
<1> DEFINE v == ConnectedViews(cs)[Len(cs)]
           n == Len(chain)
<1>1. v \in View /\ v.undo = {} /\ HoldsOf(v.add, cs)
  BY ConnectedView
<1>2. Flush(v) /\ chain' = Append(chain, cs) /\ db' = db /\ n < MaxHeight
  BY DEF ConnectTip
<1> HIDE DEF v
<1>3. /\ n \in Nat /\ chain \in Seq(Commands) /\ Status = StatusAfter(chain)[n]
      /\ Status \in SUBSET Tag
  BY StatusType DEF StatusInv
<1>4. /\ chain' \in Seq(Commands) /\ Len(chain') = n + 1
      /\ chain'[n + 1] = cs /\ \A k \in 1 .. n : chain'[k] = chain[k]
      /\ \A k \in 0 .. n : StatusAfter(chain')[k] = StatusAfter(chain)[k]
      /\ StatusAfter(chain')[n + 1] = Obeyed(Status, cs)[Len(cs)]
  BY <1>2, <1>3, StatusOfAppend
<1>5. Status' = Obeyed(Status, cs)[Len(cs)]
  BY <1>4 DEF Status
<1>6. OneVerdict'
  BY <1>2, FlushKeepsApart DEF StatusInv
<1>7. LruBacked' /\ lru' \subseteq Tag
  BY DEF StatusInv, ConnectTip, CachedBy, LruBacked, TypeOK
<1>8. TypeOK'
  <2>1. OnePerTag(v.add) /\ OnePerTag(v.undo)
    BY <1>1 DEF HoldsOf, OnePerTag
  <2>2. /\ add' \subseteq Command /\ undo' \subseteq Command
        /\ OnePerTag(add') /\ OnePerTag(undo') /\ rootAdd' \subseteq Tag
    BY <1>1, <1>2, <2>1, FlushKeepsType DEF StatusInv
  <2>3. Len(chain') <= MaxHeight /\ db' \subseteq Tag
    BY <1>2, <1>3, <1>4 DEF StatusInv, TypeOK, TagAssumption
  <2> QED
    BY <1>4, <1>7, <2>2, <2>3 DEF TypeOK, OnePerTag
<1>9. Toggles'
  <2> SUFFICES ASSUME NEW k \in 1 .. n + 1, NEW c \in Range(chain'[k]), c.tag \notin Range(Root)
               PROVE  c.on <=> c.tag \notin StatusAfter(chain')[k - 1]
    BY <1>4 DEF Toggles
  <2>1. CASE k = n + 1
    <3>1. StatusAfter(chain')[k - 1] = Status
      BY <1>3, <1>4, <2>1
    <3>2. c \in Range(cs)
      BY <1>4, <2>1
    <3> QED
      BY <3>1, <3>2, AcceptedToggle
  <2>2. CASE k \in 1 .. n
    <3>1. k - 1 \in 0 .. n
      BY <1>3, <2>2
    <3>2. c \in Range(chain[k]) /\ StatusAfter(chain')[k - 1] = StatusAfter(chain)[k - 1]
      BY <1>4, <2>2, <3>1
    <3> QED
      BY <2>2, <3>2 DEF StatusInv, Toggles
  <2> QED
    BY <1>3, <2>1, <2>2
<1>10. StatusExact'
  <2> SUFFICES ASSUME NEW t \in Tag, t \notin Range(Root) PROVE CheckFor(t)' <=> t \in Status'
    BY DEF StatusExact
  <2>1. CheckFor(t)' <=> Pending(add', undo', db, t)
    BY <1>2, <1>7, <1>8, CheckForPlainNext DEF TypeOK
  <2>2. Pending(add, undo, db, t) <=> t \in Status
    BY CheckForPlain DEF StatusInv, StatusExact, TypeOK
  <2>3. CASE t \notin Tags(Range(cs))
    <3>1. Pending(add', undo', db, t) <=> Pending(add, undo, db, t)
      BY <1>1, <1>2, <2>3, FlushConnected
    <3>2. t \in Status' <=> t \in Status
      BY <1>3, <1>5, <2>3, ObeyedFacts
    <3> QED
      BY <2>1, <2>2, <3>1, <3>2
  <2>4. CASE t \in Tags(Range(cs))
    <3>1. PICK c \in Range(cs) : c.tag = t
      BY <2>4 DEF Tags
    <3>2. c.on \in BOOLEAN /\ \A d \in Range(cs) : d.tag = t => d.on = c.on
      BY <3>1, AcceptedToggle DEF Command
    <3>3. Pending(add', undo', db, t) <=> c.on = TRUE
      BY <1>1, <1>2, <3>1, <3>2, FlushConnected
    <3>4. t \in Status' <=> c.on
      BY <1>3, <1>5, <3>1, <3>2, ObeyedFacts
    <3> QED
      BY <2>1, <3>2, <3>3, <3>4
  <2> QED
    BY <2>3, <2>4
<1> QED
  BY <1>6, <1>7, <1>8, <1>9, <1>10 DEF StatusInv

(* A sequence without its last element.                                    *)
LEMMA PrefixFacts ==
    ASSUME NEW S, NEW s \in Seq(S), Len(s) # 0
    PROVE  /\ SubSeq(s, 1, Len(s) - 1) \in Seq(S)
           /\ Len(SubSeq(s, 1, Len(s) - 1)) = Len(s) - 1
           /\ \A k \in 1 .. Len(s) - 1 : SubSeq(s, 1, Len(s) - 1)[k] = s[k]
<1> DEFINE n == Len(s) - 1
           t == SubSeq(s, 1, n)
<1>1. n \in Nat /\ n + 1 = Len(s) /\ \A k \in 1 .. n : s[k] \in S
  OBVIOUS
<1>2. t = [k \in 1 .. n |-> s[k]]
  BY <1>1
<1>3. Len(t) = n /\ \A k \in 1 .. n : t[k] = s[k]
  BY <1>1, <1>2
<1>4. t \in Seq(S)
  BY <1>1, <1>2
<1> QED
  BY <1>3, <1>4

(* DisconnectTip.                                                          *)
LEMMA DisconnectKeepsStatus ==
    ASSUME TagAssumption, StatusInv, DisconnectTip
    PROVE  StatusInv'
<1> DEFINE n == Len(chain)
           cs == chain[n]
           v == UndoneViews(cs)[Len(cs)]
           before == StatusAfter(chain)[n - 1]
<1>1. /\ n \in Nat \ {0} /\ chain \in Seq(Commands) /\ cs \in Commands
      /\ Status = StatusAfter(chain)[n] /\ before \in SUBSET Tag
  <2>1. n \in Nat /\ chain \in Seq(Commands) /\ chain # <<>> /\ Status = StatusAfter(chain)[n]
    BY StatusType DEF StatusInv, DisconnectTip
  <2>2. n # 0
    BY <2>1
  <2>3. before \in SUBSET Tag
    BY <2>1, <2>2, StatusType DEF StatusInv
  <2> QED
    BY <2>1, <2>2, <2>3
<1>2. v \in View /\ v.add = {} /\ HoldsOf(v.undo, cs)
  BY <1>1, UndoneView
<1>3. Flush(v) /\ chain' = SubSeq(chain, 1, n - 1) /\ db' = db /\ lru' = lru
  BY DEF DisconnectTip
<1>4. Status = Obeyed(before, cs)[Len(cs)]
  <2>1. n \in 1 .. Len(chain)
    BY <1>1
  <2> QED
    BY <1>1, <2>1, StatusLoop
<1>5. \A c \in Range(cs) : c.tag \notin Range(Root) => (c.on <=> c.tag \notin before)
  BY <1>1 DEF StatusInv, Toggles
<1> HIDE DEF v, cs, before
<1>6. /\ chain' \in Seq(Commands) /\ Len(chain') = n - 1
      /\ \A k \in 1 .. n - 1 : chain'[k] = chain[k]
  BY <1>1, <1>3, PrefixFacts
<1>7. \A k \in 0 .. n - 1 : StatusAfter(chain')[k] = StatusAfter(chain)[k]
  <2>1. n - 1 \in Nat /\ n - 1 <= Len(chain) /\ n - 1 <= Len(chain')
    BY <1>1, <1>6
  <2> QED
    BY <1>1, <1>6, <2>1, StatusOfPrefix
<1>8. Status' = before
  <2>1. n - 1 \in 0 .. n - 1
    BY <1>1
  <2> QED
    BY <1>6, <1>7, <2>1 DEF Status, before
<1>9. OneVerdict'
  BY <1>3, FlushKeepsApart DEF StatusInv
<1>10. LruBacked'
  BY <1>3 DEF StatusInv, LruBacked
<1>11. TypeOK'
  <2>1. OnePerTag(v.add) /\ OnePerTag(v.undo)
    BY <1>2 DEF HoldsOf, OnePerTag
  <2>2. /\ add' \subseteq Command /\ undo' \subseteq Command
        /\ OnePerTag(add') /\ OnePerTag(undo') /\ rootAdd' \subseteq Tag
    BY <1>2, <1>3, <2>1, FlushKeepsType DEF StatusInv
  <2>3. Len(chain') <= MaxHeight /\ db' \subseteq Tag /\ lru' \subseteq Tag
    BY <1>1, <1>3, <1>6 DEF StatusInv, TypeOK, TagAssumption
  <2> QED
    BY <1>6, <2>2, <2>3 DEF TypeOK, OnePerTag
<1>12. Toggles'
  <2> SUFFICES ASSUME NEW k \in 1 .. n - 1, NEW c \in Range(chain'[k]), c.tag \notin Range(Root)
               PROVE  c.on <=> c.tag \notin StatusAfter(chain')[k - 1]
    BY <1>6 DEF Toggles
  <2>1. k - 1 \in 0 .. n - 1 /\ k \in 1 .. n
    BY <1>1
  <2>2. c \in Range(chain[k]) /\ StatusAfter(chain')[k - 1] = StatusAfter(chain)[k - 1]
    BY <1>6, <1>7, <2>1
  <2> QED
    BY <2>1, <2>2 DEF StatusInv, Toggles
<1>13. StatusExact'
  <2> SUFFICES ASSUME NEW t \in Tag, t \notin Range(Root) PROVE CheckFor(t)' <=> t \in Status'
    BY DEF StatusExact
  <2>1. CheckFor(t)' <=> Pending(add', undo', db, t)
    BY <1>3, <1>10, <1>11, CheckForPlainNext DEF TypeOK
  <2>2. Pending(add, undo, db, t) <=> t \in Status
    BY CheckForPlain DEF StatusInv, StatusExact, TypeOK
  <2>3. CASE t \notin Tags(Range(cs))
    <3>1. Pending(add', undo', db, t) <=> Pending(add, undo, db, t)
      BY <1>2, <1>3, <2>3, FlushUndone
    <3>2. t \in Status <=> t \in before
      BY <1>1, <1>4, <2>3, ObeyedFacts
    <3> QED
      BY <1>8, <2>1, <2>2, <3>1, <3>2
  <2>4. CASE t \in Tags(Range(cs))
    <3>1. PICK c \in Range(cs) : c.tag = t
      BY <2>4 DEF Tags
    <3>2. \A d \in Range(cs) : d.on \in BOOLEAN
      BY <1>1, CommandsFacts DEF Command
    <3>3. \A d \in Range(cs) : d.tag = t => (d.on <=> t \notin before)
      BY <1>5
    <3>4. \A d \in Range(cs) : d.tag = t => d.on = c.on
      <4> SUFFICES ASSUME NEW d \in Range(cs), d.tag = t PROVE d.on = c.on
        OBVIOUS
      <4>1. (d.on <=> t \notin before) /\ (c.on <=> t \notin before)
        BY <3>1, <3>3
      <4> QED
        BY <3>2, <4>1
    <3>5. Pending(add', undo', db, t) <=> c.on = FALSE
      <4> HIDE DEF n
      <4>1. \A d \in Range(cs) :
                d.tag = t /\ (\A e \in Range(cs) : e.tag = t => e.on = d.on)
                    => (Pending(add', undo', db, t) <=> d.on = FALSE)
        BY <1>2, <1>3, FlushUndone
      <4> QED
        BY <3>1, <3>4, <4>1
    <3>6. c.on <=> t \notin before
      BY <3>1, <3>3
    <3> QED
      BY <1>8, <2>1, <3>2, <3>5, <3>6
  <2> QED
    BY <2>3, <2>4
<1> QED
  BY <1>9, <1>10, <1>11, <1>12, <1>13 DEF StatusInv

(* The dump of a tag's commands gives it in the database what the lookups  *)
(* answered before it (DumpCacheToDatabase).                               *)
LEMMA DumpedPending ==
    ASSUME TypeOK, OneVerdict, NEW t \in Tag
    PROVE  t \in Dumped(db) <=> Pending(add, undo, db, t)
<1>1. OnePerTag(add) /\ OnePerTag(undo)
  BY DEF TypeOK, OnePerTag
<1>2. \A c \in add \cup undo : c.on = TRUE \/ c.on = FALSE
  BY DEF TypeOK, Command
<1>3. CASE t \in Tags(undo)
  <2>1. PICK c \in undo : c.tag = t
    BY <1>3 DEF Tags
  <2>2. \A d \in undo : d.tag = t => d = c
    BY <1>1, <2>1 DEF OnePerTag
  <2>3. (t \in Switched(undo, TRUE) <=> c.on = TRUE) /\ (t \in Switched(undo, FALSE) <=> c.on = FALSE)
    BY <2>1, <2>2 DEF Switched
  <2> QED
    BY <1>2, <1>3, <2>1, <2>3 DEF Dumped, Pending
<1>4. CASE t \notin Tags(undo)
  <2>1. t \notin Switched(undo, TRUE) /\ t \notin Switched(undo, FALSE)
    BY <1>4 DEF Switched, Tags
  <2>2. CASE t \in Tags(add)
    <3>1. PICK c \in add : c.tag = t
      BY <2>2 DEF Tags
    <3>2. \A d \in add : d.tag = t => d = c
      BY <1>1, <3>1 DEF OnePerTag
    <3>3. (t \in Switched(add, TRUE) <=> c.on = TRUE) /\ (t \in Switched(add, FALSE) <=> c.on = FALSE)
      BY <3>1, <3>2 DEF Switched
    <3> QED
      BY <1>2, <1>4, <2>1, <2>2, <3>1, <3>3 DEF Dumped, Pending
  <2>3. CASE t \notin Tags(add)
    <3>1. t \notin Switched(add, TRUE) /\ t \notin Switched(add, FALSE)
      BY <2>3 DEF Switched, Tags
    <3> QED
      BY <1>4, <2>1, <2>3, <3>1 DEF Dumped, Pending
  <2> QED
    BY <2>2, <2>3
<1> QED
  BY <1>3, <1>4

(* DumpCacheToDatabase, and a restart, which dumps.                        *)
LEMMA DumpKeepsStatus ==
    ASSUME TagAssumption, StatusInv, DumpCacheToDatabase \/ Restart
    PROVE  StatusInv'
<1>1. /\ db' = Dumped(db) /\ chain' = chain
      /\ add' = {} /\ undo' = {} /\ rootAdd' = {}
      /\ lru' = Dumped(lru) \/ lru' = {}
  BY DEF DumpCacheToDatabase, Restart, ClearDirtyCache, DumpedLru
<1>2. Dumped(db) \subseteq Tag
  BY DEF StatusInv, TypeOK, Dumped, Switched, Command
<1>3. Dumped(lru) \subseteq Dumped(db)
  BY DumpKeepsWithin DEF StatusInv, LruBacked
<1>4. LruBacked'
  BY <1>1, <1>3 DEF LruBacked
<1>5. TypeOK'
  BY <1>1, <1>2, <1>4 DEF StatusInv, TypeOK, LruBacked
<1>6. OneVerdict'
  BY <1>1 DEF OneVerdict, Tags
<1>7. Toggles'
  BY <1>1 DEF StatusInv, Toggles
<1>8. StatusExact'
  <2> SUFFICES ASSUME NEW t \in Tag, t \notin Range(Root) PROVE CheckFor(t)' <=> t \in Status'
    BY DEF StatusExact
  <2>1. CheckFor(t)' <=> Pending(add', undo', db', t)
    BY <1>4, <1>5, CheckForPlainNext DEF TypeOK
  <2>2. Pending(add, undo, db, t) <=> t \in Status
    BY CheckForPlain DEF StatusInv, StatusExact, TypeOK
  <2>3. Pending(add', undo', db', t) <=> t \in Dumped(db)
    BY <1>1 DEF Pending, Tags, Switched
  <2>4. t \in Dumped(db) <=> Pending(add, undo, db, t)
    BY DumpedPending DEF StatusInv
  <2>5. Status' = Status
    BY <1>1 DEF Status
  <2> QED
    BY <2>1, <2>2, <2>3, <2>4, <2>5
<1> QED
  BY <1>4, <1>5, <1>6, <1>7, <1>8 DEF StatusInv

(* A lookup, an eviction, or nothing.                                      *)
LEMMA LookupKeepsStatus ==
    ASSUME TagAssumption, StatusInv, UNCHANGED <<chain, add, undo, rootAdd, db>>,
           lru' \subseteq db
    PROVE  StatusInv'
<1>1. LruBacked' /\ TypeOK'
  BY DEF StatusInv, LruBacked, TypeOK
<1>2. OneVerdict'
  BY DEF StatusInv, OneVerdict
<1>3. Toggles'
  BY DEF StatusInv, Toggles
<1>4. StatusExact'
  <2> SUFFICES ASSUME NEW t \in Tag, t \notin Range(Root) PROVE CheckFor(t)' <=> t \in Status'
    BY DEF StatusExact
  <2>1. CheckFor(t)' <=> Pending(add', undo', db', t)
    BY <1>1, CheckForPlainNext DEF TypeOK
  <2>2. Pending(add, undo, db, t) <=> t \in Status
    BY CheckForPlain DEF StatusInv, StatusExact, TypeOK
  <2>3. Status' = Status
    BY DEF Status
  <2> QED
    BY <2>1, <2>2, <2>3
<1> QED
  BY <1>1, <1>2, <1>3, <1>4 DEF StatusInv

(* Every step keeps the invariant.                                         *)
LEMMA StatusInvariance ==
    ASSUME TagAssumption PROVE Spec => []StatusInv
<1>1. Init => StatusInv
  <2> SUFFICES ASSUME Init PROVE StatusInv
    OBVIOUS
  <2>1. TypeOK /\ OneVerdict /\ LruBacked
    BY DEF Init, TypeOK, OneVerdict, LruBacked, TagAssumption, Tags
  <2>2. Toggles
    BY DEF Init, Toggles
  <2>3. StatusExact
    <3> SUFFICES ASSUME NEW t \in Tag, t \notin Range(Root) PROVE CheckFor(t) <=> t \in Status
      BY DEF StatusExact
    <3>1. CheckFor(t) <=> Pending(add, undo, db, t)
      BY <2>1, CheckForPlain DEF TypeOK
    <3>2. ~Pending(add, undo, db, t)
      BY DEF Init, Pending, Tags, Switched
    <3>3. Status = {}
      <4>1. chain \in Seq(Commands) /\ Len(chain) = 0
        BY DEF Init
      <4>2. StatusAfter(chain)[0] = {}
        BY <4>1, StatusLoop
      <4> QED
        BY <4>1, <4>2 DEF Status
    <3> QED
      BY <3>1, <3>2, <3>3
  <2> QED
    BY <2>1, <2>2, <2>3 DEF StatusInv
<1>2. StatusInv /\ [Next]_vars => StatusInv'
  <2> SUFFICES ASSUME StatusInv, [Next]_vars PROVE StatusInv'
    OBVIOUS
  <2>1. ASSUME NEW cs \in Commands, ConnectTip(cs) PROVE StatusInv'
    BY <2>1, ConnectKeepsStatus
  <2>2. CASE DisconnectTip
    BY <2>2, DisconnectKeepsStatus
  <2>3. CASE DumpCacheToDatabase \/ Restart
    BY <2>3, DumpKeepsStatus
  <2>4. ASSUME NEW t \in Tag, Lookup(t) PROVE StatusInv'
    BY <2>4, LookupKeepsStatus DEF Lookup, CachedBy, StatusInv, LruBacked
  <2>5. ASSUME NEW t \in Tag, Evict(t) PROVE StatusInv'
    BY <2>5, LookupKeepsStatus DEF Evict, StatusInv, LruBacked
  <2>6. CASE UNCHANGED vars
    BY <2>6, LookupKeepsStatus DEF vars, StatusInv, LruBacked
  <2> QED
    BY <2>1, <2>2, <2>3, <2>4, <2>5, <2>6 DEF Next
<1> QED
  BY <1>1, <1>2, PTL DEF Spec

(* Every variable keeps its type; the two sets of passets have one command *)
(* for a tag, although Flush merges the sets of a block into them.         *)
THEOREM TypeCorrect ==
    ASSUME TagAssumption PROVE Spec => []TypeOK
<1>1. StatusInv => TypeOK
  BY DEF StatusInv
<1> QED
  BY <1>1, StatusInvariance, PTL

(* Two nodes on one chain agree about every tag that is no root of others: *)
(* whatever blocks were connected and undone, and whenever the caches were *)
(* dumped, evicted or lost in a restart, the lookups answer what the       *)
(* commands of the active chain say, for any tags, blocks and commands     *)
(* (CheckForAddressQualifier, Flush, DumpCacheToDatabase).                 *)
THEOREM StatusIsExact ==
    ASSUME TagAssumption PROVE Spec => []StatusExact
<1>1. StatusInv => StatusExact
  BY DEF StatusInv
<1> QED
  BY <1>1, StatusInvariance, PTL
=============================================================================
