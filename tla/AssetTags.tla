------------------------------ MODULE AssetTags ------------------------------
(***************************************************************************)
(* The status flags of restricted assets (assets.cpp): which addresses     *)
(* have a qualifier, which are frozen for an asset, and which assets are   *)
(* frozen altogether.  The three are kept in the same way: commands of the *)
(* blocks gather in two sets of passets, one for blocks connected and one  *)
(* for blocks undone, until a dump writes them to the database, in front   *)
(* of which there is a least-recently-used cache.                          *)
(*                                                                         *)
(* A tag stands for a pair of qualifier and address, of restricted asset   *)
(* and address, or for a restricted asset.  A qualifier may have           *)
(* sub-qualifiers (#ROOT/#SUB): an address with one of them counts as      *)
(* having the root, too.                                                   *)
(***************************************************************************)
EXTENDS Naturals, Sequences, Functions

CONSTANTS Tag, Null,
          Root,         \* the root of a sub-qualifier at the same address
          MaxHeight,    \* bound on the blocks above the first
          MaxCommands   \* bound on the commands of a block

TagAssumption ==
    /\ Null \notin Tag
    /\ Root \in [Tag -> Tag \cup {Null}]
    /\ \A t \in Tag : Root[t] # Null => Root[Root[t]] = Null
    /\ MaxHeight \in Nat /\ MaxCommands \in Nat

VARIABLES
    chain,     \* the commands of each block of the active chain
    add,       \* passets->setNew...ToAdd, commands of connected blocks
    undo,      \* passets->setNew...ToRemove, commands of undone blocks
    rootAdd,   \* the entries of passets->mapRootQualifierAddressesAdd
    lru,       \* passetsQualifierCache and its like
    db         \* prestricteddb

vars == <<chain, add, undo, rootAdd, lru, db>>

(* flag: ADD_QUALIFIER, FREEZE_ADDRESS or GLOBAL_FREEZE if on.             *)
Command == [tag: Tag, on: BOOLEAN]

Tags(S) == {c.tag : c \in S}
Without(S, T) == {c \in S : c.tag \notin T}
Switched(S, on) == {c.tag : c \in {d \in S : d.on = on}}

(* The command sets are ordered by tag alone: one command for each.        *)
Insert(S, c) == Without(S, {c.tag}) \cup {c}

Init ==
    /\ chain = <<>>
    /\ add = {} /\ undo = {} /\ rootAdd = {}
    /\ lru = {} /\ db = {}

-----------------------------------------------------------------------------
(***************************************************************************)
(* CheckForAddressQualifier, -Restriction and CheckForGlobalRestriction as *)
(* blocks are checked: only passets and the database are asked, never the  *)
(* cache of the block itself (fSkipTempCache).                             *)
(***************************************************************************)
SubAdded(t) == \E s \in rootAdd : Root[s] = t

CheckForAddressRootQualifier(t) == \E s \in db : s = t \/ Root[s] = t

ReadsDatabase(t) == t \notin Tags(undo) \cup Tags(add) /\ ~SubAdded(t)

CheckFor(t) ==
    IF t \in Tags(undo) THEN t \in Switched(undo, FALSE)
    ELSE \/ t \in Switched(add, TRUE)
         \/ SubAdded(t)
         \/ ReadsDatabase(t) /\ (t \in lru \/ CheckForAddressRootQualifier(t))

(* What was found under its own name in the database is cached.            *)
CachedBy(T) == lru \cup {t \in T \cap db : ReadsDatabase(t)}

(* Mutant: a command need not change anything.                             *)
VerifyChangeAny(c) == TRUE

(* VerifyQualifierChange and its like: a command must change the status.   *)
VerifyChange(c) == CheckFor(c.tag) # c.on

-----------------------------------------------------------------------------
(***************************************************************************)
(* The cache of a block that is connected or undone.                       *)
(***************************************************************************)
EmptyView == [add |-> {}, undo |-> {}, rootAdd |-> {}, rootRemove |-> {}]

SubOf(t) == IF Root[t] # Null THEN {t} ELSE {}

WithSub(v, t, on) ==
    IF on
    THEN [v EXCEPT !.rootAdd = @ \cup SubOf(t), !.rootRemove = @ \ SubOf(t)]
    ELSE [v EXCEPT !.rootAdd = @ \ SubOf(t), !.rootRemove = @ \cup SubOf(t)]

(* AddQualifierAddress, AddRestrictedAddress, AddGlobalRestricted.         *)
AddCommand(v, c) ==
    [WithSub(v, c.tag, c.on) EXCEPT !.add  = Insert(@, c),
                                    !.undo = Without(@, {c.tag})]

(* RemoveQualifierAddress, RemoveRestrictedAddress, RemoveGlobalRestricted.*)
RemoveCommand(v, c) ==
    [WithSub(v, c.tag, ~c.on) EXCEPT !.add  = Without(@, {c.tag}),
                                     !.undo = Insert(@, c)]

(* The view after each command of a block, and after each one undone, the  *)
(* transactions in reverse.                                                *)
ConnectedViews(commands) ==
    LET after[n \in 0 .. Len(commands)] ==
            IF n = 0 THEN EmptyView
            ELSE AddCommand(after[n - 1], commands[n])
    IN  after

UndoneViews(commands) ==
    LET after[n \in 0 .. Len(commands)] ==
            IF n = 0 THEN EmptyView
            ELSE RemoveCommand(after[n - 1], commands[Len(commands) + 1 - n])
    IN  after

(***************************************************************************)
(* Flush into passets.  What a view takes away from its map of roots is    *)
(* inserted into the map of additions like what it adds.                   *)
(***************************************************************************)
(* Mutant: a command outlives its undoing.                                 *)
FlushedAddKept(v) == Without(add, Tags(v.add)) \cup v.add

FlushedAdd(v) == Without(Without(add, Tags(v.add)) \cup v.add, Tags(v.undo))

FlushedUndo(v) == Without(undo, Tags(v.add) \cup Tags(v.undo)) \cup v.undo

Flush(v) ==
    /\ add' = FlushedAdd(v)
    /\ undo' = FlushedUndo(v)
    /\ rootAdd' = rootAdd \cup v.rootAdd \cup v.rootRemove

(* ConnectTip with a block of these commands, each in a transaction of its *)
(* own.  A block with a command that changes nothing is refused, which     *)
(* leaves no more than a lookup does.                                      *)
ConnectTip(commands) ==
    /\ Len(chain) < MaxHeight
    /\ \A c \in Range(commands) : VerifyChange(c)
    /\ Flush(ConnectedViews(commands)[Len(commands)])
    /\ chain' = Append(chain, commands)
    /\ lru' = CachedBy(Tags(Range(commands)))
    /\ UNCHANGED db

DisconnectTip ==
    /\ chain # <<>>
    /\ LET commands == chain[Len(chain)]
       IN  Flush(UndoneViews(commands)[Len(commands)])
    /\ chain' = SubSeq(chain, 1, Len(chain) - 1)
    /\ UNCHANGED <<lru, db>>

-----------------------------------------------------------------------------
(***************************************************************************)
(* DumpCacheToDatabase writes the commands, then those undone, to the      *)
(* database and to the cache in front of it, and forgets them.             *)
(***************************************************************************)
Dumped(S) ==
    LET added == (S \cup Switched(add, TRUE)) \ Switched(add, FALSE)
    IN  (added \cup Switched(undo, FALSE)) \ Switched(undo, TRUE)

DumpedLru(S) == Dumped(S)

ClearDirtyCache == add' = {} /\ undo' = {} /\ rootAdd' = {}

DumpCacheToDatabase ==
    /\ db' = Dumped(db)
    /\ lru' = DumpedLru(lru)
    /\ ClearDirtyCache
    /\ UNCHANGED chain

(* A shutdown, which dumps, and the start after it.                        *)
Restart ==
    /\ db' = Dumped(db)
    /\ lru' = {}
    /\ ClearDirtyCache
    /\ UNCHANGED chain

(* A lookup for a transfer, the memory pool, the wallet or RPC.            *)
Lookup(t) ==
    /\ lru' = CachedBy({t})
    /\ UNCHANGED <<chain, add, undo, rootAdd, db>>

(* A Put for a tag of other assets and addresses displaces this one.       *)
Evict(t) ==
    /\ lru' = lru \ {t}
    /\ UNCHANGED <<chain, add, undo, rootAdd, db>>

Commands == UNION {[1 .. n -> Command] : n \in 1 .. MaxCommands}

Next ==
    \/ \E commands \in Commands : ConnectTip(commands)
    \/ DisconnectTip
    \/ DumpCacheToDatabase
    \/ Restart
    \/ \E t \in Tag : Lookup(t) \/ Evict(t)

Spec == Init /\ [][Next]_vars

-----------------------------------------------------------------------------
(***************************************************************************)
(* Properties.                                                             *)
(***************************************************************************)

(* What the active chain says, with no caches: its commands in order.      *)
Obey(S, c) == IF c.on THEN S \cup {c.tag} ELSE S \ {c.tag}

Obeyed(S, commands) ==
    LET after[n \in 0 .. Len(commands)] ==
            IF n = 0 THEN S ELSE Obey(after[n - 1], commands[n])
    IN  after

StatusAfter(blocks) ==
    LET after[n \in 0 .. Len(blocks)] ==
            IF n = 0 THEN {}
            ELSE Obeyed(after[n - 1], blocks[n])[Len(blocks[n])]
    IN  after

Status == StatusAfter(chain)[Len(chain)]

(* Every variable has its type; a command set has one command for a tag.   *)
TypeOK ==
    /\ chain \in Seq(Commands) /\ Len(chain) <= MaxHeight
    /\ add \subseteq Command /\ undo \subseteq Command
    /\ \A c, d \in add : c.tag = d.tag => c = d
    /\ \A c, d \in undo : c.tag = d.tag => c = d
    /\ rootAdd \subseteq Tag /\ lru \subseteq Tag /\ db \subseteq Tag

(* Whatever blocks were connected and undone, and whenever the caches were *)
(* dumped or evicted in between, a tag that is no root of others has the   *)
(* status the active chain gives it: two nodes on one chain agree.         *)
StatusExact ==
    \A t \in Tag : t \notin Range(Root) => (CheckFor(t) <=> t \in Status)

(* No tag is both in the set of commands and in that of undone ones: the   *)
(* lookups ask the second first and would not see a later command.         *)
OneVerdict == Tags(add) \cap Tags(undo) = {}

(* The least-recently-used cache has only what the database has.           *)
LruBacked == lru \subseteq db

(* An address has a root qualifier exactly if it was given the root itself *)
(* or one of its sub-qualifiers (CheckForAddressQualifier).                *)
RootExact ==
    \A t \in Tag : CheckFor(t) <=> \E s \in Status : s = t \/ Root[s] = t
=============================================================================
