----------------------------- MODULE VersionBits -----------------------------
(***************************************************************************)
(* The state of a soft fork by version bits (versionbits.cpp), computed    *)
(* once per period and kept in a cache by block, and the flag that records *)
(* once and for all that the deployment is active (AreAssetsDeployed).     *)
(*                                                                         *)
(* A block is the sequence of what was mined up to it: whether a block     *)
(* signals, and its median time past.  Two blocks of different branches    *)
(* are thus different keys of the cache, as their CBlockIndex is.          *)
(***************************************************************************)
EXTENDS Integers, FiniteSets, Sequences, TLC

CONSTANTS nPeriod, nThreshold, nTimeStart, nTimeTimeout,
          MaxHeight,   \* bound on the blocks of a chain
          MaxTime,     \* bound on the median time past
          MaxReorgs    \* bound on the disconnected blocks

VARIABLES chain,    \* the active chain, and by that its tip
          cache,    \* ThresholdConditionCache; the key <<>> is nullptr
          deployed, \* fAssetsIsActive
          reorgs    \* blocks disconnected so far

vars == <<chain, cache, deployed, reorgs>>

MinedBlock == [signals: BOOLEAN, time: 0 .. MaxTime]

Init ==
    /\ chain = <<[signals |-> FALSE, time |-> 0]>>
    /\ cache = <<>> /\ deployed = FALSE /\ reorgs = 0

-----------------------------------------------------------------------------
nHeight(b) == Len(b) - 1
GetAncestor(b, h) == SubSeq(b, 1, h + 1)   \* nullptr, the <<>>, for h = -1
GetMedianTimePast(b) == b[Len(b)].time

(* The last block of the previous period.                                  *)
PeriodParent(b) ==
    IF b = <<>> THEN <<>>
    ELSE GetAncestor(b, nHeight(b) - ((nHeight(b) + 1) % nPeriod))

Count(b) ==
    Cardinality({i \in Len(b) - nPeriod + 1 .. Len(b) : b[i].signals})

(* One round of the loop forward: the state after the period that b ends.  *)
NextState(state, b) ==
    LET t == GetMedianTimePast(b) IN
    CASE state \in {"DEFINED", "STARTED"} /\ t >= nTimeTimeout -> "FAILED"
      [] state = "DEFINED" /\ nTimeStart <= t /\ t < nTimeTimeout -> "STARTED"
      [] state = "STARTED" /\ t < nTimeTimeout /\ Count(b) >= nThreshold -> "LOCKED_IN"
      [] state = "LOCKED_IN" -> "ACTIVE"
      [] OTHER -> state

(* The walk back, to a block whose state is in the cache or is known to be *)
(* DEFINED, and the walk forward, which fills the cache.                   *)
RECURSIVE Filled(_, _)
Filled(c, b) ==
    IF b \in DOMAIN c THEN c
    ELSE IF b = <<>> \/ GetMedianTimePast(b) < nTimeStart THEN (b :> "DEFINED") @@ c
    ELSE LET prev == GetAncestor(b, nHeight(b) - nPeriod)
             d == Filled(c, prev)
         IN (b :> NextState(d[prev], b)) @@ d

(* Mutant: the state of another block of the same height is taken.         *)
CacheAfterByHeight(c, b) ==
    LET p == PeriodParent(b)
        same == {k \in DOMAIN c : Len(k) = Len(p)}
    IN IF same # {} THEN (p :> c[CHOOSE k \in same : TRUE]) @@ c ELSE Filled(c, p)

(* GetStateFor: the cache it leaves, and the state it returns.             *)
CacheAfter(c, b) == Filled(c, PeriodParent(b))
GetStateFor(c, b) == CacheAfter(c, b)[PeriodParent(b)]

(* GetStateSinceHeightFor: back over the periods in the same state, up to  *)
(* the first whose parent is nullptr.                                      *)
RECURSIVE SinceWalk(_, _, _)
SinceWalk(c, b, state) ==
    LET prev == GetAncestor(b, nHeight(b) - nPeriod) IN
    IF prev # <<>> /\ GetStateFor(c, prev) = state THEN SinceWalk(c, prev, state)
    ELSE nHeight(b) + 1

GetStateSinceHeightFor(c, b) ==
    IF GetStateFor(c, b) = "DEFINED" THEN 0
    ELSE SinceWalk(c, PeriodParent(b), GetStateFor(c, b))

(* GetStateStatisticsFor, asked for in state STARTED: can the period still *)
(* reach the threshold?                                                    *)
Elapsed(b) == nHeight(b) - nHeight(PeriodParent(b))
Signalled(b) == Cardinality({i \in Len(b) - Elapsed(b) + 1 .. Len(b) : b[i].signals})

Possible(b) == nPeriod - nThreshold >= Elapsed(b) - Signalled(b)

-----------------------------------------------------------------------------
(* AreAssetsDeployed, which every check of a transaction or header calls.  *)
AreAssetsDeployed ==
    /\ ~deployed
    /\ cache' = CacheAfter(cache, chain)
    /\ deployed' = (GetStateFor(cache, chain) = "ACTIVE")
    /\ UNCHANGED <<chain, reorgs>>

(* ComputeBlockVersion, or a query by RPC, for a block of the chain.       *)
VersionBitsState(h) ==
    /\ h \in -1 .. nHeight(chain)
    /\ cache' = CacheAfter(cache, GetAncestor(chain, h))
    /\ UNCHANGED <<chain, deployed, reorgs>>

ConnectTip(b) ==
    /\ nHeight(chain) < MaxHeight
    /\ GetMedianTimePast(chain) <= b.time
    /\ chain' = Append(chain, b) /\ UNCHANGED <<cache, deployed, reorgs>>

DisconnectTip ==
    /\ nHeight(chain) > 0 /\ reorgs < MaxReorgs
    /\ chain' = SubSeq(chain, 1, Len(chain) - 1) /\ reorgs' = reorgs + 1
    /\ UNCHANGED <<cache, deployed>>

Next ==
    \/ AreAssetsDeployed \/ DisconnectTip
    \/ \E h \in -1 .. MaxHeight : VersionBitsState(h)
    \/ \E b \in MinedBlock : ConnectTip(b)

Spec == Init /\ [][Next]_vars

-----------------------------------------------------------------------------
States == {"DEFINED", "STARTED", "LOCKED_IN", "ACTIVE", "FAILED"}

(* Every variable has its type.                                            *)
TypeOK ==
    /\ Len(chain) \in 1 .. MaxHeight + 1
    /\ \A k \in DOMAIN cache : cache[k] \in States /\ Len(k) % nPeriod = 0
    /\ deployed \in BOOLEAN

(* The state after the period that b ends, read off the whole chain: the   *)
(* first period that ends at the start time starts the count, a later one  *)
(* with enough signals locks in, unless the timeout comes first.           *)
StateOf(b) ==
    LET n == Len(b) \div nPeriod
        End(i) == SubSeq(b, 1, i * nPeriod)
        Time(i) == GetMedianTimePast(End(i))
        Lock(i) == /\ i \in 2 .. n /\ Time(i - 1) >= nTimeStart
                   /\ Time(i) < nTimeTimeout /\ Count(End(i)) >= nThreshold
    IN CASE \E i \in 1 .. n - 1 : Lock(i) -> "ACTIVE"
         [] Lock(n) /\ ~\E i \in 1 .. n - 1 : Lock(i) -> "LOCKED_IN"
         [] n > 0 /\ Time(n) >= nTimeTimeout /\ ~\E i \in 1 .. n : Lock(i) -> "FAILED"
         [] n > 0 /\ Time(n) \in nTimeStart .. nTimeTimeout - 1
               /\ ~\E i \in 1 .. n : Lock(i) -> "STARTED"
         [] OTHER -> "DEFINED"

(* Whatever was asked before, and on whichever branch, the cache holds for *)
(* every block the state that the rules give to its chain.                 *)
CacheExact == \A k \in DOMAIN cache : cache[k] = StateOf(k)

(* The height that GetStateSinceHeightFor returns is the first from which  *)
(* on every block up to the next one has the state.                        *)
SinceExact ==
    PeriodParent(chain) \in DOMAIN cache =>
    LET since == GetStateSinceHeightFor(cache, chain)
        Has(h) == StateOf(PeriodParent(GetAncestor(chain, h - 1))) = StateOf(PeriodParent(chain))
    IN /\ \A h \in since .. nHeight(chain) + 1 : Has(h)
       /\ since > 0 => ~Has(since - 1)

(* The statistics are asked for while STARTED.  Then the period has a      *)
(* parent, which they dereference; and a period that locked in was never   *)
(* reported as one that no longer could.                                   *)
StatsSound ==
    \A h \in 0 .. nHeight(chain) :
        LET b == GetAncestor(chain, h)
            end == nHeight(PeriodParent(b)) + nPeriod
        IN StateOf(PeriodParent(b)) = "STARTED" =>
              /\ PeriodParent(b) # <<>>
              /\ ~Possible(b) /\ end <= nHeight(chain) =>
                    StateOf(GetAncestor(chain, end)) # "LOCKED_IN"

=============================================================================
