------------------------------- MODULE Merkle -------------------------------
(***************************************************************************)
(* MerkleComputation (consensus/merkle.cpp): the root of the merkle tree   *)
(* of a block, the branch of one transaction and the "mutated" flag, in    *)
(* one pass that keeps one hash per level.  A hash is the pair of what is  *)
(* hashed: two different pairs never collide.                              *)
(***************************************************************************)
EXTENDS Integers, SequencesExt

CONSTANTS Leaf,       \* transaction hashes
          Lists,      \* the lists of transactions that are looked at
          MaxLeaves,  \* bound on their length
          Null

MerkleAssumption ==
    \A l \in Lists : l \in Seq(Leaf) /\ Len(l) \in 1 .. MaxLeaves

VARIABLES leaves,      \* the transactions of the block
          branchpos,   \* the position whose branch is computed
          count,       \* leaves processed
          inner,       \* inner[l + 1]: subtree hash at level l
          matchlevel,  \* level of the hash that depends on the matching leaf
          branch, mutated,
          root         \* Null until the final sweep

vars == <<leaves, branchpos, count, inner, matchlevel, branch, mutated, root>>

Levels == 0 .. MaxLeaves   \* more than are used
Hash(l, r) == <<l, r>>
Bit(n, level) == (n \div 2^level) % 2

Init ==
    /\ leaves \in Lists
    /\ branchpos \in 0 .. Len(leaves) - 1
    /\ count = 0 /\ inner = [l \in Levels |-> Null] /\ matchlevel = -1
    /\ branch = <<>> /\ mutated = FALSE /\ root = Null

-----------------------------------------------------------------------------
(* Combining h with the hash inner[level], on the way up from level, as    *)
(* long as that bit of n is 0.  The loop over the leaves compares the two  *)
(* (check), the final sweep does not.                                      *)
Matched(s, level) ==
    IF s.matchh THEN [s EXCEPT !.branch = Append(@, inner[level])]
    ELSE IF matchlevel = level THEN [s EXCEPT !.branch = Append(@, s.h), !.matchh = TRUE]
    ELSE s

RECURSIVE Up(_, _, _, _)
Up(s, n, level, check) ==
    IF Bit(n, level) = 1 THEN [s EXCEPT !.level = level]
    ELSE LET m == Matched(s, level) IN
         Up([m EXCEPT !.mutated = @ \/ (check /\ inner[level] = s.h),
                      !.h = Hash(inner[level], s.h)], n, level + 1, check)

Start(h, matchh) ==
    [h |-> h, matchh |-> matchh, branch |-> branch, mutated |-> mutated, level |-> 0]

(* One round of the loop over the leaves leaves s behind.                  *)
Processed(s) ==
    /\ count' = count + 1
    /\ inner' = [inner EXCEPT ![s.level] = s.h]
    /\ matchlevel' = IF s.matchh THEN s.level ELSE matchlevel
    /\ branch' = s.branch /\ mutated' = s.mutated
    /\ UNCHANGED <<leaves, branchpos, root>>

ProcessLeaf ==
    /\ count < Len(leaves)
    /\ Processed(Up(Start(leaves[count + 1], count = branchpos), count + 1, 0, TRUE))

(* The final sweep: a hash without a partner is combined with itself.      *)
RECURSIVE Sweep(_, _)
Sweep(s, n) ==
    IF n = 2^s.level THEN s
    ELSE LET b == IF s.matchh THEN [s EXCEPT !.branch = Append(@, s.h)] ELSE s
             m == n + 2^s.level
         IN Sweep(Up([b EXCEPT !.h = Hash(s.h, s.h)], m, s.level + 1, FALSE), m)

(* For the mutant below.                                                   *)
RECURSIVE SweepNoSelf(_, _)
SweepNoSelf(s, n) ==
    IF n = 2^s.level THEN s
    ELSE LET m == n + 2^s.level
         IN SweepNoSelf(Up([s EXCEPT !.h = Hash(s.h, s.h)], m, s.level + 1, FALSE), m)

LowestBit(n) == CHOOSE l \in Levels : Bit(n, l) = 1 /\ \A k \in 0 .. l - 1 : Bit(n, k) = 0

(* What the sweep starts from.                                             *)
Rightmost ==
    LET level == LowestBit(count)
    IN [Start(inner[level], matchlevel = level) EXCEPT !.level = level]

Swept(s) ==
    /\ root' = s.h /\ branch' = s.branch
    /\ UNCHANGED <<leaves, branchpos, count, inner, matchlevel, mutated>>

(* Mutant: a hash without a partner is left out of the branch.             *)
FinishNoSelf ==
    count = Len(leaves) /\ root = Null /\ Swept(SweepNoSelf(Rightmost, count))

(* Mutant: a hash that is combined with itself raises the flag too.        *)
FinishFlagsSelf ==
    /\ count = Len(leaves) /\ root = Null
    /\ root' = Sweep(Rightmost, count).h /\ branch' = Sweep(Rightmost, count).branch
    /\ mutated' = (mutated \/ count # 2^LowestBit(count))
    /\ UNCHANGED <<leaves, branchpos, count, inner, matchlevel>>

Finish ==
    count = Len(leaves) /\ root = Null /\ Swept(Sweep(Rightmost, count))

Next == ProcessLeaf \/ Finish

Spec == Init /\ [][Next]_vars

-----------------------------------------------------------------------------
(* ComputeMerkleRootFromBranch.                                            *)
RECURSIVE RootFromBranch(_, _, _)
RootFromBranch(hash, b, nIndex) ==
    IF b = <<>> THEN hash
    ELSE RootFromBranch(IF nIndex % 2 = 1 THEN Hash(Head(b), hash) ELSE Hash(hash, Head(b)),
                        Tail(b), nIndex \div 2)

(* The definition: level by level, the last hash of an odd level twice.    *)
Pairs(level) ==
    [i \in 1 .. (Len(level) + 1) \div 2 |->
        Hash(level[2 * i - 1], IF 2 * i <= Len(level) THEN level[2 * i] ELSE level[2 * i - 1])]

RECURSIVE MerkleRoot(_)
MerkleRoot(level) == IF Len(level) = 1 THEN level[1] ELSE MerkleRoot(Pairs(level))

(* Every variable has its type.                                            *)
TypeOK ==
    /\ count \in 0 .. Len(leaves) /\ matchlevel \in Levels \cup {-1}
    /\ mutated \in BOOLEAN
    /\ matchlevel = -1 <=> count <= branchpos

(* The pass computes the root of the tree.                                 *)
RootExact == root # Null => root = MerkleRoot(leaves)

(* The branch proves that the transaction is in the tree.                  *)
BranchProves ==
    root # Null => RootFromBranch(leaves[branchpos + 1], branch, branchpos) = root

(* All lists of transactions with the root: the pairs of a level are taken *)
(* apart, and where the last one pairs a hash with itself that hash may    *)
(* have been alone.                                                        *)
TakenApart(level) ==
    LET n == Len(level)
        full == [i \in 1 .. 2 * n |-> level[(i + 1) \div 2][2 - (i % 2)]]
    IN {full} \cup (IF n > 1 /\ level[n][1] = level[n][2] THEN {Front(full)} ELSE {})

RECURSIVE Below(_)
Below(level) ==
    IF level[1] \in Leaf THEN {level} ELSE UNION {Below(l) : l \in TakenApart(level)}

(* Two lists of transactions with the same root: a longer one repeats the  *)
(* end of a shorter one, and is then flagged as mutated; a list whose      *)
(* transactions differ from each other is not flagged, although the hashes *)
(* at the end of its odd levels are paired with themselves.  A block that  *)
(* was changed in this way is so never mistaken for the one that was       *)
(* mined, nor the one that was mined for a changed one.                    *)
Distinct(s) == \A i, j \in DOMAIN s : s[i] = s[j] => i = j

MutationFlagged ==
    root # Null =>
        /\ Distinct(leaves) => ~mutated
        /\ (\E other \in Below(<<root>>) : Len(other) < Len(leaves)) => mutated
=============================================================================
