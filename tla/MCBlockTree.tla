---------------------------- MODULE MCBlockTree -----------------------------
(* BlockTree on a tree with two branches, a1 a2 and b1 b2 b3 b4, and c2    *)
(* beside a2.  Every block has one unit of work, the pointers are ordered  *)
(* against the order of the heights in one branch.                         *)
EXTENDS BlockTree

CONSTANTS g, a1, a2, b1, b2, b3, b4, c2, t1, t2

Tree == (g :> Null) @@ (a1 :> g) @@ (a2 :> a1) @@ (b1 :> g) @@ (b2 :> b1)
        @@ (b3 :> b2) @@ (b4 :> b3) @@ (c2 :> a1)
Pointer == (g :> 0) @@ (b2 :> 1) @@ (a1 :> 2) @@ (b1 :> 3) @@ (a2 :> 4)
           @@ (b3 :> 5) @@ (c2 :> 6) @@ (b4 :> 7)

MCParent == [b \in Block |-> Tree[b]]
MCAddress == [b \in Block |-> Pointer[b]]
MCWork == [b \in Block |-> Len(Chain[b])]
=============================================================================
