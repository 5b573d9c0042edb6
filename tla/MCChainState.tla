---------------------------- MODULE MCChainState ----------------------------
(***************************************************************************)
(* ChainState on a small tree of blocks: after m, which creates the coin   *)
(* at o1, either a2, which spends it through o2 into o3, or b2 and b3,     *)
(* where b3 holds the same first transaction as a2 at another height.  x3  *)
(* extends b2 with a spend of a coin that is not there.                    *)
(***************************************************************************)
EXTENDS ChainState, TLC

CONSTANTS o1, o2, o3, g, m, a2, b2, b3, x3

MCOutpoint == {o1, o2, o3}
MCCoin == 0 .. 3
MCSize == [c \in MCCoin |-> 1]
MCBlock == {g, m, a2, b2, b3, x3}
MCParent == (g :> Null) @@ (m :> g) @@ (a2 :> m) @@ (b2 :> m) @@ (b3 :> b2)
            @@ (x3 :> b2)

MCHeight == (g :> 0) @@ (m :> 1) @@ (a2 :> 2) @@ (b2 :> 2) @@ (b3 :> 3) @@ (x3 :> 3)

Coinbase(outs) == [vin |-> {}, vout |-> outs]
Spending(ins, outs) == [vin |-> ins, vout |-> outs]
T == Spending({o1}, {o2})

MCVtx ==
    (g :> <<Coinbase({})>>) @@ (m :> <<Coinbase({o1})>>)
    @@ (a2 :> <<Coinbase({}), T, Spending({o2}, {o3})>>)
    @@ (b2 :> <<Coinbase({})>>)
    @@ (b3 :> <<Coinbase({}), T>>)
    @@ (x3 :> <<Coinbase({}), Spending({o2}, {o3})>>)

(* Without b3 and x3, where more can be lost.                              *)
SmallBlock == {g, m, a2, b2}
SmallParent == [b \in SmallBlock |-> MCParent[b]]
SmallHeight == [b \in SmallBlock |-> MCHeight[b]]
SmallVtx == [b \in SmallBlock |-> MCVtx[b]]

(* Two branches of one block each: m and, in its place, b2 with a coin of  *)
(* its own.                                                                *)
ForkBlock == {g, m, b2}
ForkParent == (g :> Null) @@ (m :> g) @@ (b2 :> g)
ForkHeight == (g :> 0) @@ (m :> 1) @@ (b2 :> 1)
ForkVtx == (g :> <<Coinbase({})>>) @@ (m :> <<Coinbase({o1})>>)
           @@ (b2 :> <<Coinbase({o2})>>)
=============================================================================
