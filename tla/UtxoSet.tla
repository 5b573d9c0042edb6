------------------------------- MODULE UtxoSet -------------------------------
(***************************************************************************)
(* What the stack of coin views promises its callers, with no caches in    *)
(* it: three versions of the UTXO set, each tagged with the block it is    *)
(* the state of.  "durable" is on disk, "committed" is the state of the    *)
(* active chain, "pending" is the state a block being connected or         *)
(* disconnected is building.  A pending state replaces the committed one   *)
(* as a whole or is forgotten as a whole, and so does a committed state    *)
(* the durable one.                                                        *)
(***************************************************************************)
CONSTANTS Outpoint, Coin, Unspendable, Spent, Block

VARIABLES durable, committed, pending, open

vars == <<durable, committed, pending, open>>

State == [utxo: [Outpoint -> Coin \cup {Spent}], best: Block]

(* Every variable has its type.                                            *)
TypeOK ==
    /\ durable \in State
    /\ committed \in State
    /\ pending \in State
    /\ open \in BOOLEAN

Init ==
    /\ durable \in State
    /\ committed = durable
    /\ pending = durable
    /\ open = FALSE

Begin ==
    /\ ~open
    /\ open' = TRUE
    /\ pending' = committed
    /\ UNCHANGED <<durable, committed>>

Add(o, c) ==
    /\ open
    /\ pending' = IF c \in Unspendable THEN pending
                  ELSE [pending EXCEPT !.utxo[o] = c]
    /\ UNCHANGED <<durable, committed, open>>

Spend(o) ==
    /\ open
    /\ pending' = [pending EXCEPT !.utxo[o] = Spent]
    /\ UNCHANGED <<durable, committed, open>>

SetBest(b) ==
    /\ open
    /\ pending' = [pending EXCEPT !.best = b]
    /\ UNCHANGED <<durable, committed, open>>

Commit ==
    /\ open
    /\ open' = FALSE
    /\ committed' = pending
    /\ UNCHANGED <<durable, pending>>

Abandon ==
    /\ open
    /\ open' = FALSE
    /\ pending' = committed
    /\ UNCHANGED <<durable, committed>>

Sync ==
    /\ ~open
    /\ durable' = committed
    /\ UNCHANGED <<committed, pending, open>>

Next ==
    \/ Begin
    \/ \E o \in Outpoint : (\E c \in Coin : Add(o, c)) \/ Spend(o)
    \/ \E b \in Block : SetBest(b)
    \/ Commit
    \/ Abandon
    \/ Sync

Spec == Init /\ [][Next]_vars
=============================================================================
