------------------------------ MODULE MCTxPool ------------------------------
(***************************************************************************)
(* Two transactions that spend the same coin, a child of each, both of     *)
(* which spend another coin too, and one that spends from both children.   *)
(* Blocks that confirm one side, the other, a child alone, and one of the  *)
(* transactions for the second time.                                       *)
(***************************************************************************)
EXTENDS TxPool

CONSTANTS t1, t2, c1, c2, d, x, y, b1, b2, b3, b4

Inputs ==
    [t \in Tx |-> CASE t = t1 -> {x} [] t = t2 -> {x}
                    [] t = c1 -> {t1, y} [] t = c2 -> {t2, y}
                    [] t = d -> {c1, c2}]

Txns == [b \in Block |-> CASE b = b1 -> <<t1>> [] b = b2 -> <<t2, c2>>
                           [] b = b3 -> <<c1>> [] b = b4 -> <<t1>>]
=============================================================================
