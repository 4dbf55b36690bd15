------------------------------- MODULE MCSupply -------------------------------
(***************************************************************************)
(* The life of a contract on a machine word that holds 0..4: every genesis *)
(* and every operation whose totals fit in it, with every amount they can  *)
(* declare, so that the sums of the rules wrap; and a wallet that issues,  *)
(* builds on what it holds, with outputs that repeat, miss a seal, give    *)
(* two or mix classes, and anchors the result in trees of up to four       *)
(* leaves under every cofactor of a three-bit word.                        *)
(***************************************************************************)
EXTENDS ContractLife

MCConceal == [s \in GraphSeal |-> 10 - s]

Allocations(n) == UNION {kSubset(k, [seal : GraphSeal, amount : Amount]) : k \in 0 .. n}

MCSpecs == {[text |-> TRUE, allocations |-> a, rights |-> r, url |-> TRUE] :
               a \in Allocations(2), r \in Allocations(1)}
           \cup [text : {FALSE}, allocations : Allocations(1), rights : {{}}, url : {FALSE}]

Output(type, amount, secret, revealed) ==
    [type |-> type, class |-> "fungible", amount |-> amount,
     secret |-> secret, revealed |-> revealed]

Good == {Output(t, n, 0, 3) : t \in AssignmentTypes, n \in 1 .. 2} \cup
        {Output(t, n, 6, 0) : t \in AssignmentTypes, n \in 1 .. 2}
Odd == {Output(Asset, 1, 8, 0), Output(Asset, 1, 0, 0), Output(Asset, 1, 6, 3),
        [Output(Asset, 1, 6, 0) EXCEPT !.class = "structured"],
        [Output(Asset, 1, 6, 0) EXCEPT !.class = "declarative"]}

MCOutputLists == UNION {[1 .. n -> Good \cup Odd] : n \in 1 .. 2} \cup
                 [1 .. 3 -> {Output(Asset, 1, 0, 3), Output(Asset, 1, 6, 0)}]
===============================================================================
