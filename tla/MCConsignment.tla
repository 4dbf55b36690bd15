---------------------------- MODULE MCConsignment ----------------------------
(***************************************************************************)
(* A small contract for the runs of Validator: an IFA genesis with three   *)
(* allocations (two of them on the same output), a payment, a rival that   *)
(* spends the same allocation, a payment that joins two allocations, an    *)
(* inflation, a burn, and a forgery that pays so much that the sum of its  *)
(* outputs wraps to what it consumes.                                      *)
(***************************************************************************)
EXTENDS Integers, Sequences

CONSTANTS WitnessTx, NoBundle, Tx

Out(kind, amount, tx, vout) == [kind |-> kind, amount |-> amount,
                                seal |-> [tx |-> tx, vout |-> vout]]
Asset(amount, tx, vout) == Out("asset", amount, tx, vout)
Right(amount, tx, vout) == Out("inflation", amount, tx, vout)
R(op, no) == [op |-> op, no |-> no]
Meta(x, y) == [asset |-> x, inflation |-> y]
Oper(type, inputs, outputs, meta) ==
    [type |-> type, inputs |-> inputs, outputs |-> outputs, meta |-> meta, signed |-> FALSE]
Transfer(inputs, outputs) == Oper("transfer", inputs, outputs, Meta(0, 0))

MCOp == {"gen", "pay", "rival", "join", "forge", "mint", "move", "burn"}
MCOperation == [op \in MCOp |->
    CASE op = "gen"   -> Oper("genesis", {},
                              <<Asset(2, "fund", 0), Asset(1, "fund", 1), Right(1, "fund", 1)>>,
                              Meta(3, 4))
      [] op = "pay"   -> Transfer({R("gen", 1)}, <<Asset(1, WitnessTx, 0), Asset(1, WitnessTx, 1)>>)
      [] op = "rival" -> Transfer({R("gen", 1)}, <<Asset(1, WitnessTx, 0), Asset(1, WitnessTx, 1)>>)
      [] op = "join"  -> Transfer({R("pay", 1), R("gen", 2)}, <<Asset(2, WitnessTx, 0)>>)
      [] op = "forge" -> Transfer({R("gen", 2)}, <<Asset(5, WitnessTx, 0), Asset(2, WitnessTx, 1)>>)
      [] op = "mint"  -> Oper("inflate", {R("gen", 3)}, <<Asset(1, WitnessTx, 0)>>, Meta(1, 0))
      [] op = "move"  -> Transfer({R("gen", 2)}, <<Asset(1, WitnessTx, 1)>>)
      [] op = "burn"  -> Oper("burn", {R("pay", 2)}, <<>>, Meta(1, 0))]

MCBundleId == {"bPay", "bRival", "bJoin", "bForge", "bBoth", "bBurn", "bLoose"}
MCInputMap == [b \in MCBundleId |->
    CASE b = "bPay"   -> [r \in {R("gen", 1)} |-> "pay"]
      [] b = "bRival" -> [r \in {R("gen", 1)} |-> "rival"]
      [] b = "bJoin"  -> [r \in {R("pay", 1), R("gen", 2)} |-> "join"]
      [] b = "bForge" -> [r \in {R("gen", 2)} |-> "forge"]
      [] b = "bBoth"  -> [r \in {R("gen", 2), R("gen", 3)} |->
                             IF r = R("gen", 2) THEN "move" ELSE "mint"]
      [] b = "bBurn"  -> [r \in {R("pay", 2)} |-> "burn"]
      [] b = "bLoose" -> [r \in {R("pay", 1)} |-> "join"]]  \* leaves an input out

TxOf(spends, outs, commits) == [spends |-> spends, outs |-> outs, commits |-> commits]
P(tx, vout) == [tx |-> tx, vout |-> vout]
MCTransaction == [tx \in Tx |->
    CASE tx = "fund"    -> TxOf({}, 2, NoBundle)
      [] tx = "payTx"   -> TxOf({P("fund", 0)}, 2, "bPay")
      [] tx = "rivalTx" -> TxOf({P("fund", 0)}, 1, "bRival")
      [] tx = "joinTx"  -> TxOf({P("payTx", 0), P("fund", 1)}, 1, "bJoin")
      [] tx = "forgeTx" -> TxOf({P("fund", 1)}, 2, "bForge")
      [] tx = "bothTx"  -> TxOf({P("fund", 1)}, 2, "bBoth")
      [] tx = "burnTx"  -> TxOf({P("payTx", 1)}, 1, "bBurn")
      [] tx = "sweepTx" -> TxOf({P("payTx", 1)}, 1, NoBundle)   \* an ordinary spend
      [] tx = "strayTx" -> TxOf({P("fund", 1)}, 2, "bPay")      \* closes another seal
      [] tx = "looseTx" -> TxOf({P("payTx", 0), P("fund", 1)}, 1, "bLoose")]

\* rivalTx has one output, and one seal of rival points beyond it.
E(id, tx, known) == [id |-> id, tx |-> tx, embedded |-> FALSE, known |-> known]
Pay   == E("bPay", "payTx", <<"pay">>)
Rival == E("bRival", "rivalTx", <<"rival">>)
Join  == E("bJoin", "joinTx", <<"join">>)
Forge == E("bForge", "forgeTx", <<"forge">>)
Both  == E("bBoth", "bothTx", <<"move", "mint">>)
Half  == E("bBoth", "bothTx", <<"mint">>)     \* discloses one of two operations
Burn  == E("bBurn", "burnTx", <<"burn">>)
Misplaced == E("bPay", "rivalTx", <<"pay">>)  \* anchored elsewhere
Foreign   == E("bPay", "payTx", <<"rival">>)  \* discloses an uncommitted operation
Stray     == E("bPay", "strayTx", <<"pay">>)
Loose     == E("bLoose", "looseTx", <<"join">>)

\* No witness, the last witness or every witness is embedded.
Embed(list, from) == [i \in DOMAIN list |-> [list[i] EXCEPT !.embedded = i >= from]]
Embeddings(list) == {Embed(list, from) : from \in {1, Len(list), Len(list) + 1}}

AllRefs == UNION {{R(op, i) : i \in DOMAIN MCOperation[op].outputs} : op \in MCOp}

Consignments(lists, transfers, terminals, hidden) ==
    [transfer : transfers, bundles : UNION {Embeddings(l) : l \in lists},
     terminals : terminals, revealed : {AllRefs \ h : h \in hidden}]
==============================================================================
