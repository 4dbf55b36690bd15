----------------------------- MODULE MCRejectList -----------------------------
(***************************************************************************)
(* A history in the form of a diamond: an allocation is split, both halves *)
(* move on, and are joined again.                                          *)
(***************************************************************************)
EXTENDS RejectList

R(op, no) == [op |-> op, no |-> no]
Asset(amount, tx, vout) ==
    [kind |-> "asset", amount |-> amount, seal |-> [tx |-> tx, vout |-> vout]]
Transfer(inputs, outputs) ==
    [type |-> "transfer", inputs |-> inputs, outputs |-> outputs,
     meta |-> [asset |-> 0, inflation |-> 0], signed |-> FALSE]

MCOperation == [op \in Op |->
    CASE op = "gen"   -> [Transfer({}, <<Asset(2, "fund", 0)>>)
                             EXCEPT !.type = "genesis", !.meta.asset = 2]
      [] op = "split" -> Transfer({R("gen", 1)}, <<Asset(1, WitnessTx, 0), Asset(1, WitnessTx, 1)>>)
      [] op = "left"  -> Transfer({R("split", 1)}, <<Asset(1, WitnessTx, 0)>>)
      [] op = "right" -> Transfer({R("split", 2)}, <<Asset(1, WitnessTx, 0)>>)
      [] op = "join"  -> Transfer({R("left", 1), R("right", 1)}, <<Asset(2, WitnessTx, 0)>>)]

\* Each operation has a bundle and a witness of its own, named after it.
MCInputMap == [b \in BundleId |-> [r \in MCOperation[b].inputs |-> b]]

P(tx, vout) == [tx |-> tx, vout |-> vout]
MCTransaction == [tx \in Tx |->
    [spends  |-> CASE tx = "fund"  -> {}
                   [] tx = "split" -> {P("fund", 0)}
                   [] tx = "left"  -> {P("split", 0)}
                   [] tx = "right" -> {P("split", 1)}
                   [] tx = "join"  -> {P("left", 0), P("right", 0)},
     outs    |-> 2,
     commits |-> IF tx = "fund" THEN NoBundle ELSE tx]]

Listing(ops, hidden) ==
    [transfer |-> TRUE, terminals |-> {},
     bundles |-> [i \in DOMAIN ops |->
                     [id |-> ops[i], tx |-> ops[i], embedded |-> FALSE, known |-> <<ops[i]>>]],
     revealed |-> UNION {{R(op, i) : i \in DOMAIN MCOperation[op].outputs} : op \in Op} \ hidden]

\* In two orders, cut short, with a link concealed, and in no possible order.
MCDisclosures == {Listing(<<"split", "left", "right", "join">>, {}),
                  Listing(<<"split", "right", "left", "join">>, {R("join", 1)}),
                  Listing(<<"split", "left">>, {R("split", 2)}),
                  Listing(<<"split", "left", "right", "join">>, {R("left", 1)}),
                  Listing(<<"join", "left", "right", "split">>, {})}

\* Up to three lines about the root, both sides of the diamond, or nothing.
MCLine == [opout : {R("gen", 1), R("split", 1), R("right", 1), NoOpout}, allowed : BOOLEAN]
MCResponses == UNION {[1..n -> MCLine] : n \in 0..3}
===============================================================================
