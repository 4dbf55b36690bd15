------------------------------ MODULE MCHistories ------------------------------
(***************************************************************************)
(* Histories of the contract of MCConsignment.                             *)
(***************************************************************************)
EXTENDS Histories

MC == INSTANCE MCConsignment
MCOp == MC!MCOp
MCOperation == MC!MCOperation
MCBundleId == MC!MCBundleId
MCInputMap == MC!MCInputMap
MCTransaction == MC!MCTransaction

History(list, hidden) ==
    LET c == [transfer |-> TRUE, bundles |-> list, terminals |-> {}, revealed |-> MC!AllRefs]
    IN  [c EXCEPT !.revealed = OutputsOf(ListedOps(c)) \ hidden]

\* The bundle of two operations as another wallet lists it, and in halves; a
\* payment whose witness is embedded; the receiver's allocation concealed.
Turned   == [MC!Both EXCEPT !.known = <<"mint", "move">>]
OtherHalf == [MC!Both EXCEPT !.known = <<"move">>]
Embedded == [MC!Pay EXCEPT !.embedded = TRUE]

MCReceived ==
    {History(<<>>, {}),
     History(<<MC!Pay>>, {}), History(<<MC!Pay>>, {MC!R("pay", 1)}),
     History(<<MC!Pay, MC!Join>>, {MC!R("pay", 2)}), History(<<MC!Pay, MC!Join>>, {MC!R("gen", 1)}),
     History(<<MC!Both>>, {}), History(<<Turned, MC!Pay>>, {}), History(<<MC!Half>>, {}),
     History(<<Embedded, MC!Burn>>, {}),
     History(<<MC!Pay, MC!Pay>>, {}), History(<<MC!Half, OtherHalf>>, {})}

MCWitnesses == {MC!Join, MC!Burn}
MCSeals == {MC!R("pay", 1), MC!R("pay", 2)}
================================================================================
