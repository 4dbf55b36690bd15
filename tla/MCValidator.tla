------------------------------ MODULE MCValidator ------------------------------
(***************************************************************************)
(* Families of consignments for the runs of Validator.                     *)
(***************************************************************************)
EXTENDS Validator

MC == INSTANCE MCConsignment
MCOp == MC!MCOp
MCOperation == MC!MCOperation
MCBundleId == MC!MCBundleId
MCInputMap == MC!MCInputMap
MCTransaction == MC!MCTransaction

Transfers(lists) == MC!Consignments(lists, {TRUE}, {{}}, {{}})

\* A payment and a payment on top of it; the same entries repeated, out of
\* order and against a rival; a concealed seal that is passed on; contracts.
PaymentContainers ==
    Transfers({<<>>, <<MC!Pay>>, <<MC!Rival>>, <<MC!Pay, MC!Join>>, <<MC!Join, MC!Pay>>,
               <<MC!Pay, MC!Rival>>, <<MC!Pay, MC!Pay>>, <<MC!Misplaced>>})
    \cup MC!Consignments({<<MC!Pay, MC!Join>>}, {TRUE}, {{"bJoin"}}, {{MC!R("pay", 1)}})
    \cup MC!Consignments({<<>>, <<MC!Pay>>}, {FALSE}, {{}}, {{}})

\* The payments with every set of terminals, and with the change concealed.
TerminalContainers ==
    MC!Consignments({<<MC!Pay>>, <<MC!Pay, MC!Join>>}, {TRUE},
                    {{}, {"bPay"}, {"bJoin"}, {"bPay", "bJoin"}}, {{}})
    \cup MC!Consignments({<<MC!Pay, MC!Join>>}, {TRUE}, {{"bJoin"}}, {{MC!R("pay", 2)}})
    \cup MC!Consignments({<<>>}, {TRUE, FALSE}, {{}}, {{}})

TransferContainers == PaymentContainers \cup TerminalContainers

\* Inflation and burning, with the bundle of two operations disclosed in full
\* or in half, and a forged payment.  Witnesses are known by txid.
\* Next to them, the contract and a payment, presented in every way.
HistoryContainers ==
    {c \in Transfers({<<MC!Both>>, <<MC!Half>>, <<MC!Pay, MC!Both, MC!Burn>>,
                      <<MC!Half, MC!Pay>>, <<MC!Pay, MC!Forge>>}) :
        \A i \in DOMAIN c.bundles : ~c.bundles[i].embedded}
    \cup MC!Consignments({<<>>, <<MC!Pay>>}, {TRUE, FALSE}, {{}, {"bPay"}}, {{}})

\* Anchors, disclosures and input maps that do not fit, next to ones
\* that do.
MisfitContainers ==
    Transfers({<<MC!Pay>>, <<MC!Foreign>>, <<MC!Stray>>,
               <<MC!Pay, MC!Loose>>, <<MC!Pay, MC!Stray>>})

\* For the runs where the resolver fails.  With every seal of the payment
\* concealed no residual state vouches for its witness.
FaultContainers ==
    MisfitContainers
    \cup Transfers({<<MC!Pay, MC!Join>>, <<MC!Pay, MC!Rival>>})
    \cup MC!Consignments({<<MC!Pay>>}, {TRUE}, {{}}, {{MC!R("pay", 1), MC!R("pay", 2)}})

\* A payment known by txid, and a payment on top of it that is not sent yet.
TxidContainers == Transfers({<<MC!Pay, MC!Join>>})
================================================================================
