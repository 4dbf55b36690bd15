----------------------------- MODULE Transactions -----------------------------
(***************************************************************************)
(* The content of Bitcoin transactions.  A txid is a commitment: it fixes  *)
(* the inputs, the outputs, and what the carrier output commits to.        *)
(***************************************************************************)
EXTENDS Integers

CONSTANTS Tx,           \* transaction ids
          Transaction   \* txid -> [spends, outs, commits]

\* spends: the outpoints of the inputs; outs: the number of outputs;
\* commits: the bundle that the first carrier output commits to (or none).
Outpoint == [tx : Tx, vout : Nat]

ASSUME TransactionAssumption ==
    /\ DOMAIN Transaction = Tx
    /\ \A tx \in Tx : Transaction[tx].spends \subseteq Outpoint
    \* a txid is a hash of the inputs, so none of them names it
    /\ \A tx \in Tx : \A o \in Transaction[tx].spends : o.tx # tx

Spends(tx, o) == o \in Transaction[tx].spends
===============================================================================
