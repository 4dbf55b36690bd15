----------------------------- MODULE BitcoinFacts -----------------------------
(***************************************************************************)
(* The part of Bitcoin that the library sees through a BitcoinResolver     *)
(* (consignment/bitcoin.go): the status of a transaction, and whether an   *)
(* outpoint exists and is spent.  The chain itself is not in the           *)
(* repository; it is modelled from the answers the interface can give.     *)
(*                                                                         *)
(* A transaction enters the mempool, is mined, is evicted from the mempool *)
(* or leaves the chain in a reorganisation, at any moment: in particular   *)
(* between two queries of one validation.  A query may also fail.          *)
(***************************************************************************)
EXTENDS Transactions

CONSTANTS Buried,       \* transactions too deep to leave the chain
          Faults        \* which failed answers the resolver may give

ASSUME BitcoinAssumption ==
    /\ Buried \subseteq Tx
    \* what is buried is part of one chain, so it spends nothing twice
    /\ \A tx1, tx2 \in Buried :
           tx1 # tx2 => Transaction[tx1].spends \cap Transaction[tx2].spends = {}
    /\ Faults \subseteq {"error", "noRaw", "badRaw", "noSpender"}

VARIABLE chain          \* txid -> WitnessState

WitnessState == {"unknown", "tentative", "mined", "archived"}

ChainTypeOK == chain \in [Tx -> WitnessState]

Live(tx) == chain[tx] \in {"tentative", "mined"}

Exists(o) == Live(o.tx) /\ o.vout < Transaction[o.tx].outs

Spenders(o) == {tx \in Tx : Live(tx) /\ Spends(tx, o)}

-------------------------------------------------------------------------------
ChainInit == chain = [tx \in Tx |-> IF tx \in Buried THEN "mined" ELSE "unknown"]

\* A transaction enters the mempool when every input exists and is unspent.
Broadcast(tx) ==
    /\ ~Live(tx)
    /\ \A o \in Transaction[tx].spends : Exists(o) /\ Spenders(o) = {}
    /\ chain' = [chain EXCEPT ![tx] = "tentative"]

Mine(tx) ==
    /\ chain[tx] = "tentative"
    /\ \A o \in Transaction[tx].spends : chain[o.tx] = "mined"
    /\ chain' = [chain EXCEPT ![tx] = "mined"]

\* A transaction no other one builds on is evicted, or reorganised away.
Drop(tx) ==
    /\ Live(tx)
    /\ tx \notin Buried
    /\ \A child \in Tx : Live(child) =>
           \A o \in Transaction[child].spends : o.tx # tx
    /\ chain' = [chain EXCEPT ![tx] =
                     IF chain[tx] = "mined" THEN "archived" ELSE "unknown"]

Grow == \E tx \in Tx : Broadcast(tx) \/ Mine(tx)
Reorganise == \E tx \in Tx : Drop(tx)

-------------------------------------------------------------------------------
\* The raw transactions in answers: the one asked for, none at all, bytes
\* that do not parse, or another transaction.
RawAnswers == {"own"} \cup {r \in {"none"} : "noRaw" \in Faults}
                     \cup {r \in {"garbled", "other"} : "badRaw" \in Faults}

\* What ResolveRGB11Witness can answer now.
WitnessAnswers(tx) ==
    [failed : {FALSE}, state : {chain[tx]}, raw : RawAnswers]
    \cup {a \in [failed : {TRUE}, state : {"unknown"}, raw : {"none"}] : "error" \in Faults}

\* What ResolveRGB11Outpoint can answer now: a failed query and Known = false
\* are the same to every caller, and the spending txid is optional.
OutpointAnswers(o) ==
    {[known |-> TRUE, exists |-> Exists(o), spent |-> Spenders(o) # {}, by |-> Spenders(o)]}
    \cup {a \in {[known |-> FALSE, exists |-> FALSE, spent |-> FALSE, by |-> {}]} :
              "error" \in Faults}
    \cup {a \in {[known |-> TRUE, exists |-> Exists(o), spent |-> Spenders(o) # {}, by |-> {}]} :
              "noSpender" \in Faults}
===============================================================================
