--------------------------------- MODULE Seals ---------------------------------
(***************************************************************************)
(* Seals (seals/): an output of a transaction and a blinding factor.  The  *)
(* transaction is named, or is the witness of the operation that has the   *)
(* seal.  Concealing one hashes it.                                        *)
(***************************************************************************)
EXTENDS Naturals

CONSTANTS GraphSeal,  \* seals, as numbers: their bytes
          Explicit,   \* those that name a transaction
          Conceal     \* a seal's concealed form, a number too

ASSUME SealAssumption ==
    /\ GraphSeal \subseteq Nat \ {0}
    /\ Explicit \subseteq GraphSeal
    /\ Conceal \in [GraphSeal -> Nat \ {0}]
    /\ \A s, t \in GraphSeal : Conceal[s] = Conceal[t] => s = t
===============================================================================
