---------------------------- MODULE ContractLedger ----------------------------
(***************************************************************************)
(* The promise of single-use seals, without consignments, witnesses or     *)
(* Bitcoin: a contract is a set of operations, each of which consumes      *)
(* state that some earlier operation of the contract created and that no   *)
(* other operation consumed, and what is reported as owned is unconsumed.  *)
(***************************************************************************)
CONSTANTS Op, Genesis,
          Inputs(_),    \* the state an operation consumes
          Outputs(_)    \* the state an operation creates

VARIABLES applied,      \* the operations accepted so far
          used,         \* the state they consumed
          owned         \* the state reported as current

ledgerVars == <<applied, used, owned>>

Created(ops) == UNION {Outputs(op) : op \in ops}

Init == applied = {} /\ used = {} /\ owned = {}

\* The history of the contract is read (again) from its genesis.
Open == applied' = {Genesis} /\ used' = {} /\ owned' = {}

\* An operation is accepted once, on unconsumed state that exists.
Apply(op) ==
    /\ op \notin applied
    /\ Inputs(op) \subseteq Created(applied) \ used
    /\ applied' = applied \cup {op}
    /\ used' = used \cup Inputs(op)
    /\ UNCHANGED owned

\* Unconsumed state is reported.
Report(refs) ==
    /\ refs \subseteq Created(applied) \ used
    /\ owned' = owned \cup refs
    /\ UNCHANGED <<applied, used>>

Next == \/ Open
        \/ \E op \in Op : Apply(op)
        \/ \E refs \in SUBSET (Created(applied) \ used) : Report(refs)

Spec == Init /\ [][Next]_ledgerVars
===============================================================================
