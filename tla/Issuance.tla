------------------------------- MODULE Issuance -------------------------------
(***************************************************************************)
(* Issuing a contract (issuance/issuance.go): an official template with    *)
(* the issuer's own amounts and seals in its genesis.                      *)
(*                                                                         *)
(* A specification is [text, allocations, rights, url]: whether its names  *)
(* and numbers are well formed, the asset allocations, the inflation       *)
(* rights, and whether it names a reject list.  The seals of a valid one   *)
(* are distinct, so its lists are sets and the order of the assignments in *)
(* genesis, by concealed seal, is the rank of each.                        *)
(*                                                                         *)
(* Of the schemas that can be issued, the unique asset (UDA) is left out:  *)
(* its state is a token and no amount.                                     *)
(***************************************************************************)
EXTENDS Schemas, Seals, FiniteSets, FiniteSetsExt

Allocation == [seal : GraphSeal, amount : Amount]
IssueSpec == [text : BOOLEAN, allocations : SUBSET Allocation,
              rights : SUBSET Allocation, url : BOOLEAN]

Sum(allocations) == MapThenSumSet(LAMBDA a : a.amount, allocations)

SealsDistinct(spec) ==
    /\ \A a, b \in spec.allocations : a.seal = b.seal => a = b
    /\ \A a, b \in spec.rights : a.seal = b.seal => a = b
    /\ \A a \in spec.allocations, b \in spec.rights : a.seal # b.seal

(***************************************************************************)
(* validateSpec.  Each of the two sums must fit in a machine word, on its  *)
(* own.                                                                    *)
(***************************************************************************)
ValidateSpec(spec) ==
    /\ Kind \in {"NIA", "IFA"}
    /\ spec.text
    /\ IF Kind = "IFA" THEN spec.allocations \cup spec.rights # {}
       ELSE spec.allocations # {} /\ spec.rights = {} /\ ~spec.url
    /\ \A a \in spec.allocations \cup spec.rights : a.seal \in Explicit /\ a.amount # 0
    /\ SealsDistinct(spec)
    /\ Sum(spec.allocations) \in Amount
    /\ Sum(spec.rights) \in Amount

MaxSupply(spec) == Plus(Sum(spec.allocations), Sum(spec.rights))

\* Mutant of SetGenesisGlobals: the maximum is published as it comes.
SetGenesisGlobalsMayWrap(spec) == TRUE

\* setGenesisGlobals refuses a maximum that wrapped, where there is one.
SetGenesisGlobals(spec) == Kind = "IFA" => MaxSupply(spec) >= Sum(spec.allocations)

(***************************************************************************)
(* setGenesisAssignments writes both lists, empty or not; the encoder      *)
(* refuses an empty one (strict_types/encode.go, one item at least).       *)
(***************************************************************************)
Encodable(spec) == spec.allocations # {} /\ (Kind = "IFA" => spec.rights # {})

CanIssue(spec) == ValidateSpec(spec) /\ SetGenesisGlobals(spec) /\ Encodable(spec)

\* putGlobal and removeGlobal replace what the template holds.
PutGlobals(spec) ==
    [issued     |-> Sum(spec.allocations),
     maximum    |-> IF Kind = "IFA" THEN MaxSupply(spec) ELSE 0,
     rejectList |-> spec.url]

\* The genesis that Issue encodes: global state and assignments.
Issued(spec) ==
    [globals   |-> PutGlobals(spec),
     asset     |-> spec.allocations,
     inflation |-> IF Kind = "IFA" THEN spec.rights ELSE {}]

\* How many assignments of its list come before one, by concealed seal.
IndexOf(list, a) == Cardinality({b \in list : Conceal[b.seal] < Conceal[a.seal]})

(***************************************************************************)
(* What the validator reads from a genesis: its totals and its amounts in  *)
(* global state.  Only the inflatable schema has rights and a maximum.     *)
(***************************************************************************)
GenesisTotals(g) ==
    [asset     |-> Sum(g.asset),
     inflation |-> IF Kind = "IFA" THEN Sum(g.inflation) ELSE 0,
     listed    |-> TypesListed(g.asset # {}, Kind = "IFA" /\ g.inflation # {})]
GenesisMeta(g) == [asset |-> g.globals.issued, inflation |-> g.globals.maximum]
===============================================================================
