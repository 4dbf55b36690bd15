----------------------------- MODULE Consignment -----------------------------
(***************************************************************************)
(* The data of a consignment: what a decoded Container discloses about the *)
(* history of one contract (consignment/container.go, operations/).        *)
(*                                                                         *)
(* Ids are commitments, so the content behind an id never varies:          *)
(*   an operation id fixes type, inputs, outputs and metadata              *)
(*     (operations/transition.go CommitTransition; seals are committed in  *)
(*     concealed form, so which of them are revealed is not fixed, and a   *)
(*     signature is not committed: "signed" is the one that is disclosed); *)
(*   a bundle id fixes the input map, and only that (operations/bundle.go);*)
(*   a txid fixes the inputs and outputs, hence the carrier's commitment.  *)
(* A container chooses which bundles to list, in which order, which        *)
(* transitions of each to disclose and which seals to reveal.              *)
(***************************************************************************)
EXTENDS Schemas, Transactions, Sequences, FiniteSets, FiniteSetsExt

CONSTANTS Op,         \* operation ids, genesis included
          Genesis,    \* the operation id of genesis, which is the contract id
          Operation,  \* opid -> [type, inputs, outputs, meta, signed]
          BundleId,
          InputMap,   \* bundle id -> (input reference -> operation id)
          WitnessTx,  \* a seal that points at the transaction of its own bundle
          NoTx,       \* the zero txid that stands for "no witness" (genesis)
          NoBundle    \* the zero bundle id

Ref == [op : Op, no : Nat]                         \* schemas.InputRef

Inputs(op)  == Operation[op].inputs
Outputs(op) == {[op |-> op, no |-> i] : i \in DOMAIN Operation[op].outputs}
State(r)    == Operation[r.op].outputs[r.no]       \* [kind, amount, seal]

Seal == [tx : Tx \cup {WitnessTx}, vout : Nat]

ASSUME ConsignmentAssumption ==
    /\ Genesis \in Op
    /\ DOMAIN Operation = Op
    /\ \A op \in Op : Inputs(op) \subseteq Ref
    /\ Inputs(Genesis) = {}
    /\ \A op \in Op : \A r \in Outputs(op) : r \in Ref /\ State(r).seal \in Seal
    \* genesis seals are of a type that cannot point at a witness
    /\ \A r \in Outputs(Genesis) : State(r).seal.tx \in Tx
    /\ \A op \in Op \ {Genesis} : Inputs(op) # {}  \* operations/transition.go commitInputs
    /\ DOMAIN InputMap = BundleId
    /\ \A b \in BundleId : DOMAIN InputMap[b] \subseteq Ref
    /\ \A op \in Op \ {Genesis} : Operation[op].type \in TransitionType
    /\ Operation[Genesis].type \notin TransitionType
    \* decoding reads counted lists and machine words
    /\ \A op \in Op : /\ IsFiniteSet(Inputs(op)) /\ IsFiniteSet(Outputs(op))
                      /\ \A r \in Outputs(op) : State(r).amount \in Amount
                      /\ Operation[op].meta \in MetaAmounts
    /\ WitnessTx \notin Tx /\ NoTx \notin Tx /\ NoBundle \notin BundleId

WitnessBundle == [id : BundleId, tx : Tx, embedded : BOOLEAN, known : Seq(Op \ {Genesis})]
Container == [transfer : BOOLEAN, bundles : Seq(WitnessBundle),
              terminals : SUBSET BundleId, revealed : SUBSET Ref]

-------------------------------------------------------------------------------
(***************************************************************************)
(* operations/bundle.go CommitBundle: a bundle discloses at least one      *)
(* transition, and only transitions its input map commits to.              *)
(***************************************************************************)
InputOperations(id) == {InputMap[id][r] : r \in DOMAIN InputMap[id]}

BundleWellFormed(w) ==
    /\ w.known # <<>>
    /\ \A k \in DOMAIN w.known : w.known[k] \in InputOperations(w.id)

\* consignment/validator.go inputMapCommits
InputMapCommits(id, r, op) == r \in DOMAIN InputMap[id] /\ InputMap[id][r] = op

\* schemas/outputs.go RevealedOutputs: concealed assignments are left out.
RevealedOutputs(c, op) == Outputs(op) \cap c.revealed

\* Mutant of OutpointOf: a seal that points at its witness is left as it is.
OutpointUnbound(r, witness) == State(r).seal

(***************************************************************************)
(* consignment/validator.go assignmentOutpoint: where a revealed seal is,  *)
(* given the witness transaction of its operation.                         *)
(***************************************************************************)
OutpointOf(r, witness) ==
    [tx   |-> IF State(r).seal.tx = WitnessTx THEN witness ELSE State(r).seal.tx,
     vout |-> State(r).seal.vout]

\* The types of a set of assignments, and their totals.
TotalOf(kind, refs) ==
    MapThenSumSet(LAMBDA r : State(r).amount, {r \in refs : State(r).kind = kind})

\* Mutant of TotalsOf: sums are not checked to fit in a word.
TotalsWrapped(refs) == [asset     |-> TotalOf("asset", refs) % (MaxAmount + 1),
                        inflation |-> TotalOf("inflation", refs) % (MaxAmount + 1),
                        listed    |-> {State(r).kind : r \in refs}]

TotalsOf(refs) == [asset     |-> TotalOf("asset", refs),
                   inflation |-> TotalOf("inflation", refs),
                   listed    |-> {State(r).kind : r \in refs}]

(***************************************************************************)
(* schemas/transition.go ValidateTransition.  The outputs count whether    *)
(* their seals are revealed or not.                                        *)
(***************************************************************************)
TransitionValid(op) ==
    ScriptOK(Operation[op].type, TotalsOf(Inputs(op)), TotalsOf(Outputs(op)),
             Operation[op].meta, Operation[op].signed)

\* A container whose genesis fails ValidateGenesis is not decoded, and is not
\* validated (consignment/validator.go:107).
ASSUME GenesisAssumption ==
    GenesisOK(TotalsOf(Outputs(Genesis)), Operation[Genesis].meta)

-------------------------------------------------------------------------------
(***************************************************************************)
(* What a consignment must look like, said without the validation loop.    *)
(* A position is a pair <<bundle, known transition>> of the container.     *)
(***************************************************************************)
Positions(c) == UNION {{i} \X DOMAIN c.bundles[i].known : i \in DOMAIN c.bundles}
At(c, p)     == c.bundles[p[1]].known[p[2]]
WitnessAt(c, p) == c.bundles[p[1]].tx
Before(p, q) == p[1] < q[1] \/ (p[1] = q[1] /\ p[2] < q[2])

\* The state behind r exists before position p, where p's witness closes it.
MadeAndClosed(c, r, p) ==
    /\ r \in RevealedOutputs(c, r.op)
    /\ \/ r.op = Genesis /\ Spends(WitnessAt(c, p), OutpointOf(r, NoTx))
       \/ \E q \in Positions(c) :
              /\ Before(q, p)
              /\ At(c, q) = r.op
              /\ Spends(WitnessAt(c, p), OutpointOf(r, WitnessAt(c, q)))

HistoryGood(c) ==
    /\ \A i \in DOMAIN c.bundles :
           /\ BundleWellFormed(c.bundles[i])
           /\ Transaction[c.bundles[i].tx].commits = c.bundles[i].id
    /\ \A p \in Positions(c) :
           /\ TransitionValid(At(c, p))
           /\ \A r \in Inputs(At(c, p)) :
                  /\ InputMapCommits(c.bundles[p[1]].id, r, At(c, p))
                  /\ MadeAndClosed(c, r, p)
                  /\ \A q \in Positions(c) \ {p} : r \notin Inputs(At(c, q))

(***************************************************************************)
(* What a transfer delivers: the operations of the bundles it names as     *)
(* terminals.  A transfer that names none delivers its last bundle, if it  *)
(* hides no operation and ends in a single one (consignment/validator.go   *)
(* historicalSideOps: only ancestors of the receiving bundle are history). *)
(***************************************************************************)
OpsOf(c)      == {Genesis} \cup {At(c, p) : p \in Positions(c)}
OpsIn(c, ids) == {At(c, p) : p \in {q \in Positions(c) : c.bundles[q[1]].id \in ids}}
Makers(ops)   == {r.op : r \in UNION {Inputs(op) : op \in ops}}
InFull(w)     == {w.known[k] : k \in DOMAIN w.known} = InputOperations(w.id)

EndsOf(c) == OpsOf(c) \ Makers(OpsOf(c))

ReceivingIds(c) ==
    IF c.terminals # {} THEN c.terminals
    ELSE {c.bundles[p[1]].id : p \in
             {q \in Positions(c) : /\ EndsOf(c) = {At(c, q)}
                                   /\ \A i \in DOMAIN c.bundles : InFull(c.bundles[i])}}

Receiving(c) == IF c.transfer THEN OpsIn(c, ReceivingIds(c)) ELSE {}
===============================================================================
