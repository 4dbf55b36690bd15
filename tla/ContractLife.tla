------------------------------ MODULE ContractLife ------------------------------
(***************************************************************************)
(* How a contract comes to be and changes hands: a wallet issues it        *)
(* (Issuance), builds an operation on what it holds (TransitionBuilder)    *)
(* and anchors it in a witness transaction (Anchors), while others issue   *)
(* and operate as they like, within the schema rules (Supply).             *)
(*                                                                         *)
(* The wallet does one of these at a time, and nobody else's operations    *)
(* are shown meanwhile: they share no state with what it is making.        *)
(***************************************************************************)
EXTENDS Supply, Issuance, TransitionBuilder, Anchors

CONSTANTS Specs,        \* what an issuer may ask for
          OutputLists,  \* the outputs that a wallet may ask for
          Signature,    \* what it may sign with: "none", "whole", "short"
          Contract,     \* the contract's protocol id, a number
          OtherProtocol,\* another protocol's id
          Cofactors     \* cofactors of other software's trees

ASSUME LifeAssumption ==
    /\ Specs \subseteq IssueSpec
    /\ \A spec \in Specs : IsFiniteSet(spec.allocations) /\ IsFiniteSet(spec.rights)
    /\ OutputLists \subseteq Seq(OutputSpec)
    /\ Contract \in Nat /\ OtherProtocol \in Nat /\ Contract # OtherProtocol
    /\ Cofactors \subseteq Nat

VARIABLES
    genesis,   \* the contract this wallet issued and still holds, or NoGenesis
    making     \* what it is making: nothing, the armor of its genesis, an
               \* operation or a witness

lifeVars == <<asset, allowance, burned, forgone, maximum, genesis, making>>

NoGenesis == [globals   |-> [issued |-> 0, maximum |-> 0, rejectList |-> FALSE],
              asset     |-> {},
              inflation |-> {}]
Nothing == [phase |-> "nothing"]
Armor == [phase |-> "armor"]

LifeInit == Init /\ genesis = NoGenesis /\ making = Nothing

-------------------------------------------------------------------------------
\* Issue up to the text that it returns...
EncodeContract(spec) ==
    /\ making = Nothing
    /\ CanIssue(spec)
    /\ genesis' = Issued(spec)
    /\ making' = Armor
    /\ UNCHANGED supplyVars

\* ... which it reads back before it returns it: DecodeArmor validates the
\* genesis, and what it refuses is never issued.
DecodeContract ==
    /\ making = Armor
    /\ making' = Nothing
    /\ LET out  == GenesisTotals(genesis)
           meta == GenesisMeta(genesis)
       IN  IF GenesisOK(out, meta) THEN Issue(out, meta) /\ UNCHANGED genesis
           ELSE genesis' = NoGenesis /\ UNCHANGED supplyVars

\* Others issue and operate.
Others ==
    /\ making = Nothing
    /\ Next
    /\ genesis' = NoGenesis
    /\ UNCHANGED making

-------------------------------------------------------------------------------
(***************************************************************************)
(* What the wallet holds: the assignments of its genesis, operation 0.     *)
(***************************************************************************)
ListOf(type) == IF type = Asset THEN genesis.asset ELSE genesis.inflation
RefOf(type, a) == [op |-> 0, type |-> type, no |-> IndexOf(ListOf(type), a)]
Held == {RefOf(type, a) : type \in {Asset}, a \in genesis.asset} \cup
        {RefOf(type, a) : type \in {Inflation}, a \in genesis.inflation}
AmountOf(r) == (CHOOSE a \in ListOf(r.type) : RefOf(r.type, a) = r).amount

InputLists == UNION {[1 .. n -> Held] : n \in 1 .. 2}

SumOf(amounts) == MapThenSumSet(LAMBDA i : amounts[i], DOMAIN amounts)

InputSum(list, type) == SumOf([i \in OfType(list, type) |-> AmountOf(list[i])])
OutputSum(list, type) == SumOf([i \in OfType(list, type) |-> list[i].amount])
EncodedSum(list) == SumOf([i \in DOMAIN list |-> list[i][3]])

Types(list) == TypesListed(OfType(list, Asset) # {}, OfType(list, Inflation) # {})

InputTotals(list) ==
    [asset |-> InputSum(list, Asset), inflation |-> InputSum(list, Inflation), listed |-> Types(list)]
RequestTotals(list) ==
    [asset |-> OutputSum(list, Asset), inflation |-> OutputSum(list, Inflation), listed |-> Types(list)]
OutputTotals(op) ==
    [asset     |-> EncodedSum(op.outputs[Asset]),
     inflation |-> EncodedSum(op.outputs[Inflation]),
     listed    |-> TypesListed(DOMAIN op.outputs[Asset] # {}, DOMAIN op.outputs[Inflation] # {})]

(***************************************************************************)
(* The amounts that a wallet declares: what an inflation creates, in       *)
(* global state 2010 and metadata 1000, and what a burn lacks, in metadata *)
(* 1001 and 1002.                                                          *)
(***************************************************************************)
DeclaredGlobals(type, out) == [g \in IF type = "inflate" THEN {2010} ELSE {} |-> out.asset]
DeclaredMetadata(type, in, out) ==
    [m \in CASE type = "transfer" -> {} [] type = "inflate" -> {1000} [] type = "burn" -> {1001, 1002} |->
        CASE m = 1000 -> out.inflation
          [] m = 1001 -> in.asset - out.asset
          [] m = 1002 -> in.inflation - out.inflation]

\* What the validator reads of them; a request and an operation alike.
DeclaredAmounts(op) ==
    CASE op.type = "transfer" -> [asset |-> 0, inflation |-> 0]
      [] op.type = "inflate"  -> [asset |-> op.globals[2010], inflation |-> op.metadata[1000]]
      [] op.type = "burn"     -> [asset |-> op.metadata[1001], inflation |-> op.metadata[1002]]

Requests ==
    {[type |-> type, inputs |-> in, outputs |-> out, signature |-> signature, fits |-> fits,
      globals  |-> DeclaredGlobals(type, RequestTotals(out)),
      metadata |-> DeclaredMetadata(type, InputTotals(in), RequestTotals(out))] :
        type \in TransitionType, in \in InputLists, out \in OutputLists,
        signature \in Signature, fits \in BOOLEAN}

AllFungible(request) == \A i \in DOMAIN request.outputs : request.outputs[i].class = "fungible"

\* A request that names what the schema asks for, in amounts that add up: its
\* lists, taken as they are, are valid.
Balanced(request) ==
    /\ DeclaredAmounts(request) \in MetaAmounts
    /\ ScriptOK(request.type, InputTotals(request.inputs), RequestTotals(request.outputs),
                DeclaredAmounts(request), request.signature = "whole")

Draft(request, op) ==
    [phase |-> "operation", request |-> request, op |-> op,
     bundle |-> BuildBundle(request.inputs, op)]

Build(request) ==
    /\ making = Nothing
    /\ Balanced(request)
    /\ CanBuild(request)
    /\ CanBundle(request.inputs)
    /\ making' = Draft(request, BuildTransition(request))
    /\ UNCHANGED <<asset, allowance, burned, forgone, maximum, genesis>>

Reordered(list, p) == [i \in DOMAIN list |-> list[p[i]]]

\* After a crash the wallet builds again: the same lists in any order, since
\* nothing keeps the order of what it collects.
Rebuild(p, q) ==
    /\ making.phase = "operation"
    /\ LET again == [making.request EXCEPT !.inputs  = Reordered(@, p),
                                           !.outputs = Reordered(@, q)]
       IN  /\ CanBuild(again)
           /\ making' = Draft(again, BuildTransition(again))
    /\ UNCHANGED <<asset, allowance, burned, forgone, maximum, genesis>>

\* The wallet knows the seal behind a concealed one and reveals it.
Reveal(t, i, seal) ==
    /\ making.phase = "operation"
    /\ making.op.outputs[t][i] = <<1, Conceal[seal], making.op.outputs[t][i][3]>>
    /\ making' = Draft(making.request, RevealAt(making.op, t, i, seal))
    /\ UNCHANGED <<asset, allowance, burned, forgone, maximum, genesis>>

-------------------------------------------------------------------------------
(***************************************************************************)
(* The witness.  From here on the operation is one message, "ours", and a  *)
(* rival operation on the same contract another; the tree of the witness   *)
(* is the wallet's own, or that of other software, whatever it placed.     *)
(***************************************************************************)
Message == {"ours", "rival"}
Leaves == {Leaf(p, m) : p \in {Contract, OtherProtocol}, m \in Message} \cup {Entropy(0)}
Unanchored == <<"none">>
Witness(commitment, proofs, opened) ==
    [phase |-> "witness", commitment |-> commitment, proofs |-> proofs, opened |-> opened]

StartWitness ==
    /\ making.phase = "operation"
    /\ making' = Witness(Unanchored, {}, {})
    /\ genesis' = NoGenesis
    /\ UNCHANGED supplyVars

\* NewMPCProof and the commitment of its own message.
AnchorOwn(depth) ==
    /\ making = Witness(Unanchored, {}, {})
    /\ LET proof == NewMPCProof(Contract, depth, 0)
       IN  /\ CanConvolve(proof, Contract)
           /\ making' = Witness(ConvolveMPC(proof, Contract, "ours"), {proof}, {})
    /\ UNCHANGED <<asset, allowance, burned, forgone, maximum, genesis>>

AnchorTogether(depth, cofactor, leaves) ==
    /\ making = Witness(Unanchored, {}, {})
    /\ making' = Witness(TreeCommitment(leaves, depth, cofactor),
                         {[position |-> k, cofactor |-> c, path |-> PathTo(leaves, depth, k)] :
                             k \in 0 .. 2 ^ depth - 1, c \in {0, cofactor}}, {})
    /\ UNCHANGED <<asset, allowance, burned, forgone, maximum, genesis>>

\* A validator opens the commitment (consignment/validator.go:153).
Open(proof, protocol, message) ==
    /\ CanConvolve(proof, protocol)
    /\ ConvolveMPC(proof, protocol, message) = making.commitment
    /\ making' = [making EXCEPT !.opened = @ \cup {<<protocol, message>>}]
    /\ UNCHANGED <<asset, allowance, burned, forgone, maximum, genesis>>

Finish ==
    /\ making.phase \in {"operation", "witness"}
    /\ making' = Nothing
    /\ UNCHANGED <<asset, allowance, burned, forgone, maximum, genesis>>

Orders(list) == {p \in [DOMAIN list -> DOMAIN list] : \A i, j \in DOMAIN list : p[i] = p[j] => i = j}

LifeNext ==
    \/ \E spec \in Specs : EncodeContract(spec)
    \/ DecodeContract
    \/ Others
    \/ making = Nothing /\ \E request \in Requests : Build(request)
    \/ /\ making.phase = "operation"
       /\ \E p \in Orders(making.request.inputs), q \in Orders(making.request.outputs) :
              Rebuild(p, q)
    \/ /\ making.phase = "operation"
       /\ \E t \in AssignmentTypes : \E i \in DOMAIN making.op.outputs[t], seal \in GraphSeal :
              Reveal(t, i, seal)
    \/ StartWitness
    \/ \E depth \in 0 .. MaxDepth : AnchorOwn(depth)
    \/ \E depth \in 0 .. MaxDepth, cofactor \in Cofactors :
           \E leaves \in [0 .. 2 ^ depth - 1 -> Leaves] : AnchorTogether(depth, cofactor, leaves)
    \/ /\ making.phase = "witness"
       /\ \E proof \in making.proofs, p \in {Contract, OtherProtocol}, m \in Message :
              Open(proof, p, m)
    \/ Finish

LifeSpec == LifeInit /\ [][LifeNext]_lifeVars

-------------------------------------------------------------------------------
(***************************************************************************)
(* What Issue's own checks let through is never refused when Issue reads   *)
(* it back: two tests in different modules agree on what a word can hold   *)
(* (issuance.go:119-126 and 239-292, schemas/validate.go 339-377).         *)
(***************************************************************************)
IssuedIsValid ==
    genesis # NoGenesis => GenesisOK(GenesisTotals(genesis), GenesisMeta(genesis))

(***************************************************************************)
(* What the wallet builds from fungible amounts that add up is accepted on *)
(* the other side: the rules hold of the canonical lists too, which name   *)
(* each input once, and every input is committed to the operation's own id *)
(* (operations/builder.go, validator.go inputMapCommits).                  *)
(***************************************************************************)
BuiltIsAccepted ==
    making.phase = "operation" /\ AllFungible(making.request) =>
        LET op == making.op
        IN  /\ ScriptOK(op.type, InputTotals(op.inputs), OutputTotals(op), DeclaredAmounts(op),
                        op.signature = "whole")
            /\ \A i, j \in DOMAIN op.inputs : op.inputs[i] = op.inputs[j] => i = j
            /\ making.bundle.inputMap =
                   [r \in {op.inputs[i] : i \in DOMAIN op.inputs} |-> CommitTransition(op)]

(***************************************************************************)
(* The id survives: building the same request again, in whatever order the *)
(* lists come, and revealing a seal in its place give the same operation   *)
(* id and bundle id (builder.go:44-45, genesis.go assignmentSecret), while *)
(* the disclosure hash tells exactly the revealed forms apart              *)
(* (disclose.go:23-25).                                                    *)
(***************************************************************************)
IdSurvives ==
    [][making.phase = "operation" /\ making'.phase = "operation"
       => /\ making'.bundle.inputMap = making.bundle.inputMap
          /\ EncodeDisclose(making.op)' = EncodeDisclose(making.op)
                 <=> making'.op.outputs = making.op.outputs]_lifeVars

(***************************************************************************)
(* A witness opens for one message of a protocol at most, whoever filled   *)
(* the tree, although the cofactor may wrap the width: no two bundles of a *)
(* contract have the same witness (anchors/mpc.go:58-62).                  *)
(***************************************************************************)
OneMessagePerProtocol ==
    making.phase = "witness" =>
        \A a, b \in making.opened : a[1] = b[1] => a[2] = b[2]
===============================================================================
