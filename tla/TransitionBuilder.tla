--------------------------- MODULE TransitionBuilder ---------------------------
(***************************************************************************)
(* Building a transition and its bundle (operations/builder.go), and what  *)
(* their ids commit to (operations/transition.go, operations/genesis.go).  *)
(*                                                                         *)
(* A request is [type, metadata, globals, inputs, outputs, signature,      *)
(* fits]: metadata and global state by type, lists in the order of the     *)
(* caller, and whether all values are within the limits of their encoding. *)
(* An output is [type, class, amount, secret, revealed], with 0 for a seal *)
(* that is not given.  Bytes are numbers, compared as the code compares    *)
(* byte strings.                                                           *)
(***************************************************************************)
EXTENDS Schemas, Seals, Sequences, FiniteSets, FiniteSetsExt

CONSTANT MaxItems   \* the longest list that can be encoded

Asset == 4000
Inflation == 4010
AssignmentTypes == {Asset, Inflation}
Class == {"declarative", "fungible", "structured"}
OutputSpec == [type : AssignmentTypes, class : STRING, amount : Amount,
               secret : Nat, revealed : GraphSeal \cup {0}]

\* compareOpout: by operation, assignment type and index.
CompareOpout(r, s) ==
    \/ r.op < s.op
    \/ r.op = s.op /\ r.type < s.type
    \/ r.op = s.op /\ r.type = s.type /\ r.no < s.no

(***************************************************************************)
(* sort.Slice: the values of a list or of a part of it, so that none comes *)
(* after one that it is before.                                            *)
(***************************************************************************)
Sorted(list, Before(_, _)) ==
    LET n == Cardinality(DOMAIN list)
        p == CHOOSE p \in [1 .. n -> DOMAIN list] :
                 \A i, j \in 1 .. n : i < j => p[i] # p[j] /\ ~Before(list[p[j]], list[p[i]])
    IN  [i \in 1 .. n |-> list[p[i]]]

NoRepeat(sorted) == \A i \in DOMAIN sorted : i > 1 => sorted[i - 1] # sorted[i]

(***************************************************************************)
(* encodeTransitionOutput: a tag, 0 for a revealed and 1 for a concealed   *)
(* seal, the seal and the state, of which a declarative output has none.   *)
(***************************************************************************)
SealGivenOnce(o) == (o.secret = 0) # (o.revealed = 0)
Void == -1
State(o) == IF o.class = "declarative" THEN Void ELSE o.amount
EncodeOutput(o) == IF o.revealed # 0 THEN <<0, o.revealed, State(o)>>
                   ELSE <<1, o.secret, State(o)>>

EncodedBefore(x, y) ==
    \/ x[1] < y[1]
    \/ x[1] = y[1] /\ x[2] < y[2]
    \/ x[1] = y[1] /\ x[2] = y[2] /\ x[3] < y[3]

\* The places of a list that are of one assignment type.
OfType(list, type) == {i \in DOMAIN list : list[i].type = type}

\* The outputs of a type, encoded, by their place in the request.
Group(request, type) ==
    [i \in OfType(request.outputs, type) |-> EncodeOutput(request.outputs[i])]

SortedInputs(inputs) == Sorted(inputs, CompareOpout)

\* Mutant of SortedGroup: the list stays as it came.
SortedGroupNever(request, type) ==
    LET own == SelectSeq(request.outputs, LAMBDA o : o.type = type)
    IN  [i \in DOMAIN own |-> EncodeOutput(own[i])]

SortedGroup(request, type) == Sorted(Group(request, type), EncodedBefore)

\* Mutant of InputsDistinct: an input may be named twice.
InputsDistinctAssumed(inputs) == TRUE

InputsDistinct(inputs) == NoRepeat(SortedInputs(inputs))

(***************************************************************************)
(* BuildTransition: what it refuses, and the value it returns.             *)
(***************************************************************************)
\* writeMetadata, writeGlobals: neither map nor any of its values is too long.
MetadataFits(request) == request.fits

ClassOf(request, type) == {request.outputs[i].class : i \in OfType(request.outputs, type)}

CanBuild(request) ==
    /\ Len(request.inputs) \in 1 .. MaxItems
    /\ Len(request.outputs) \in 1 .. MaxItems
    /\ request.signature \in {"none", "whole"}
    /\ InputsDistinct(request.inputs)
    /\ \A i, j \in DOMAIN request.outputs :
           LET o == request.outputs[i]
               p == request.outputs[j]
           IN  /\ o.class \in Class
               /\ o.type = p.type => o.class = p.class
               /\ SealGivenOnce(o)
    /\ MetadataFits(request)
    /\ \A t \in AssignmentTypes : NoRepeat(SortedGroup(request, t))

BuildTransition(request) ==
    [type      |-> request.type,
     metadata  |-> request.metadata,
     globals   |-> request.globals,
     inputs    |-> SortedInputs(request.inputs),
     outputs   |-> [t \in AssignmentTypes |-> SortedGroup(request, t)],
     class     |-> [t \in AssignmentTypes |-> ClassOf(request, t)],
     signature |-> request.signature]

\* Mutant of AssignmentSecret: a revealed seal is committed as it is.
AssignmentSecretOpen(e) == e[2]

\* A revealed seal is committed in concealed form (assignmentSecret).
AssignmentSecret(e) == IF e[1] = 1 THEN e[2] ELSE Conceal[e[2]]

(***************************************************************************)
(* CommitTransition: everything but the signature, the assignments in the  *)
(* order of their lists.  Ids are hashes; here they are what is hashed.    *)
(***************************************************************************)
CommitGlobals(op) == {<<g, op.globals[g]>> : g \in DOMAIN op.globals}

CommitAssignments(op) ==
    [t \in AssignmentTypes |->
        [i \in DOMAIN op.outputs[t] |->
            <<op.outputs[t][i][3], AssignmentSecret(op.outputs[t][i])>>]]

CommitTransition(op) ==
    [type        |-> op.type,
     metadata    |-> op.metadata,
     globals     |-> CommitGlobals(op),
     inputs      |-> op.inputs,
     assignments |-> CommitAssignments(op)]

(***************************************************************************)
(* EncodeDisclose: the id, and by type and index the concealed form of     *)
(* every seal that is revealed, the amounts and the structured data.       *)
(***************************************************************************)
Places(op) == UNION {{t} \X DOMAIN op.outputs[t] : t \in AssignmentTypes}
At(op, place) == op.outputs[place[1]][place[2]]

EncodeDisclose(op) ==
    [id       |-> CommitTransition(op),
     seals    |-> {<<p, AssignmentSecret(At(op, p))>> : p \in {q \in Places(op) : At(op, q)[1] = 0}},
     fungible |-> {<<p, At(op, p)[3]>> : p \in {q \in Places(op) : op.class[q[1]] = {"fungible"}}},
     data     |-> {<<p, At(op, p)[3]>> : p \in {q \in Places(op) : op.class[q[1]] = {"structured"}}}]

(***************************************************************************)
(* BuildBundle: one transition, committed to every input the caller names. *)
(* A map with a repeated key does not decode.                              *)
(***************************************************************************)
CanBundle(inputs) == Len(inputs) \in 1 .. MaxItems /\ InputsDistinct(inputs)

BuildBundle(inputs, op) ==
    [inputMap |-> [r \in {inputs[i] : i \in DOMAIN inputs} |-> CommitTransition(op)],
     known    |-> op]

\* An output's seal revealed in its place (consignment/reveal.go).
RevealAt(op, t, i, seal) == [op EXCEPT !.outputs[t][i] = <<0, seal, @[3]>>]
===============================================================================
