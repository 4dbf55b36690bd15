------------------------------ MODULE RejectList ------------------------------
(***************************************************************************)
(* The reject list policy of a wallet: an issuer publishes which           *)
(* allocations, and what descends from them, its holders should refuse     *)
(* (rejectlist/rejectlist.go), and a wallet checks its allocations against *)
(* the graph that a container discloses (consignment/dag.go).              *)
(***************************************************************************)
EXTENDS Consignment

CONSTANTS Disclosures,  \* the containers whose allocations are checked
          Responses,    \* what the issuer's service may answer: lists of lines
          NoOpout       \* operations.Opout{}: no opout, or a line that is none

Line == [opout : Ref \cup {NoOpout}, allowed : BOOLEAN]

ASSUME RejectListAssumption ==
    /\ Disclosures \subseteq Container
    /\ Responses \subseteq Seq(Line)
    /\ NoOpout \notin Ref

VARIABLES
    container, lines,  \* what the wallet was given
    read, decisions,   \* Parse: the lines that were read, and what they decide
    pc,                \* parsing, searching or answered
    checked,           \* the allocation that is checked
    pending, seen,     \* RejectedAncestor: the stack, and what was visited
    found              \* its answer

given  == <<container, lines>>
parsed == <<read, decisions>>
search == <<checked, pending, seen, found>>
vars   == <<given, parsed, pc, search>>

\* Every opout there is: made or consumed by an operation.
Opouts == UNION {Outputs(op) \cup Inputs(op) : op \in Op}

TypeOK ==
    /\ container \in Disclosures /\ lines \in Responses
    /\ read \in 0..Len(lines)
    /\ DOMAIN decisions \subseteq Ref
    /\ \A o \in DOMAIN decisions : decisions[o] \in BOOLEAN
    /\ pc \in {"parsing", "searching", "answered"}
    /\ checked \in Opouts \cup {NoOpout}
    /\ pending \subseteq Opouts /\ seen \subseteq Opouts
    /\ found \in Opouts \cup {NoOpout}

Init ==
    /\ container \in Disclosures /\ lines \in Responses
    /\ read = 0 /\ decisions = <<>>
    /\ pc = "parsing"
    /\ checked = NoOpout /\ pending = {} /\ seen = {} /\ found = NoOpout

-------------------------------------------------------------------------------
\* Mutant of Decided: the first line about an opout stays.
DecidedFirst(known, line) ==
    IF line.opout = NoOpout \/ line.opout \in DOMAIN known THEN known
    ELSE [o \in DOMAIN known \cup {line.opout} |->
             IF o = line.opout THEN line.allowed ELSE known[o]]

\* Mutant of Decided: what is no opout is recorded all the same.
DecidedMalformed(known, line) ==
    [o \in DOMAIN known \cup {line.opout} |->
        IF o = line.opout THEN line.allowed ELSE known[o]]

\* The decisions after one more line: a later line about an opout wins.
Decided(known, line) ==
    IF line.opout = NoOpout THEN known
    ELSE [o \in DOMAIN known \cup {line.opout} |->
             IF o = line.opout THEN line.allowed ELSE known[o]]

ParseLine ==
    /\ pc = "parsing"
    /\ read < Len(lines)
    /\ read' = read + 1
    /\ decisions' = Decided(decisions, lines[read + 1])
    /\ UNCHANGED <<given, pc, search>>

Allow  == {o \in DOMAIN decisions : decisions[o]}
Reject == DOMAIN decisions \ Allow

-------------------------------------------------------------------------------
Listed == {Genesis} \cup {At(container, p) : p \in Positions(container)}

\* The keys of the graph: concealed outputs have no entry.
Disclosed == UNION {RevealedOutputs(container, op) : op \in Listed}

\* Mutant of Parents: an output inherits only the input of its own number.
ParentsPaired(o) == {r \in Inputs(o.op) : o \in Disclosed /\ r.no = o.no}

\* OperationDAG: each disclosed output inherits every input of its operation.
Parents(o) == {r \in Inputs(o.op) : o \in Disclosed}

\* The wallet checks one allocation after another with one list.  A container
\* with a malformed bundle has no graph.
Check(o) ==
    /\ pc \in {"parsing", "answered"}
    /\ read = Len(lines)
    /\ \A i \in DOMAIN container.bundles : BundleWellFormed(container.bundles[i])
    /\ pc' = "searching"
    /\ checked' = o /\ pending' = {o} /\ seen' = {} /\ found' = NoOpout
    /\ UNCHANGED <<given, parsed>>

\* One turn of the loop.  The code's stack may hold an opout twice and takes
\* the last; a set in any order covers every order of inputs.
Visit(o) ==
    /\ pc = "searching"
    /\ o \in pending
    /\ seen' = seen \cup {o}
    /\ \/ /\ o \in seen \cup Allow
          /\ pending' = pending \ {o}
          /\ UNCHANGED <<pc, found>>
       \/ /\ o \in Reject \ seen
          /\ pc' = "answered" /\ found' = o
          /\ pending' = pending \ {o}
       \/ /\ o \notin seen \cup Allow \cup Reject
          /\ pending' = (pending \ {o}) \cup Parents(o)
          /\ UNCHANGED <<pc, found>>
    /\ UNCHANGED <<given, parsed, checked>>

NothingFound ==
    /\ pc = "searching"
    /\ pending = {}
    /\ pc' = "answered"
    /\ UNCHANGED <<given, parsed, search>>

Next == \/ ParseLine
        \/ \E o \in Opouts : Check(o) \/ Visit(o)
        \/ NothingFound

Spec == Init /\ [][Next]_vars

-------------------------------------------------------------------------------
(***************************************************************************)
(* The policy, said without a map and without a search.  The last of the   *)
(* first n lines that is about an opout decides.  The lineage of an        *)
(* allocation is what it descends from along the operations themselves,    *)
(* disclosed or not, up to the opouts that the list shields.               *)
(***************************************************************************)
Says(n, o, allowed) ==
    \E i \in 1..n : /\ lines[i].opout = o /\ lines[i].allowed = allowed
                    /\ \A j \in (i + 1)..n : lines[j].opout # o

Shielded(o) == Says(Len(lines), o, TRUE)
Rejected(o) == Says(Len(lines), o, FALSE)

ClosedUpwards(s) == \A o \in s : Shielded(o) \/ Inputs(o.op) \subseteq s

Lineage(o) == {a \in Opouts : \A s \in SUBSET Opouts : o \in s /\ ClosedUpwards(s) => a \in s}

(***************************************************************************)
(* What the search names is rejected by the list and in the lineage of     *)
(* what was checked, whatever the container discloses: no allocation is    *)
(* refused for a sibling, a descendant or a shielded ancestor              *)
(* (rejectlist.go:66-67).                                                  *)
(***************************************************************************)
NamesARejection ==
    pc = "answered" /\ found # NoOpout => Rejected(found) /\ found \in Lineage(checked)

(***************************************************************************)
(* If the history is good and the allocation disclosed, nothing rejected   *)
(* is missed: the disclosed graph, from which concealed outputs are left   *)
(* out (dag.go:64-79), still holds the whole lineage.                      *)
(***************************************************************************)
MissesNoRejection ==
    /\ pc = "answered" /\ found = NoOpout
    /\ HistoryGood(container)
    /\ checked \in Disclosed
    => \A o \in Lineage(checked) : ~Rejected(o)
===============================================================================
