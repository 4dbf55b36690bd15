------------------------------ MODULE Histories ------------------------------
(***************************************************************************)
(* The containers a wallet keeps, over their lives: validated, enriched by *)
(* the wallet's own seals (consignment/reveal.go), merged with other       *)
(* histories of the contract (consignment/merge.go), and extended by a new *)
(* transfer (consignment/builder.go).                                      *)
(*                                                                         *)
(* Merging is modelled bundle by bundle, as its loop goes.  MergeHistories *)
(* of more than two containers is that of the first two, merged with the   *)
(* third, and so on: only the flag and the terminals are reset, each time. *)
(***************************************************************************)
EXTENDS Consignment

CONSTANTS Slot,        \* where the wallet keeps its containers
          Received,    \* consignments it may receive
          Witnesses,   \* witness bundles it may append
          Seals,       \* outputs whose seals it knows and may reveal
          MaxBundles   \* the number of bundles that a list can hold

KnownOps(w) == {w.known[k] : k \in DOMAIN w.known}
ListedOps(c) == {Genesis} \cup UNION {KnownOps(c.bundles[i]) : i \in DOMAIN c.bundles}
Ids(c) == {c.bundles[i].id : i \in DOMAIN c.bundles}
OutputsOf(ops) == UNION {Outputs(op) : op \in ops}

ASSUME HistoriesAssumption ==
    /\ Received \subseteq Container
    /\ \A c \in Received : c.revealed \subseteq OutputsOf(ListedOps(c))
    /\ Witnesses \subseteq WitnessBundle
    /\ MaxBundles \in Nat

VARIABLES
    held,      \* slot -> the container, and its flag ConsensusValid
    merging,   \* the running call of MergeHistories, or Idle
    outcome    \* how the last one ended

vars == <<held, merging, outcome>>

Idle == [running |-> FALSE]
Merging == [running : {TRUE}, base : Slot, part : Slot, into : Slot,
            result : Container, next : Nat]

\* A container discloses nothing about an operation it does not list.
TypeOK ==
    /\ held \in [Slot -> [value : Container, valid : BOOLEAN]]
    /\ \A s \in Slot : held[s].value.revealed \subseteq OutputsOf(ListedOps(held[s].value))
    /\ merging \in Merging \cup {Idle}
    /\ merging # Idle =>
           merging.result.revealed \subseteq OutputsOf(ListedOps(merging.result))
    /\ outcome \in {"none", "merged", "refused"}

Fresh(c) == [value |-> c, valid |-> FALSE]

Init ==
    /\ held \in [Slot -> {Fresh(c) : c \in Received}]
    /\ merging = Idle
    /\ outcome = "none"

-------------------------------------------------------------------------------
\* The validator marks a container only if its history is good (Validator).
Mark(s) ==
    /\ merging = Idle
    /\ HistoryGood(held[s].value)
    /\ held' = [held EXCEPT ![s].valid = TRUE]
    /\ UNCHANGED <<merging, outcome>>

\* RevealGraphSeals: concealed seals of listed transitions, in place.  The
\* seals of genesis are not touched, and neither is the flag.
RevealGraphSeals(s, r) ==
    /\ merging = Idle
    /\ r \in OutputsOf(ListedOps(held[s].value) \ {Genesis})
    /\ held' = [held EXCEPT ![s].value.revealed = @ \cup {r}]
    /\ UNCHANGED <<merging, outcome>>

\* Mutant of Built: the copied flag is not reset.
BuiltValidated(h, w, secrets) ==
    [value |-> [h.value EXCEPT !.transfer = TRUE,
                               !.bundles = Append(@, w),
                               !.terminals = {id \in {w.id} : secrets # {}},
                               !.revealed = @ \cup (OutputsOf(KnownOps(w)) \ secrets)],
     valid |-> h.valid]

\* The new bundle goes last.  If there are secrets, outputs whose seals only
\* their receivers can reveal, the bundle is what the transfer protects.
Built(h, w, secrets) ==
    Fresh([h.value EXCEPT !.transfer = TRUE,
                          !.bundles = Append(@, w),
                          !.terminals = {id \in {w.id} : secrets # {}},
                          !.revealed = @ \cup (OutputsOf(KnownOps(w)) \ secrets)])

BuildTransfer(s, t, w, secrets) ==
    /\ merging = Idle
    /\ BundleWellFormed(w)
    /\ Len(held[s].value.bundles) < MaxBundles
    /\ held' = [held EXCEPT ![t] = Built(held[s], w, secrets)]
    /\ UNCHANGED <<merging, outcome>>

-------------------------------------------------------------------------------
Base == held[merging.base].value
Part == held[merging.part].value
Candidate == Part.bundles[merging.next]

\* An opid fixes every assignment, so only the genesis seals may differ in the
\* static fields of two containers of one contract.
SameStatic(b, p) == b.revealed \cap Outputs(Genesis) = p.revealed \cap Outputs(Genesis)

NoDuplicate(c) == \A i, j \in DOMAIN c.bundles : c.bundles[i].id = c.bundles[j].id => i = j

Refuse ==
    /\ merging' = Idle
    /\ outcome' = "refused"
    /\ UNCHANGED held

\* The checks before the loop over the candidate's bundles, and the copy.
StartMerge(b, p, t) ==
    /\ merging = Idle
    /\ LET base == held[b].value
           ok   == /\ \A i \in DOMAIN base.bundles : BundleWellFormed(base.bundles[i])
                   /\ NoDuplicate(base)
                   /\ SameStatic(base, held[p].value)
       IN  \/ ~ok /\ Refuse
           \/ /\ ok
              /\ merging' = [running |-> TRUE, base |-> b, part |-> p, into |-> t, next |-> 1,
                             result |-> [base EXCEPT !.transfer = TRUE, !.terminals = {}]]
              /\ UNCHANGED <<held, outcome>>

\* Mutant of SameBundle: the disclosed transitions are compared one by one.
SameBundleInOrder(w, v) ==
    w.tx = v.tx /\ w.embedded = v.embedded /\ w.known = v.known

\* mergeWitnessBundleDisclosures: the same witness in the same form, and as
\* many transitions, which the first of the two knows.
SameBundle(w, v) ==
    /\ w.tx = v.tx /\ w.embedded = v.embedded
    /\ Len(w.known) = Len(v.known)
    /\ KnownOps(v) \subseteq KnownOps(w)

\* Mutant of Enriched: a shared bundle keeps what it disclosed.
EnrichedNever(c, v) == c

\* Mutant of Enriched: what the candidate discloses elsewhere comes along.
EnrichedByAll(c, v) == [c EXCEPT !.revealed = @ \cup Part.revealed]

\* mergeOperationDisclosures: what either of them reveals is revealed.
Enriched(c, v) ==
    [c EXCEPT !.revealed = @ \cup (Part.revealed \cap OutputsOf(KnownOps(v)))]

\* Mutant of Extended: new bundles come first.
ExtendedBefore(c, v) == [Enriched(c, v) EXCEPT !.bundles = <<v>> \o @]

Extended(c, v) == [Enriched(c, v) EXCEPT !.bundles = Append(@, v)]

\* One bundle of the candidate: it is new, or shared, or stops the merge.
MergeBundle ==
    /\ merging # Idle
    /\ merging.next \in DOMAIN Part.bundles
    /\ LET c == merging.result
           shared == {i \in DOMAIN c.bundles : c.bundles[i].id = Candidate.id}
       IN  \/ /\ \/ ~BundleWellFormed(Candidate)
                 \/ \E i \in shared : ~SameBundle(c.bundles[i], Candidate)
                 \/ shared = {} /\ Len(c.bundles) >= MaxBundles
              /\ Refuse
           \/ /\ BundleWellFormed(Candidate)
              /\ shared # {}
              /\ \A i \in shared : SameBundle(c.bundles[i], Candidate)
              /\ merging' = [merging EXCEPT !.result = Enriched(@, Candidate), !.next = @ + 1]
              /\ UNCHANGED <<held, outcome>>
           \/ /\ BundleWellFormed(Candidate)
              /\ shared = {}
              /\ Len(c.bundles) < MaxBundles
              /\ merging' = [merging EXCEPT !.result = Extended(@, Candidate), !.next = @ + 1]
              /\ UNCHANGED <<held, outcome>>

FinishMerge ==
    /\ merging # Idle
    /\ merging.next > Len(Part.bundles)
    /\ held' = [held EXCEPT ![merging.into] = Fresh(merging.result)]
    /\ merging' = Idle
    /\ outcome' = "merged"

Next == \/ \E s \in Slot : Mark(s)
        \/ \E s \in Slot, r \in Seals : RevealGraphSeals(s, r)
        \/ \E s, t \in Slot, w \in Witnesses : \E secrets \in SUBSET OutputsOf(KnownOps(w)) :
               BuildTransfer(s, t, w, secrets)
        \/ \E b, p, t \in Slot : StartMerge(b, p, t)
        \/ MergeBundle
        \/ FinishMerge

Spec == Init /\ [][Next]_vars

-------------------------------------------------------------------------------
(***************************************************************************)
(* A container whose flag is set holds a good history, also after it was   *)
(* enriched, and after what was built from it or merged with it was put in *)
(* its place (builder.go:87, merge.go:95, reveal.go:93).                   *)
(***************************************************************************)
MarkedIsGood == \A s \in Slot : held[s].valid => HistoryGood(held[s].value)

Finished == merging # Idle /\ merging' = Idle

(***************************************************************************)
(* A merge keeps every bundle of both histories, once, the first one's in  *)
(* their places, and discloses of them exactly what either disclosed       *)
(* (merge.go:14-18).                                                       *)
(***************************************************************************)
MergeIsUnion ==
    [][Finished /\ outcome' = "merged" =>
           LET c == held'[merging.into].value
           IN  /\ Ids(c) = Ids(Base) \cup Ids(Part)
               /\ NoDuplicate(c)
               /\ \A i \in DOMAIN Base.bundles : c.bundles[i] = Base.bundles[i]
               /\ c.revealed = Base.revealed \cup Part.revealed
               /\ c.terminals = {} /\ ~held'[merging.into].valid]_vars

(***************************************************************************)
(* Merging keeps ancestry: if both histories are good, and no two          *)
(* witnesses of the merged one spend the same output, it is good: nothing  *)
(* comes before its parents, nothing is consumed twice.                    *)
(***************************************************************************)
WitnessesCompatible(c) ==
    \A i, j \in DOMAIN c.bundles : i # j =>
        Transaction[c.bundles[i].tx].spends \cap Transaction[c.bundles[j].tx].spends = {}

MergeKeepsGood ==
    [][/\ Finished /\ outcome' = "merged"
       /\ HistoryGood(Base) /\ HistoryGood(Part)
       /\ WitnessesCompatible(held'[merging.into].value)
       => HistoryGood(held'[merging.into].value)]_vars

(***************************************************************************)
(* Once a merge of two good histories runs, it is refused only for a       *)
(* bundle that they share and know in different ways, for one that the     *)
(* second lists in parts, or because they are too long together            *)
(* (merge.go:66-74).                                                       *)
(***************************************************************************)
RefusedForAReason ==
    [][/\ Finished /\ outcome' = "refused"
       /\ HistoryGood(Base) /\ HistoryGood(Part)
       => \/ Cardinality(Ids(Base) \cup Ids(Part)) > MaxBundles
          \/ ~NoDuplicate(Part)
          \/ \E i \in DOMAIN Base.bundles, j \in DOMAIN Part.bundles :
                 LET w == Base.bundles[i]
                     v == Part.bundles[j]
                 IN  /\ w.id = v.id
                     /\ <<w.tx, w.embedded, KnownOps(w)>> # <<v.tx, v.embedded, KnownOps(v)>>]_vars
===============================================================================
