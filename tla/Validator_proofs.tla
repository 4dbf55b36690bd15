---------------------------- MODULE Validator_proofs ----------------------------
(***************************************************************************)
(* The validation loop never lets two operations consume the same state,   *)
(* and implements the single-use ledger, and what it accepts is a good     *)
(* history, whatever the consignments, the chain and the failures of the   *)
(* resolver.                                                               *)
(***************************************************************************)
EXTENDS Validator, Schemas_proofs

LEMMA Assumed ==
    /\ Genesis \in Op
    /\ Inputs(Genesis) = {}
    /\ \A op \in Op : Inputs(op) \subseteq Ref
    /\ \A op \in Op : Outputs(op) \subseteq Ref
    /\ \A op \in Op \ {Genesis} : Inputs(op) # {}
    /\ \A op \in Op : \A r \in Outputs(op) : State(r).seal \in Seal
    /\ \A r \in Outputs(Genesis) : State(r).seal.tx \in Tx
BY ConsignmentAssumption

\* What the loop reads of a container.
LEMMA ContainerShape ==
    ASSUME NEW c \in Containers
    PROVE  /\ c.terminals \subseteq BundleId
           /\ \A i \in DOMAIN c.bundles :
                  /\ i \in Nat /\ i >= 1 /\ i <= Len(c.bundles)
                  /\ c.bundles[i] \in WitnessBundle
           /\ Len(c.bundles) \in Nat
           /\ DOMAIN c.bundles = 1 .. Len(c.bundles)
BY ContainersAssumption DEF Container

LEMMA KnownShape ==
    ASSUME NEW w \in WitnessBundle
    PROVE  /\ w.tx \in Tx /\ w.id \in BundleId
           /\ Len(w.known) \in Nat
           /\ DOMAIN w.known = 1 .. Len(w.known)
           /\ \A k \in DOMAIN w.known : w.known[k] \in Op \ {Genesis}
           /\ w.known # <<>> => 1 \in DOMAIN w.known
BY DEF WitnessBundle

LEMMA OutputsMadeBy ==
    ASSUME NEW op, NEW r \in Outputs(op)
    PROVE  r.op = op
BY DEF Outputs

LEMMA OutpointTyped ==
    ASSUME NEW op \in Op, NEW r \in Outputs(op), NEW witness,
           witness \in Tx \/ (op = Genesis /\ witness = NoTx)
    PROVE  OutpointOf(r, witness) \in Outpoint
<1>1. /\ State(r).seal \in Seal
      /\ op = Genesis => State(r).seal.tx \in Tx
  BY Assumed
<1>2. WitnessTx \notin Tx
  BY ConsignmentAssumption
<1> QED BY <1>1, <1>2 DEF OutpointOf, Outpoint, Seal

-------------------------------------------------------------------------------
(***************************************************************************)
(* The inductive invariant.  Bookkeeping relates the maps of the loop; the *)
(* types are needed to follow a transition into the graph.                 *)
(***************************************************************************)
IInv == TypeOK /\ Bookkeeping /\ NoDoubleSpend

LEMMA RegisteredShape ==
    ASSUME NEW op \in Op, NEW witness,
           witness \in Tx \/ (op = Genesis /\ witness = NoTx)
    PROVE  /\ DOMAIN Registered(op, witness) \subseteq Outputs(op)
           /\ DOMAIN Registered(op, witness) \subseteq Ref
           /\ \A r \in DOMAIN Registered(op, witness) :
                  /\ r.op = op
                  /\ Registered(op, witness)[r]
                         \in [outpoint : Outpoint, witness : Tx \cup {NoTx}]
<1>1. DOMAIN Registered(op, witness) = RevealedOutputs(container, op)
  BY DEF Registered
<1>2. RevealedOutputs(container, op) \subseteq Outputs(op)
  BY DEF RevealedOutputs
<1>3. Outputs(op) \subseteq Ref
  BY Assumed
<1>4. ASSUME NEW r \in RevealedOutputs(container, op)
      PROVE  /\ r.op = op
             /\ Registered(op, witness)[r]
                    \in [outpoint : Outpoint, witness : Tx \cup {NoTx}]
  <2>1. r \in Outputs(op)
    BY <1>2
  <2>2. OutpointOf(r, witness) \in Outpoint
    BY <2>1, OutpointTyped
  <2>3. Registered(op, witness)[r] = [outpoint |-> OutpointOf(r, witness), witness |-> witness]
    BY DEF Registered
  <2> QED BY <2>1, <2>2, <2>3, OutputsMadeBy
<1> QED BY <1>1, <1>2, <1>3, <1>4

LEMMA InitInv == Init => IInv
<1> SUFFICES ASSUME Init PROVE IInv
  OBVIOUS
<1>1. DOMAIN states = {} /\ DOMAIN graph = {}
  BY DEF Init
<1>2. ChainTypeOK
  BY DEF Init, ChainInit, ChainTypeOK, WitnessState
<1>3. TypeOK
  BY <1>1, <1>2 DEF Init, TypeOK, Mode
<1>4. Bookkeeping
  BY <1>1 DEF Init, Bookkeeping
<1>5. NoDoubleSpend
  BY <1>1 DEF NoDoubleSpend
<1> QED BY <1>3, <1>4, <1>5 DEF IInv

\* What only reads the maps and the position is kept by whoever leaves them.
LEMMA Stuttering ==
    ASSUME IInv,
           UNCHANGED <<container, pc, at, step, unchecked, states, consumed, graph,
                       pending, current>>
    PROVE  Bookkeeping' /\ NoDoubleSpend'
<1>1. Bundles' = Bundles /\ Bundle' = Bundle /\ Current' = Current
  BY DEF Bundles, Bundle, Current
<1>2. Bookkeeping'
  BY <1>1 DEF IInv, Bookkeeping
<1> QED BY <1>2 DEF IInv, NoDoubleSpend

LEMMA StartInv ==
    ASSUME IInv, NEW m \in Mode, Start(m)
    PROVE  IInv'
<1>1. /\ states' = Registered(Genesis, NoTx)
      /\ consumed' = {} /\ pc' = "bundle" /\ at' = 1 /\ step' = 0
      /\ pending' = {} /\ current' = {} /\ historical' = {} /\ prepared' = {}
  BY DEF Start
<1>2. /\ DOMAIN graph' = {Genesis}
      /\ graph'[Genesis] = [bundle |-> NoBundle, parents |-> {}]
  BY DEF Start
<1>3. /\ DOMAIN states' \subseteq Outputs(Genesis)
      /\ DOMAIN states' \subseteq Ref
      /\ \A r \in DOMAIN states' :
             /\ r.op = Genesis
             /\ states'[r] \in [outpoint : Outpoint, witness : Tx \cup {NoTx}]
  BY <1>1, Assumed, RegisteredShape
<1>4. Genesis \in Op /\ Inputs(Genesis) = {}
  BY Assumed
<1>5. TypeOK'
  BY <1>1, <1>2, <1>3, <1>4 DEF IInv, TypeOK, Start, ChainTypeOK
<1>6. Bookkeeping'
  BY <1>1, <1>2, <1>3, <1>4 DEF Bookkeeping
<1>7. NoDoubleSpend'
  BY <1>2 DEF NoDoubleSpend
<1> QED BY <1>5, <1>6, <1>7 DEF IInv

\* The witness bundle and the transition the loop stands at.
LEMMA PositionShape ==
    ASSUME TypeOK
    PROVE  /\ at >= 1 /\ at <= Len(Bundles) => at \in DOMAIN Bundles
           /\ at \in DOMAIN Bundles =>
                  /\ Bundle.tx \in Tx /\ Bundle.id \in BundleId
                  /\ Len(Bundle.known) \in Nat
                  /\ DOMAIN Bundle.known = 1 .. Len(Bundle.known)
                  /\ \A k \in DOMAIN Bundle.known : Bundle.known[k] \in Op \ {Genesis}
                  /\ Bundle.known # <<>> => 1 \in DOMAIN Bundle.known
<1>1. container \in Containers /\ at \in Nat
  BY DEF TypeOK
<1>2. at >= 1 /\ at <= Len(Bundles) => at \in DOMAIN Bundles
  BY <1>1, ContainerShape DEF Bundles
<1>3. at \in DOMAIN Bundles => Bundle \in WitnessBundle
  BY <1>1, ContainerShape DEF Bundles, Bundle
<1> QED BY <1>2, <1>3, KnownShape

LEMMA ResolveBundleInv ==
    ASSUME IInv, ResolveBundle
    PROVE  IInv'
<1> USE DEF IInv
<1>1. at \in DOMAIN Bundles
  BY PositionShape DEF ResolveBundle, Bookkeeping, TypeOK
<1>2. /\ Bundle.tx \in Tx
      /\ Bundle.known # <<>> => 1 \in DOMAIN Bundle.known
      /\ \A k \in DOMAIN Bundle.known : Bundle.known[k] \in Op \ {Genesis}
  BY <1>1, PositionShape
<1>3. UNCHANGED <<container, mode, states, consumed, graph, complete, edges,
                  report, consensusValid, disturbed, chain, at>>
  BY DEF ResolveBundle, resolution
<1>4. PICK answer \in WitnessAnswers(Bundle.tx) :
         LET resolved == Resolve(Bundle, answer)
             e        == ResolutionError(Bundle, resolved)
         IN  \/ /\ e # "none"
                /\ Fail(e)
                /\ UNCHANGED <<resolution, prepared>>
             \/ /\ e = "none"
                /\ pc' = "transition"
                /\ evidence' = resolved
                /\ step' = 1
                /\ unchecked' = Inputs(Bundle.known[1])
                /\ prepared' = prepared \cup {tx \in {Bundle.tx} : resolved = "prepared"}
                /\ UNCHANGED <<at, err>>
  BY DEF ResolveBundle
<1> DEFINE resolved == Resolve(Bundle, answer)
           e        == ResolutionError(Bundle, resolved)
<1>5. CASE /\ e # "none"
           /\ Fail(e)
           /\ UNCHANGED <<resolution, prepared>>
  <2>1. pc' = "returned" /\ UNCHANGED <<evidence, step, unchecked, prepared>>
    BY <1>5 DEF Fail, resolution
  <2>2. TypeOK'
    BY <1>3, <2>1 DEF TypeOK, ChainTypeOK, report
  <2>3. Bookkeeping'
    BY <1>3, <2>1 DEF Bookkeeping, report, ResolveBundle
  <2>4. NoDoubleSpend'
    BY <1>3 DEF NoDoubleSpend
  <2> QED BY <2>2, <2>3, <2>4
<1>6. CASE /\ e = "none"
           /\ pc' = "transition"
           /\ evidence' = resolved
           /\ step' = 1
           /\ unchecked' = Inputs(Bundle.known[1])
           /\ prepared' = prepared \cup {tx \in {Bundle.tx} : resolved = "prepared"}
           /\ UNCHANGED <<at, err>>
  <2>1. /\ BundleWellFormed(Bundle)
        /\ resolved \notin {"archived", "unresolved", "mismatch"}
    BY <1>6 DEF ResolutionError
  <2>2. resolved \in {"tentative", "mined", "prepared"}
    <3>1. answer.state \in WitnessState
      BY <1>2 DEF WitnessAnswers, TypeOK, ChainTypeOK, WitnessState
    <3> QED BY <2>1, <3>1 DEF Resolve, Unsent, WitnessState
  <2>3. 1 \in DOMAIN Bundle.known /\ Bundle.known[1] \in Op
    BY <1>2, <2>1 DEF BundleWellFormed
  <2>4. Inputs(Bundle.known[1]) \subseteq Ref
    BY <2>3, Assumed
  <2>5. TypeOK'
    BY <1>2, <1>3, <1>6, <2>2, <2>4 DEF TypeOK, ChainTypeOK, report
  <2>6. Bundles' = Bundles /\ Bundle' = Bundle /\ Current' = Bundle.known[1]
    BY <1>3, <1>6 DEF Bundles, Bundle, Current
  <2>7. pc = "bundle"
    BY DEF ResolveBundle
  <2>8. Bookkeeping'
    BY <1>1, <1>3, <1>6, <2>3, <2>6, <2>7 DEF Bookkeeping, report
  <2>9. NoDoubleSpend'
    BY <1>3 DEF NoDoubleSpend
  <2> QED BY <2>5, <2>8, <2>9
<1> QED BY <1>4, <1>5, <1>6

LEMMA CheckInputInv ==
    ASSUME IInv, CheckInput
    PROVE  IInv'
<1> USE DEF IInv
<1>1. UNCHANGED <<container, mode, at, step, evidence, states, consumed, graph,
                  prepared, complete, edges, historical, pending, current,
                  verdict, history, consensusValid, disturbed, chain>>
  BY DEF CheckInput, working, report
<1>2. pc = "transition"
  BY DEF CheckInput
<1>3. \/ pc' = "returned" /\ unchecked' = unchecked
      \/ /\ pc' = pc
         /\ \E r \in unchecked : r \in DOMAIN states /\ unchecked' = unchecked \ {r}
  BY DEF CheckInput, Fail, InputError
<1>4. unchecked' \subseteq unchecked
  BY <1>3
<1>5. TypeOK'
  BY <1>1, <1>2, <1>3, <1>4 DEF TypeOK, ChainTypeOK
<1>6. Bundles' = Bundles /\ Bundle' = Bundle /\ Current' = Current
  BY <1>1 DEF Bundles, Bundle, Current
<1>7. Bookkeeping'
  BY <1>1, <1>2, <1>3, <1>6 DEF Bookkeeping
<1>8. NoDoubleSpend'
  BY <1>1 DEF NoDoubleSpend
<1> QED BY <1>5, <1>7, <1>8

(***************************************************************************)
(* What makes a transition applicable when its last input was checked: all *)
(* its inputs are live, so it is new, and so are its outputs.              *)
(***************************************************************************)
LEMMA Applicable ==
    ASSUME IInv, pc = "transition", unchecked = {}
    PROVE  /\ Current \in Op \ {Genesis}
           /\ Inputs(Current) \subseteq DOMAIN states
           /\ Inputs(Current) \cap consumed = {}
           /\ \A r \in Inputs(Current) : r.op \in DOMAIN graph /\ r \in Outputs(r.op)
           /\ Current \notin DOMAIN graph
<1> USE DEF IInv
<1>1. /\ at \in DOMAIN Bundles /\ step \in DOMAIN Bundle.known
      /\ Inputs(Current) \subseteq DOMAIN states
  BY DEF Bookkeeping
<1>2. Current \in Op \ {Genesis}
  BY <1>1, PositionShape DEF Current
<1>3. \A r \in Inputs(Current) :
          r \notin consumed /\ r.op \in DOMAIN graph /\ r \in Outputs(r.op)
  BY <1>1 DEF Bookkeeping
<1>4. Current \notin DOMAIN graph
  <2> SUFFICES ASSUME Current \in DOMAIN graph PROVE FALSE
    OBVIOUS
  <2>1. PICK r \in Inputs(Current) : TRUE
    BY <1>2, Assumed
  <2>2. r \in consumed
    BY <2>1 DEF Bookkeeping
  <2> QED BY <1>3, <2>1, <2>2
<1> QED BY <1>1, <1>2, <1>3, <1>4

\* The maps after a transition was applied.
LEMMA AppliedMaps ==
    ASSUME IInv, ApplyTransition
    PROVE  /\ DOMAIN graph' = DOMAIN graph \cup {Current}
           /\ \A op \in DOMAIN graph : op # Current => graph'[op] = graph[op]
           /\ graph'[Current] \in [bundle : BundleId \cup {NoBundle}, parents : SUBSET Op]
           /\ consumed' = consumed \cup Inputs(Current)
           /\ DOMAIN states' \subseteq (DOMAIN states \ Inputs(Current)) \cup Outputs(Current)
           /\ \A r \in DOMAIN states' :
                  states'[r] \in [outpoint : Outpoint, witness : Tx \cup {NoTx}]
<1> USE DEF IInv
<1>1. pc = "transition" /\ unchecked = {}
  BY DEF ApplyTransition
<1>2. Current \in Op \ {Genesis} /\ Inputs(Current) \subseteq Ref
  BY <1>1, Applicable, Assumed
<1>3. Bundle.tx \in Tx /\ Bundle.id \in BundleId
  BY <1>1, PositionShape DEF Bookkeeping
<1>4. graph' = [op \in DOMAIN graph \cup {Current} |->
                   IF op = Current
                   THEN [bundle |-> Bundle.id, parents |-> {r.op : r \in Inputs(Current)}]
                   ELSE graph[op]]
  BY DEF ApplyTransition
<1>5. {r.op : r \in Inputs(Current)} \in SUBSET Op
  BY <1>2 DEF Ref
<1>6. /\ DOMAIN graph' = DOMAIN graph \cup {Current}
      /\ \A op \in DOMAIN graph : op # Current => graph'[op] = graph[op]
      /\ graph'[Current] \in [bundle : BundleId \cup {NoBundle}, parents : SUBSET Op]
  BY <1>3, <1>4, <1>5
<1>7. consumed' = consumed \cup Inputs(Current)
  BY DEF ApplyTransition, Retired
<1> DEFINE kept == Without(states, Inputs(Current))
           new  == Registered(Current, Bundle.tx)
<1>8. states' = Register(kept, Current, Bundle.tx)
  BY DEF ApplyTransition, Retired
<1>9. /\ DOMAIN kept = DOMAIN states \ Inputs(Current)
      /\ \A r \in DOMAIN kept : kept[r] = states[r]
  BY DEF Without
<1>10. /\ DOMAIN new \subseteq Outputs(Current)
       /\ \A r \in DOMAIN new : new[r] \in [outpoint : Outpoint, witness : Tx \cup {NoTx}]
  BY <1>2, <1>3, RegisteredShape
<1>11. /\ DOMAIN states' = DOMAIN kept \cup DOMAIN new
       /\ \A r \in DOMAIN states' :
              states'[r] = IF r \in DOMAIN new THEN new[r] ELSE kept[r]
  BY <1>8 DEF Register
<1>12. \A r \in DOMAIN states : states[r] \in [outpoint : Outpoint, witness : Tx \cup {NoTx}]
  BY DEF TypeOK
<1>13. \A r \in DOMAIN states' :
           states'[r] \in [outpoint : Outpoint, witness : Tx \cup {NoTx}]
  BY <1>9, <1>10, <1>11, <1>12
<1>14. DOMAIN states' \subseteq (DOMAIN states \ Inputs(Current)) \cup Outputs(Current)
  BY <1>9, <1>10, <1>11
<1> QED BY <1>6, <1>7, <1>13, <1>14

LEMMA ApplyTransitionInv ==
    ASSUME IInv, ApplyTransition
    PROVE  IInv'
<1> USE DEF IInv
<1>1. pc = "transition" /\ unchecked = {}
  BY DEF ApplyTransition
<1>2. /\ Current \in Op \ {Genesis}
      /\ Inputs(Current) \subseteq DOMAIN states
      /\ Inputs(Current) \cap consumed = {}
      /\ \A r \in Inputs(Current) : r.op \in DOMAIN graph /\ r \in Outputs(r.op)
      /\ Current \notin DOMAIN graph
  BY <1>1, Applicable
<1>3. /\ Inputs(Current) \subseteq Ref
      /\ Outputs(Current) \subseteq Ref
      /\ \A r \in Outputs(Current) : r.op = Current
  BY <1>2, Assumed, OutputsMadeBy
<1>4. /\ at \in DOMAIN Bundles /\ step \in DOMAIN Bundle.known
      /\ at \in Nat /\ step \in Nat /\ at # 0
  BY <1>1 DEF Bookkeeping, TypeOK
<1>5. UNCHANGED <<container, mode, err, evidence, prepared, historical, pending,
                  current, verdict, history, consensusValid, disturbed, chain>>
  BY DEF ApplyTransition, report
<1>6. \/ /\ step + 1 \in DOMAIN Bundle.known
         /\ step' = step + 1
         /\ unchecked' = Inputs(Bundle.known[step + 1])
         /\ UNCHANGED <<pc, at, complete>>
      \/ /\ pc' = "bundle"
         /\ at' = at + 1
         /\ complete' = (complete /\ {Bundle.known[k] : k \in DOMAIN Bundle.known}
                                         = InputOperations(Bundle.id))
         /\ UNCHANGED <<step, unchecked>>
  BY <1>4, PositionShape DEF ApplyTransition
<1>7. TypeOK'
  <2>1. unchecked' \subseteq Ref
    BY <1>1, <1>6, PositionShape, Assumed, <1>4
  <2>2. /\ at' \in Nat /\ step' \in Nat
        /\ pc' \in {"idle", "bundle", "transition", "project", "returned"}
    BY <1>1, <1>4, <1>6
  <2>3. DOMAIN states' \subseteq Ref /\ consumed' \subseteq Ref /\ DOMAIN graph' \subseteq Op
    BY <1>2, <1>3, AppliedMaps DEF TypeOK
  <2>4. /\ \A r \in DOMAIN states' :
               states'[r] \in [outpoint : Outpoint, witness : Tx \cup {NoTx}]
        /\ \A op \in DOMAIN graph' :
               graph'[op] \in [bundle : BundleId \cup {NoBundle}, parents : SUBSET Op]
    BY AppliedMaps DEF TypeOK
  <2>5. pending' \subseteq DOMAIN states' /\ current' \subseteq DOMAIN states'
    BY <1>1, <1>5 DEF Bookkeeping
  <2>6. complete \in BOOLEAN
    BY DEF TypeOK
  <2>7. complete' \in BOOLEAN
    BY <1>6, <2>6, Zenon
  <2> QED BY <1>5, <2>1, <2>2, <2>3, <2>4, <2>5, <2>7 DEF TypeOK, ChainTypeOK
<1>8. Bookkeeping'
  <2>1. consumed' = UNION {Inputs(op) : op \in DOMAIN graph'}
    BY AppliedMaps DEF Bookkeeping
  <2>2. \A r \in consumed' : r.op \in DOMAIN graph'
    BY <1>2, AppliedMaps DEF Bookkeeping
  <2>3. \A r \in DOMAIN states' :
            r \notin consumed' /\ r.op \in DOMAIN graph' /\ r \in Outputs(r.op)
    <3> SUFFICES ASSUME NEW r \in DOMAIN states'
                 PROVE  r \notin consumed' /\ r.op \in DOMAIN graph' /\ r \in Outputs(r.op)
      OBVIOUS
    <3>1. CASE r \in DOMAIN states \ Inputs(Current)
      BY <3>1, AppliedMaps DEF Bookkeeping
    <3>2. CASE r \in Outputs(Current)
      <4>1. r.op = Current
        BY <3>2, <1>3
      <4>2. r \notin consumed /\ r \notin Inputs(Current)
        BY <4>1, <1>2 DEF Bookkeeping
      <4> QED BY <3>2, <4>1, <4>2, AppliedMaps
    <3> QED BY <3>1, <3>2, AppliedMaps
  <2>4. Genesis \in DOMAIN graph'
    BY <1>1, AppliedMaps DEF Bookkeeping
  <2>5. at' # 0 /\ pending' = {} /\ current' = {}
    BY <1>1, <1>4, <1>5, <1>6 DEF Bookkeeping
  <2>6. pc' = "transition" =>
            /\ at' \in DOMAIN Bundles'
            /\ step' \in DOMAIN Bundle.known'
            /\ unchecked' = Inputs(Current')
    BY <1>4, <1>5, <1>6 DEF Bundles, Bundle, Current
  <2> QED BY <2>1, <2>2, <2>3, <2>4, <2>5, <2>6 DEF Bookkeeping
<1>9. NoDoubleSpend'
  <2>1. \A op \in DOMAIN graph : Inputs(op) \cap Inputs(Current) = {}
    BY <1>2 DEF Bookkeeping
  <2> QED BY <2>1, AppliedMaps DEF NoDoubleSpend
<1> QED BY <1>7, <1>8, <1>9

LEMMA RefuseTransitionInv ==
    ASSUME IInv, RefuseTransition
    PROVE  IInv'
<1>1. /\ pc = "transition" /\ pc' = "returned"
      /\ UNCHANGED <<container, mode, at, step, evidence, unchecked, states, consumed,
                     graph, prepared, complete, edges, historical, pending, current,
                     verdict, history, consensusValid, disturbed, chain>>
  BY DEF RefuseTransition, Fail, resolution, working, report
<1> QED BY <1>1 DEF IInv, TypeOK, ChainTypeOK, Bookkeeping, NoDoubleSpend

LEMMA FinishBundlesInv ==
    ASSUME IInv, FinishBundles
    PROVE  IInv'
<1> USE DEF IInv
<1>1. UNCHANGED <<container, mode, at, step, evidence, unchecked, states, consumed,
                  graph, prepared, complete, edges, consensusValid, disturbed, chain>>
  BY DEF FinishBundles, resolution, working
<1>2. pc' \in {"returned", "project"} /\ pc = "bundle"
  BY DEF FinishBundles, Fail
<1>3. /\ pending' \subseteq DOMAIN states
      /\ current' = current /\ verdict' = verdict
  BY DEF FinishBundles, report, TypeOK
<1>4. historical' \subseteq Op
  <2>1. CASE historical' = historical
    BY <2>1 DEF TypeOK
  <2>2. CASE FinishError = "none" /\ historical' = HistoricalOps
    <3>1. HistoricalError = "none"
      BY <2>2 DEF FinishError
    <3>2. container.transfer => Reached \subseteq DOMAIN graph
      BY <3>1 DEF HistoricalError
    <3> QED BY <2>2, <3>2 DEF HistoricalOps, TypeOK
  <2> QED BY <2>1, <2>2 DEF FinishBundles, report
<1>5. TypeOK'
  BY <1>1, <1>2, <1>3, <1>4 DEF TypeOK, ChainTypeOK
<1>6. Bookkeeping' /\ NoDoubleSpend'
  BY <1>1, <1>2 DEF Bookkeeping, NoDoubleSpend
<1> QED BY <1>5, <1>6

LEMMA ProjectStateInv ==
    ASSUME IInv, ProjectState
    PROVE  IInv'
<1> USE DEF IInv
<1>1. UNCHANGED <<container, mode, at, step, evidence, unchecked, states, consumed,
                  graph, prepared, complete, edges, historical, verdict, history,
                  consensusValid, disturbed, chain>>
  BY DEF ProjectState, resolution, working
<1>2. pc = "project" /\ pc' \in {"project", "returned"}
  BY DEF ProjectState, Fail
<1>3. pending' \subseteq pending /\ current' \subseteq current \cup pending
  BY DEF ProjectState
<1>4. TypeOK'
  BY <1>1, <1>2, <1>3 DEF TypeOK, ChainTypeOK
<1>5. Bookkeeping' /\ NoDoubleSpend'
  BY <1>1, <1>2 DEF Bookkeeping, NoDoubleSpend
<1> QED BY <1>4, <1>5

LEMMA AcceptInv ==
    ASSUME IInv, Accept
    PROVE  IInv'
<1>1. /\ UNCHANGED <<container, mode, at, step, evidence, unchecked, states, consumed,
                     graph, prepared, complete, edges, historical, pending, current,
                     history, disturbed, chain>>
      /\ pc = "project" /\ pc' = "returned"
      /\ verdict' \in [consensus : BOOLEAN, prepared : BOOLEAN]
      /\ consensusValid' \in BOOLEAN
  BY DEF Accept, Verdict, resolution, working, IInv, TypeOK
<1> QED BY <1>1 DEF IInv, TypeOK, ChainTypeOK, Bookkeeping, NoDoubleSpend

LEMMA ChainInv ==
    ASSUME IInv, ChainGrows \/ ChainReorganises
    PROVE  IInv'
<1>1. /\ UNCHANGED <<container, mode, pc, at, step, evidence, unchecked, states, consumed,
                     graph, prepared, complete, edges, historical, pending, current,
                     verdict, history, consensusValid>>
      /\ disturbed' \in {"no", "grown", "reorganised"}
  BY DEF ChainGrows, ChainReorganises, resolution, working, report, IInv, TypeOK
<1>2. ChainTypeOK'
  <2>1. PICK tx \in Tx : Broadcast(tx) \/ Mine(tx) \/ Drop(tx)
    BY DEF ChainGrows, ChainReorganises, Grow, Reorganise
  <2>2. \E state \in WitnessState : chain' = [chain EXCEPT ![tx] = state]
    BY <2>1 DEF Broadcast, Mine, Drop, WitnessState
  <2> QED BY <2>2 DEF IInv, TypeOK, ChainTypeOK
<1>3. TypeOK'
  BY <1>1, <1>2 DEF IInv, TypeOK
<1> QED BY <1>1, <1>3, Stuttering DEF IInv

LEMMA NextInv == IInv /\ [Next]_vars => IInv'
<1> SUFFICES ASSUME IInv, [Next]_vars PROVE IInv'
  OBVIOUS
<1>1. CASE Call
  BY <1>1, StartInv DEF Call
<1>2. CASE Validate
  BY <1>2, ResolveBundleInv, CheckInputInv, ApplyTransitionInv, RefuseTransitionInv,
     FinishBundlesInv, ProjectStateInv, AcceptInv DEF Validate
<1>3. CASE ChainGrows \/ ChainReorganises
  BY <1>3, ChainInv
<1>4. CASE UNCHANGED vars
  <2>1. UNCHANGED <<container, mode, pc, at, step, evidence, unchecked, states, consumed,
                    graph, prepared, complete, historical, pending, current,
                    verdict, consensusValid, disturbed, chain>>
    BY <1>4 DEF vars, resolution, working, report
  <2>2. TypeOK'
    BY <2>1 DEF IInv, TypeOK, ChainTypeOK
  <2> QED BY <2>1, <2>2, Stuttering DEF IInv
<1> QED BY <1>1, <1>2, <1>3, <1>4 DEF Next

-------------------------------------------------------------------------------
\* Every variable of the validation loop stays in its type.
THEOREM TypeCorrect == Spec => []TypeOK
<1>1. IInv => TypeOK
  BY DEF IInv
<1> QED BY <1>1, InitInv, NextInv, PTL DEF Spec

\* The maps states, consumed and graph of the loop always agree
\* (validator.go:120-127, 198-239).
THEOREM MapsAgree == Spec => []Bookkeeping
<1>1. IInv => Bookkeeping
  BY DEF IInv
<1> QED BY <1>1, InitInv, NextInv, PTL DEF Spec

\* No two validated operations ever consume the same state, for every
\* contract, every consignment and every behaviour of Bitcoin and of the
\* resolver (validator.go:202).
THEOREM SingleUse == Spec => []NoDoubleSpend
<1>1. IInv => NoDoubleSpend
  BY DEF IInv
<1> QED BY <1>1, InitInv, NextInv, PTL DEF Spec

-------------------------------------------------------------------------------
(***************************************************************************)
(* Refinement of ContractLedger: Start opens the ledger, ApplyTransition   *)
(* is Apply, a projected state is a Report, and everything else stutters.  *)
(***************************************************************************)
LEMMA LiveIsCreated ==
    ASSUME IInv
    PROVE  DOMAIN states \subseteq Ledger!Created(DOMAIN graph) \ consumed
BY DEF IInv, Bookkeeping, Ledger!Created

LEMMA StartOpens ==
    ASSUME NEW m \in Mode, Start(m)
    PROVE  Ledger!Open
BY DEF Start, Ledger!Open

LEMMA ApplyTransitionApplies ==
    ASSUME IInv, ApplyTransition
    PROVE  Ledger!Apply(Current) /\ Current \in Op
<1>1. pc = "transition" /\ unchecked = {}
  BY DEF ApplyTransition
<1>2. /\ Current \in Op
      /\ Current \notin DOMAIN graph
      /\ Inputs(Current) \subseteq DOMAIN states
  BY <1>1, Applicable
<1>3. Inputs(Current) \subseteq Ledger!Created(DOMAIN graph) \ consumed
  BY <1>2, LiveIsCreated
<1>4. /\ DOMAIN graph' = DOMAIN graph \cup {Current}
      /\ consumed' = consumed \cup Inputs(Current)
      /\ current' = current
  BY AppliedMaps DEF ApplyTransition, report
<1> QED BY <1>2, <1>3, <1>4 DEF Ledger!Apply

LEMMA ProjectStateReports ==
    ASSUME IInv, ProjectState
    PROVE  \E refs \in SUBSET (Ledger!Created(DOMAIN graph) \ consumed) : Ledger!Report(refs)
<1>1. graph' = graph /\ consumed' = consumed
  BY DEF ProjectState, working
<1>2. current \subseteq current' /\ current' \subseteq current \cup pending
  BY DEF ProjectState
<1> DEFINE refs == current' \ current
<1>3. refs \subseteq pending /\ current' = current \cup refs
  BY <1>2
<1>4. refs \subseteq Ledger!Created(DOMAIN graph) \ consumed
  BY <1>3, LiveIsCreated DEF IInv, TypeOK
<1> QED BY <1>1, <1>3, <1>4 DEF Ledger!Report

LEMMA StepKeepsLedger == IInv /\ [Next]_vars => [Ledger!Next]_(Ledger!ledgerVars)
<1> SUFFICES ASSUME IInv, [Next]_vars PROVE [Ledger!Next]_(Ledger!ledgerVars)
  OBVIOUS
<1>1. CASE Call
  BY <1>1, StartOpens DEF Call, Ledger!Next
<1>2. CASE ApplyTransition
  BY <1>2, ApplyTransitionApplies DEF Ledger!Next
<1>3. CASE ProjectState
  BY <1>3, ProjectStateReports DEF Ledger!Next
<1>4. CASE \/ ResolveBundle \/ CheckInput \/ RefuseTransition \/ FinishBundles
           \/ Accept \/ ChainGrows \/ ChainReorganises \/ UNCHANGED vars
  <2>1. UNCHANGED <<graph, consumed, current>>
    BY <1>4 DEF ResolveBundle, CheckInput, RefuseTransition, FinishBundles, Accept,
                ChainGrows, ChainReorganises, vars, working, report
  <2> QED BY <2>1 DEF Ledger!ledgerVars
<1> QED BY <1>1, <1>2, <1>3, <1>4 DEF Next, Validate

\* The loop implements the single-use ledger: an operation is accepted once,
\* on state that an accepted operation created and nobody consumed, and only
\* such state is reported as current.
THEOREM ImplementsLedger == Spec => LedgerSpec
<1>1. Init => Ledger!Init
  BY DEF Init, Ledger!Init
<1>2. Spec => []IInv
  BY InitInv, NextInv, PTL DEF Spec
<1> QED BY <1>1, <1>2, StepKeepsLedger, PTL DEF Spec, LedgerSpec, Ledger!Spec

-------------------------------------------------------------------------------
(***************************************************************************)
(* The checks of the loop add up: what it has passed is good, so a history *)
(* that it accepts is.                                                     *)
(***************************************************************************)
Walking == pc \in {"bundle", "transition"}

\* The position of the loop, and the positions of the container behind it.
Cursor == IF pc = "transition" THEN <<at, step>> ELSE <<at, 0>>
Passed == {p \in Positions(container) : Before(p, Cursor)}

\* A live state is revealed, and is where its operation was registered.
StatesPlaced ==
    \A r \in DOMAIN states :
        /\ r \in RevealedOutputs(container, r.op)
        /\ \/ /\ r.op = Genesis
              /\ states[r] = [outpoint |-> OutpointOf(r, NoTx), witness |-> NoTx]
           \/ \E q \in Passed :
                  /\ At(container, q) = r.op
                  /\ states[r] = [outpoint |-> OutpointOf(r, WitnessAt(container, q)),
                                  witness  |-> WitnessAt(container, q)]

\* The bundle of the loop is well formed and anchored.
Anchored(w) == BundleWellFormed(w) /\ Transaction[w.tx].commits = w.id

\* An input that was checked is committed to and closed.
InputsChecked ==
    /\ Anchored(Bundle)
    /\ \A r \in Inputs(Current) \ unchecked :
           /\ InputMapCommits(Bundle.id, r, Current)
           /\ Spends(Bundle.tx, states[r].outpoint)

\* A good history without the condition that nothing is consumed twice.
Supported(c, p) ==
    /\ TransitionValid(At(c, p))
    /\ \A r \in Inputs(At(c, p)) :
           InputMapCommits(c.bundles[p[1]].id, r, At(c, p)) /\ MadeAndClosed(c, r, p)

PassedGood ==
    /\ \A i \in DOMAIN Bundles : i < at => Anchored(Bundles[i])
    /\ \A p \in Passed : Supported(container, p)
    /\ \A p, q \in Passed :
           p # q => Inputs(At(container, p)) \cap Inputs(At(container, q)) = {}
    /\ DOMAIN graph = {Genesis} \cup {At(container, p) : p \in Passed}

Judged == pc = "project" \/ Accepted => HistoryGood(container)

HistoryInv ==
    /\ SealsClosed
    /\ Walking => StatesPlaced /\ PassedGood
    /\ pc = "transition" => InputsChecked
    /\ pc = "project" => ~HistoryOnly
    /\ Judged

LEMMA PositionFacts ==
  ASSUME NEW c \in Containers, NEW p \in Positions(c)
  PROVE  /\ p = <<p[1], p[2]>>
         /\ p[1] \in DOMAIN c.bundles /\ p[1] \in Nat /\ p[1] >= 1 /\ p[1] <= Len(c.bundles)
         /\ p[2] \in DOMAIN c.bundles[p[1]].known /\ p[2] \in Nat /\ p[2] >= 1
         /\ p[2] <= Len(c.bundles[p[1]].known)
         /\ c.bundles[p[1]] \in WitnessBundle
         /\ At(c, p) \in Op \ {Genesis}
         /\ At(c, p) = c.bundles[p[1]].known[p[2]]
         /\ WitnessAt(c, p) = c.bundles[p[1]].tx
         /\ WitnessAt(c, p) \in Tx
<1>1. p = <<p[1], p[2]>> /\ p[1] \in DOMAIN c.bundles /\ p[2] \in DOMAIN c.bundles[p[1]].known
  BY DEF Positions
<1>2. /\ p[1] \in Nat /\ p[1] >= 1 /\ p[1] <= Len(c.bundles)
      /\ c.bundles[p[1]] \in WitnessBundle
  BY <1>1, ContainerShape
<1> DEFINE w == c.bundles[p[1]]
<1>3. /\ w.tx \in Tx /\ Len(w.known) \in Nat /\ DOMAIN w.known = 1 .. Len(w.known)
      /\ \A k \in DOMAIN w.known : w.known[k] \in Op \ {Genesis}
  BY <1>2, KnownShape
<1> QED BY <1>1, <1>2, <1>3 DEF At, WitnessAt

LEMMA PositionIn ==
  ASSUME NEW c, NEW i \in DOMAIN c.bundles, NEW k \in DOMAIN c.bundles[i].known
  PROVE  /\ <<i, k>> \in Positions(c)
         /\ At(c, <<i, k>>) = c.bundles[i].known[k]
         /\ WitnessAt(c, <<i, k>>) = c.bundles[i].tx
BY DEF Positions, At, WitnessAt

\* How the loop moves past positions.
LEMMA PassedNone ==
    ASSUME IInv, pc' = "bundle", at' = 1, container' = container
    PROVE  Passed' = {}
<1>1. container \in Containers
  BY DEF IInv, TypeOK
<1>2. Cursor' = <<1, 0>>
  BY DEF Cursor
<1>3. \A p \in Positions(container) : p[1] >= 1 /\ p[2] >= 1 /\ p[1] \in Nat /\ p[2] \in Nat
  BY <1>1, PositionFacts
<1> QED BY <1>2, <1>3 DEF Passed, Before

LEMMA PassedSame ==
    ASSUME IInv, pc = "bundle", pc' = "transition", at' = at, step' = 1, container' = container
    PROVE  Passed' = Passed
<1>1. container \in Containers
  BY DEF IInv, TypeOK
<1>2. Cursor' = <<at, 1>> /\ Cursor = <<at, 0>>
  BY DEF Cursor
<1>3. \A p \in Positions(container) : p[1] >= 1 /\ p[2] >= 1 /\ p[1] \in Nat /\ p[2] \in Nat
  BY <1>1, PositionFacts
<1> QED BY <1>2, <1>3 DEF Passed, Before

LEMMA PassedOneMore ==
    ASSUME IInv, ApplyTransition
    PROVE  /\ <<at, step>> \in Positions(container)
           /\ <<at, step>> \notin Passed
           /\ Passed' = Passed \cup {<<at, step>>}
           /\ \A q \in Passed : Before(q, <<at, step>>)
<1> DEFINE here == <<at, step>>
<1>1. /\ container \in Containers /\ container' = container
      /\ at \in Nat /\ step \in Nat /\ pc = "transition"
      /\ at \in DOMAIN Bundles /\ step \in DOMAIN Bundle.known
  BY DEF IInv, TypeOK, Bookkeeping, ApplyTransition
<1>2. here \in Positions(container)
  BY <1>1, PositionIn DEF Bundles, Bundle
<1>3. Cursor = here /\ here[1] = at /\ here[2] = step
  BY <1>1 DEF Cursor
<1>4. \A q \in Passed : Before(q, here)
  BY <1>3 DEF Passed
<1>5. here \notin Passed
  BY <1>1, <1>3 DEF Passed, Before
<1>6. \A p \in Positions(container) :
          /\ p = <<p[1], p[2]>>
          /\ p[1] >= 1 /\ p[2] >= 1 /\ p[1] \in Nat /\ p[2] \in Nat
          /\ p[2] <= Len(container.bundles[p[1]].known)
  BY <1>1, PositionFacts
<1>7. CASE step < Len(Bundle.known) /\ step' = step + 1 /\ UNCHANGED <<pc, at>>
  <2>1. Cursor' = <<at, step + 1>>
    BY <1>1, <1>7 DEF Cursor
  <2>2. \A p \in Positions(container) : Before(p, <<at, step + 1>>) <=> Before(p, here) \/ p = here
    BY <1>1, <1>6 DEF Before
  <2> QED BY <1>1, <1>2, <1>3, <1>4, <1>5, <2>1, <2>2 DEF Passed
<1>8. CASE step = Len(Bundle.known) /\ pc' = "bundle" /\ at' = at + 1
  <2>1. Cursor' = <<at + 1, 0>>
    BY <1>8 DEF Cursor
  <2>2. \A p \in Positions(container) : p[1] = at => p[2] <= step
    BY <1>6, <1>8 DEF Bundle, Bundles
  <2>3. \A p \in Positions(container) : Before(p, <<at + 1, 0>>) <=> Before(p, here) \/ p = here
    BY <1>1, <1>6, <2>2 DEF Before
  <2> QED BY <1>1, <1>2, <1>3, <1>4, <1>5, <2>1, <2>3 DEF Passed
<1> QED BY <1>2, <1>4, <1>5, <1>7, <1>8 DEF ApplyTransition

-------------------------------------------------------------------------------
LEMMA HistoryInit == Init => HistoryInv
BY DEF Init, HistoryInv, SealsClosed, Walking, Judged, Accepted, Returned

\* A step that is about other things, and a step that gives up.
LEMMA HistoryStays ==
    ASSUME HistoryInv, UNCHANGED <<container, mode, pc, err, at, step, unchecked, states, graph>>
    PROVE  HistoryInv'
<1>1. /\ Bundles' = Bundles /\ Bundle' = Bundle /\ Current' = Current
      /\ Cursor' = Cursor
  BY DEF Bundles, Bundle, Current, Cursor
<1>2. Passed' = Passed
  BY <1>1 DEF Passed
<1>3. SealsClosed' = SealsClosed
  BY DEF SealsClosed
<1>4. StatesPlaced' = StatesPlaced /\ PassedGood' = PassedGood
  BY <1>1, <1>2 DEF StatesPlaced, PassedGood
<1>5. InputsChecked' = InputsChecked /\ Judged' = Judged /\ HistoryOnly' = HistoryOnly
  BY <1>1 DEF InputsChecked, Judged, Accepted, Returned, HistoryOnly, Collecting
<1> QED BY <1>3, <1>4, <1>5 DEF HistoryInv, Walking

LEMMA HistoryAfterFailure ==
    ASSUME HistoryInv, pc' = "returned", err' # "none", UNCHANGED <<container, graph>>
    PROVE  HistoryInv'
<1>1. SealsClosed'
  BY DEF HistoryInv, SealsClosed
<1> QED BY <1>1 DEF HistoryInv, Walking, Judged, Accepted, Returned

LEMMA StartHistory ==
    ASSUME IInv, HistoryInv, NEW m \in Mode, Start(m)
    PROVE  HistoryInv'
<1>1. /\ pc' = "bundle" /\ at' = 1 /\ container' = container
      /\ states' = Registered(Genesis, NoTx) /\ DOMAIN graph' = {Genesis}
  BY DEF Start
<1>2. Passed' = {}
  BY <1>1, PassedNone
<1>3. SealsClosed'
  BY <1>1 DEF SealsClosed
<1>4. StatesPlaced'
  <2>1. DOMAIN states' = RevealedOutputs(container, Genesis)
    BY <1>1 DEF Registered
  <2>2. \A r \in DOMAIN states' :
            states'[r] = [outpoint |-> OutpointOf(r, NoTx), witness |-> NoTx]
    BY <1>1 DEF Registered
  <2>3. \A r \in DOMAIN states' : r.op = Genesis
    BY <2>1, OutputsMadeBy DEF RevealedOutputs
  <2> QED BY <1>1, <2>1, <2>2, <2>3 DEF StatesPlaced
<1>5. PassedGood'
  <2>1. \A i \in DOMAIN Bundles : ~(i < 1)
    BY ContainerShape DEF IInv, TypeOK, Bundles
  <2>2. Bundles' = Bundles
    BY <1>1 DEF Bundles
  <2> QED BY <1>1, <1>2, <2>1, <2>2 DEF PassedGood
<1> QED BY <1>1, <1>3, <1>4, <1>5 DEF HistoryInv, Walking, Judged, Accepted, Returned

LEMMA ResolveBundleHistory ==
    ASSUME IInv, HistoryInv, ResolveBundle
    PROVE  HistoryInv'
<1>1. /\ pc = "bundle" /\ UNCHANGED <<container, mode, states, graph>>
  BY DEF ResolveBundle
<1>2. PICK answer \in WitnessAnswers(Bundle.tx) :
         LET resolved == Resolve(Bundle, answer)
             e        == ResolutionError(Bundle, resolved)
         IN  \/ /\ e # "none"
                /\ Fail(e)
             \/ /\ e = "none"
                /\ pc' = "transition"
                /\ step' = 1
                /\ unchecked' = Inputs(Bundle.known[1])
                /\ UNCHANGED <<at, err>>
  BY DEF ResolveBundle
<1> DEFINE e == ResolutionError(Bundle, Resolve(Bundle, answer))
<1>3. CASE e # "none" /\ Fail(e)
  BY <1>1, <1>3, HistoryAfterFailure DEF Fail
<1>4. CASE /\ e = "none"
           /\ pc' = "transition"
           /\ step' = 1
           /\ unchecked' = Inputs(Bundle.known[1])
           /\ UNCHANGED <<at, err>>
  <2>1. Passed' = Passed
    BY <1>1, <1>4, PassedSame
  <2>2. Bundles' = Bundles /\ Bundle' = Bundle /\ Current' = Bundle.known[1]
    BY <1>1, <1>4 DEF Bundles, Bundle, Current
  <2>3. Anchored(Bundle)
    BY <1>4 DEF ResolutionError, Anchored
  <2>4. InputsChecked'
    BY <1>4, <2>2, <2>3 DEF InputsChecked
  <2>5. StatesPlaced' /\ PassedGood'
    BY <1>1, <1>4, <2>1, <2>2 DEF HistoryInv, Walking, StatesPlaced, PassedGood
  <2>6. SealsClosed'
    BY <1>1 DEF HistoryInv, SealsClosed
  <2> QED BY <1>4, <2>4, <2>5, <2>6 DEF HistoryInv, Judged, Accepted, Returned
<1> QED BY <1>2, <1>3, <1>4

LEMMA CheckInputHistory ==
    ASSUME IInv, HistoryInv, CheckInput
    PROVE  HistoryInv'
<1>1. /\ pc = "transition" /\ UNCHANGED <<container, mode, at, step, states, graph>>
  BY DEF CheckInput, working
<1>2. CASE pc' = "returned" /\ err' # "none"
  BY <1>1, <1>2, HistoryAfterFailure
<1>3. CASE /\ UNCHANGED <<pc, err>>
           /\ \E r \in unchecked : InputError(r) = "none" /\ unchecked' = unchecked \ {r}
  <2>1. PICK r \in unchecked : InputError(r) = "none" /\ unchecked' = unchecked \ {r}
    BY <1>3
  <2>2. InputMapCommits(Bundle.id, r, Current) /\ Spends(Bundle.tx, states[r].outpoint)
    BY <2>1 DEF InputError
  <2>3. /\ Bundles' = Bundles /\ Bundle' = Bundle /\ Current' = Current /\ Cursor' = Cursor
    BY <1>1, <1>3 DEF Bundles, Bundle, Current, Cursor
  <2>4. Passed' = Passed
    BY <1>1, <2>3 DEF Passed
  <2>5. InputsChecked'
    BY <1>1, <2>1, <2>2, <2>3 DEF HistoryInv, InputsChecked
  <2>6. StatesPlaced' /\ PassedGood'
    BY <1>1, <2>3, <2>4 DEF HistoryInv, Walking, StatesPlaced, PassedGood
  <2>7. SealsClosed'
    BY <1>1 DEF HistoryInv, SealsClosed
  <2> QED BY <1>1, <1>3, <2>5, <2>6, <2>7 DEF HistoryInv, Judged, Accepted, Returned
<1> QED BY <1>2, <1>3 DEF CheckInput, Fail, PreparedInputError

\* The transition that is applied is supported by what was validated before.
LEMMA AppliedIsSupported ==
    ASSUME IInv, HistoryInv, ApplyTransition
    PROVE  /\ At(container, <<at, step>>) = Current
           /\ WitnessAt(container, <<at, step>>) = Bundle.tx
           /\ Supported(container, <<at, step>>)
<1> DEFINE here == <<at, step>>
<1>1. /\ pc = "transition" /\ unchecked = {} /\ TransitionValid(Current)
      /\ at \in DOMAIN Bundles /\ step \in DOMAIN Bundle.known
  BY DEF ApplyTransition, IInv, Bookkeeping
<1>2. At(container, here) = Current /\ WitnessAt(container, here) = Bundle.tx
  BY DEF At, WitnessAt, Current, Bundle, Bundles
<1>3. Inputs(Current) \subseteq DOMAIN states
  BY <1>1, Applicable
<1>4. \A q \in Passed : q \in Positions(container) /\ Before(q, here)
  BY PassedOneMore DEF Passed
<1>5. ASSUME NEW r \in Inputs(Current)
      PROVE  InputMapCommits(Bundle.id, r, Current) /\ MadeAndClosed(container, r, here)
  <2>1. InputMapCommits(Bundle.id, r, Current) /\ Spends(Bundle.tx, states[r].outpoint)
    BY <1>1 DEF HistoryInv, InputsChecked
  <2>2. /\ r \in RevealedOutputs(container, r.op)
        /\ \/ r.op = Genesis /\ states[r].outpoint = OutpointOf(r, NoTx)
           \/ \E q \in Passed :
                  /\ At(container, q) = r.op
                  /\ states[r].outpoint = OutpointOf(r, WitnessAt(container, q))
    BY <1>1, <1>3 DEF HistoryInv, Walking, StatesPlaced
  <2> QED BY <1>2, <1>4, <2>1, <2>2 DEF MadeAndClosed
<1>6. container.bundles[here[1]].id = Bundle.id
  BY DEF Bundle, Bundles
<1> QED BY <1>1, <1>2, <1>5, <1>6 DEF Supported

LEMMA ApplyTransitionHistory ==
    ASSUME IInv, HistoryInv, ApplyTransition
    PROVE  HistoryInv'
<1> DEFINE here == <<at, step>>
<1>1. /\ pc = "transition" /\ unchecked = {}
      /\ UNCHANGED <<container, mode, err>>
      /\ container \in Containers
      /\ at \in Nat /\ step \in Nat
      /\ at \in DOMAIN Bundles /\ step \in DOMAIN Bundle.known
  BY DEF ApplyTransition, IInv, TypeOK, Bookkeeping
<1>2. /\ here \in Positions(container) /\ here \notin Passed
      /\ Passed' = Passed \cup {here}
      /\ \A q \in Passed : q \in Positions(container)
  BY PassedOneMore DEF Passed
<1>3. /\ At(container, here) = Current /\ WitnessAt(container, here) = Bundle.tx
      /\ Supported(container, here)
  BY AppliedIsSupported
<1>4. /\ Current \in Op \ {Genesis}
      /\ Inputs(Current) \subseteq DOMAIN states
      /\ Inputs(Current) \cap consumed = {}
      /\ \A r \in Inputs(Current) : r.op \in DOMAIN graph
      /\ Current \notin DOMAIN graph
  BY <1>1, Applicable
<1>5. /\ DOMAIN graph' = DOMAIN graph \cup {Current}
      /\ \A op \in DOMAIN graph : graph'[op] = graph[op]
      /\ graph'[Current].bundle = Bundle.id
  BY <1>4 DEF ApplyTransition
<1>6. Bundles' = Bundles
  BY <1>1 DEF Bundles
<1>7. /\ Anchored(Bundle) /\ StatesPlaced /\ PassedGood
  BY <1>1 DEF HistoryInv, InputsChecked, Walking
<1>8. SealsClosed'
  <2> DEFINE Closed(op, p, g) ==
        /\ At(container, p) = op
        /\ container.bundles[p[1]].id = g[op].bundle
        /\ Transaction[WitnessAt(container, p)].commits = g[op].bundle
        /\ \A r \in Inputs(op) : /\ r.op \in DOMAIN g
                                 /\ InputMapCommits(g[op].bundle, r, op)
                                 /\ MadeAndClosed(container, r, p)
  <2>1. Closed(Current, here, graph')
    <3>1. container.bundles[here[1]].id = Bundle.id /\ container.bundles[here[1]].tx = Bundle.tx
      BY DEF Bundle, Bundles
    <3> QED BY <1>3, <1>4, <1>5, <1>7, <3>1 DEF Supported, Anchored
  <2>2. \A op \in DOMAIN graph \ {Genesis} : \E p \in Positions(container) : Closed(op, p, graph)
    BY DEF HistoryInv, SealsClosed
  <2>3. \A op \in DOMAIN graph : \A p : Closed(op, p, graph) => Closed(op, p, graph')
    BY <1>5
  <2>4. \A op \in DOMAIN graph' \ {Genesis} : \E p \in Positions(container) : Closed(op, p, graph')
    BY <1>2, <1>5, <2>1, <2>2, <2>3
  <2> QED BY <1>1, <2>4 DEF SealsClosed
<1>9. StatesPlaced'
  <2> DEFINE kept == Without(states, Inputs(Current))
             new  == Registered(Current, Bundle.tx)
  <2>1. states' = Register(kept, Current, Bundle.tx)
    BY DEF ApplyTransition, Retired
  <2>2. /\ DOMAIN new = RevealedOutputs(container, Current)
        /\ \A r \in DOMAIN new :
               new[r] = [outpoint |-> OutpointOf(r, Bundle.tx), witness |-> Bundle.tx]
        /\ \A r \in DOMAIN new : r.op = Current
    BY OutputsMadeBy DEF Registered, RevealedOutputs
  <2>3. /\ DOMAIN kept \subseteq DOMAIN states
        /\ \A r \in DOMAIN kept : kept[r] = states[r]
    BY DEF Without
  <2>4. \A r \in DOMAIN states' : \/ r \in DOMAIN new /\ states'[r] = new[r]
                                  \/ r \in DOMAIN kept /\ states'[r] = kept[r]
    BY <2>1 DEF Register
  <2>5. ASSUME NEW r \in DOMAIN states'
        PROVE  /\ r \in RevealedOutputs(container, r.op)
               /\ \/ /\ r.op = Genesis
                     /\ states'[r] = [outpoint |-> OutpointOf(r, NoTx), witness |-> NoTx]
                  \/ \E q \in Passed' :
                         /\ At(container, q) = r.op
                         /\ states'[r] = [outpoint |-> OutpointOf(r, WitnessAt(container, q)),
                                          witness  |-> WitnessAt(container, q)]
    <3> HIDE DEF new, kept
    <3>1. CASE r \in DOMAIN new /\ states'[r] = new[r]
      BY <1>2, <1>3, <2>2, <3>1
    <3>2. CASE r \in DOMAIN kept /\ states'[r] = kept[r]
      <4>1. r \in DOMAIN states /\ states'[r] = states[r]
        BY <2>3, <3>2
      <4> QED BY <1>2, <1>7, <4>1 DEF StatesPlaced
    <3> QED BY <2>4, <3>1, <3>2
  <2> QED BY <1>1, <2>5 DEF StatesPlaced
<1>10. PassedGood'
  <2>1. at' = at \/ at' = at + 1
    BY DEF ApplyTransition
  <2>2. \A i \in DOMAIN Bundles : i < at' => Anchored(Bundles[i])
    <3>1. \A i \in DOMAIN Bundles : i \in Nat
      BY <1>1, ContainerShape DEF Bundles
    <3> QED BY <1>1, <1>7, <2>1, <3>1 DEF PassedGood, Bundle
  <2>3. \A p \in Passed' : Supported(container, p)
    BY <1>2, <1>3, <1>7 DEF PassedGood
  <2>4. \A p \in Passed : Inputs(At(container, p)) \cap Inputs(Current) = {}
    <3>1. \A p \in Passed : At(container, p) \in DOMAIN graph
      BY <1>7 DEF PassedGood
    <3>2. \A op \in DOMAIN graph : Inputs(op) \subseteq consumed
      BY DEF IInv, Bookkeeping
    <3> QED BY <1>4, <3>1, <3>2
  <2>5. \A p, q \in Passed' : p # q => Inputs(At(container, p)) \cap Inputs(At(container, q)) = {}
    BY <1>2, <1>3, <1>7, <2>4 DEF PassedGood
  <2>6. DOMAIN graph' = {Genesis} \cup {At(container, p) : p \in Passed'}
    BY <1>2, <1>3, <1>5, <1>7 DEF PassedGood
  <2> QED BY <1>1, <1>6, <2>2, <2>3, <2>5, <2>6 DEF PassedGood
<1>11. pc' = "transition" => InputsChecked'
  <2> SUFFICES ASSUME pc' = "transition" PROVE InputsChecked'
    OBVIOUS
  <2>1. at' = at /\ step' = step + 1 /\ unchecked' = Inputs(Bundle.known[step + 1])
    BY DEF ApplyTransition
  <2>2. Bundle' = Bundle /\ Current' = Bundle.known[step + 1]
    BY <1>6, <2>1 DEF Bundle, Current
  <2> QED BY <1>7, <2>1, <2>2 DEF InputsChecked
<1>12. pc' \in {"bundle", "transition"}
  BY <1>1 DEF ApplyTransition
<1> QED BY <1>8, <1>9, <1>10, <1>11, <1>12 DEF HistoryInv, Judged, Accepted, Returned

\* When every bundle is done, every position is passed.
LEMMA AllPassed ==
    ASSUME IInv, pc = "bundle", at > Len(Bundles)
    PROVE  Passed = Positions(container)
<1>1. container \in Containers /\ at \in Nat
  BY DEF IInv, TypeOK
<1>2. Cursor = <<at, 0>>
  BY DEF Cursor
<1>3. \A p \in Positions(container) : p[1] \in Nat /\ p[1] <= Len(Bundles)
  BY <1>1, PositionFacts DEF Bundles
<1>4. Len(Bundles) \in Nat
  BY <1>1, ContainerShape DEF Bundles
<1> QED BY <1>1, <1>2, <1>3, <1>4 DEF Passed, Before

LEMMA AllPassedIsGood ==
    ASSUME IInv, HistoryInv, pc = "bundle", at > Len(Bundles)
    PROVE  HistoryGood(container)
<1>1. PassedGood /\ Passed = Positions(container)
  BY AllPassed DEF HistoryInv, Walking
<1>2. \A i \in DOMAIN Bundles : Anchored(Bundles[i])
  <2>1. container \in Containers /\ at \in Nat
    BY DEF IInv, TypeOK
  <2>2. \A i \in DOMAIN Bundles : i \in Nat /\ i <= Len(Bundles) /\ Len(Bundles) \in Nat
    BY <2>1, ContainerShape DEF Bundles
  <2> QED BY <1>1, <2>1, <2>2 DEF PassedGood
<1>3. \A p \in Positions(container) : Supported(container, p)
  BY <1>1 DEF PassedGood
<1>4. \A p, q \in Positions(container) :
          p # q => Inputs(At(container, p)) \cap Inputs(At(container, q)) = {}
  BY <1>1 DEF PassedGood
<1> QED BY <1>2, <1>3, <1>4 DEF HistoryGood, Supported, Anchored, Bundles

LEMMA FinishBundlesHistory ==
    ASSUME IInv, HistoryInv, FinishBundles
    PROVE  HistoryInv'
<1>1. /\ pc = "bundle" /\ at > Len(Bundles)
      /\ UNCHANGED <<container, mode, states, graph>>
  BY DEF FinishBundles, working
<1>2. HistoryGood(container)
  BY <1>1, AllPassedIsGood
<1>3. \/ pc' = "returned"
      \/ pc' = "project" /\ ~HistoryOnly
  BY DEF FinishBundles, Fail
<1>4. SealsClosed' /\ HistoryOnly' = HistoryOnly
  BY <1>1 DEF HistoryInv, SealsClosed, HistoryOnly, Collecting
<1> QED BY <1>1, <1>2, <1>3, <1>4 DEF HistoryInv, Walking, Judged

LEMMA ProjectingHistory ==
    ASSUME IInv, HistoryInv, ProjectState \/ Accept
    PROVE  HistoryInv'
<1>1. /\ pc = "project" /\ UNCHANGED <<container, mode, graph>>
      /\ pc' \in {"project", "returned"}
  BY DEF ProjectState, Accept, Fail, working
<1>2. HistoryGood(container) /\ ~HistoryOnly
  BY <1>1 DEF HistoryInv, Judged
<1>3. SealsClosed' /\ HistoryOnly' = HistoryOnly
  BY <1>1 DEF HistoryInv, SealsClosed, HistoryOnly, Collecting
<1> QED BY <1>1, <1>2, <1>3 DEF HistoryInv, Walking, Judged

LEMMA HistoryNext == IInv /\ HistoryInv /\ [Next]_vars => HistoryInv'
<1> SUFFICES ASSUME IInv, HistoryInv, [Next]_vars PROVE HistoryInv'
  OBVIOUS
<1>1. CASE Call
  BY <1>1, StartHistory DEF Call
<1>2. CASE ResolveBundle \/ CheckInput \/ ApplyTransition
  BY <1>2, ResolveBundleHistory, CheckInputHistory, ApplyTransitionHistory
<1>3. CASE RefuseTransition
  BY <1>3, HistoryAfterFailure DEF RefuseTransition, Fail, working
<1>4. CASE FinishBundles \/ ProjectState \/ Accept
  BY <1>4, FinishBundlesHistory, ProjectingHistory
<1>5. CASE ChainGrows \/ ChainReorganises \/ UNCHANGED vars
  BY <1>5, HistoryStays DEF ChainGrows, ChainReorganises, vars, resolution, working
<1> QED BY <1>1, <1>2, <1>3, <1>4, <1>5 DEF Next, Validate

LEMMA HistoryAlways == Spec => [](IInv /\ HistoryInv)
BY InitInv, NextInv, HistoryInit, HistoryNext, PTL DEF Spec

\* For every consignment: a validated operation only consumes state that a
\* validated operation made and that its own witness closes
\* (validator.go:198-211).
THEOREM SealsAlwaysClosed == Spec => []SealsClosed
<1>1. HistoryInv => SealsClosed
  BY DEF HistoryInv
<1> QED BY <1>1, HistoryAlways, PTL

\* Whatever is accepted, by any of the five entry points and whatever Bitcoin
\* does during the call, is a good history.
THEOREM AcceptsOnlyGood == Spec => []AcceptedIsGood
<1>1. HistoryInv => AcceptedIsGood
  BY DEF HistoryInv, Judged, AcceptedIsGood
<1> QED BY <1>1, HistoryAlways, PTL

\* Only a projecting call on a good history whose witnesses are all on the
\* chain marks the container (validator.go:84-87, 308-314).
THEOREM MarksOnlyOnChain == Spec => OnlyChainEvidenceMarks
<1>1. ASSUME IInv, HistoryInv, [Next]_vars, consensusValid' # consensusValid
      PROVE  ~HistoryOnly /\ HistoryGood(container) /\ prepared = {} /\ verdict'.consensus
  <2>1. Accept
    BY <1>1 DEF Next, Call, Start, Validate, ResolveBundle, CheckInput, ApplyTransition,
                RefuseTransition, FinishBundles, ProjectState, ChainGrows, ChainReorganises, vars
  <2>2. /\ pc = "project" /\ verdict' = Verdict
        /\ consensusValid' = (consensusValid \/ Verdict.consensus)
    BY <2>1 DEF Accept
  <2>3. consensusValid \in BOOLEAN
    BY <1>1 DEF IInv, TypeOK
  <2>4. Verdict.consensus = (prepared = {})
    BY DEF Verdict
  <2>5. prepared = {}
    BY <1>1, <2>2, <2>3, <2>4
  <2> QED BY <1>1, <2>2, <2>4, <2>5 DEF HistoryInv, Judged
<1>2. IInv /\ HistoryInv /\ [Next]_vars
      => [consensusValid' # consensusValid =>
              /\ ~HistoryOnly
              /\ HistoryGood(container)
              /\ prepared = {} /\ verdict'.consensus]_vars
  BY <1>1
<1> QED BY <1>2, HistoryAlways, PTL DEF Spec, OnlyChainEvidenceMarks
===============================================================================
