---------------------------- MODULE Reports_proofs ----------------------------
(***************************************************************************)
(* What a validation reports: the witnesses it lets stand, the state it    *)
(* projects, the material that explains it, that nothing good is refused,  *)
(* and that supply is conserved; for every set of consignments and every   *)
(* behaviour of the chain.                                                 *)
(***************************************************************************)
EXTENDS Validator_proofs

\* The transactions on the chain do not conflict.
ChainAgrees ==
    \A t1, t2 \in Tx :
        Live(t1) /\ Live(t2) /\ t1 # t2 => Transaction[t1].spends \cap Transaction[t2].spends = {}

\* Every resolved witness was on the chain, or is prepared.
Resolved(i) == i < at \/ (i = at /\ pc = "transition")
WitnessesSeen ==
    /\ prepared \subseteq {Bundles[i].tx : i \in DOMAIN Bundles}
    /\ disturbed # "reorganised" =>
           \A i \in DOMAIN Bundles : Resolved(i) => Bundles[i].tx \in prepared \/ Live(Bundles[i].tx)
    /\ disturbed = "no" /\ Faults = {} => \A tx \in prepared : ~Live(tx)
    /\ pc = "transition" /\ evidence = "prepared" => Bundle.tx \in prepared
    /\ pc = "transition" /\ evidence # "prepared" /\ disturbed # "reorganised" => Live(Bundle.tx)

\* A seal of r that the witness of p spends, and nobody else.
Spendable(r, p) ==
    \E o \in Transaction[WitnessAt(container, p)].spends :
        /\ \E w \in Tx \cup {NoTx} : o = OutpointOf(r, w)
        /\ Spenders(o) \subseteq {WitnessAt(container, p)}

WitnessesPossible ==
    ~Collecting /\ disturbed = "no" =>
        /\ Walking => \A p \in Passed : \A r \in Inputs(At(container, p)) : Spendable(r, p)
        /\ pc = "transition" =>
               \A r \in Inputs(Current) \ unchecked : Spendable(r, <<at, step>>)
        /\ pc = "project" \/ Accepted =>
               \A p \in Positions(container) : \A r \in Inputs(At(container, p)) : Spendable(r, p)

StatesComplete ==
    \A op \in DOMAIN graph : RevealedOutputs(container, op) \ consumed \subseteq DOMAIN states

Unspent(r) == \/ OnPrepared(r) /\ ~OutOfRange(r)
              \/ Exists(states[r].outpoint) /\ Spenders(states[r].outpoint) = {}

ProjectionExplained ==
    /\ pc # "returned" => err = "none"
    /\ pc = "project" \/ Accepted => at > Len(Bundles)
    /\ pc = "project" \/ Projected =>
           /\ historical = HistoricalOps
           /\ \A r \in DOMAIN states \ (pending \cup current) : MayOmit(r)
           /\ disturbed = "no" => \A r \in current : Unspent(r)
    /\ Projected => pending = {} /\ verdict = Verdict

EdgesComplete ==
    Collecting =>
        /\ \A e \in edges : e.consumer \in DOMAIN graph /\ e.input \in Inputs(e.consumer)
        /\ \A op \in DOMAIN graph : \A r \in Inputs(op) :
               \E e \in edges : e.input = r /\ e.consumer = op

MaterialRecorded == Accepted /\ Collecting => history = Material

ParentsMade == \A op \in DOMAIN graph : graph[op].parents = {r.op : r \in Inputs(op)}

-------------------------------------------------------------------------------
\* A transaction enters the chain only beside what it does not conflict with.
LEMMA ChainAgreesInit == Init => ChainAgrees
<1> SUFFICES ASSUME Init PROVE ChainAgrees
  OBVIOUS
<1>1. \A tx \in Tx : Live(tx) => tx \in Buried
  BY DEF Init, ChainInit, Live
<1> QED BY <1>1, BitcoinAssumption DEF ChainAgrees

LEMMA ChainMoves ==
    ASSUME IInv, ChainAgrees, Grow \/ Reorganise
    PROVE  /\ ChainAgrees'
           /\ Grow => \A tx \in Tx : Live(tx) => Live(tx)'
<1>1. chain \in [Tx -> WitnessState]
  BY DEF IInv, TypeOK, ChainTypeOK
<1>2. PICK tx \in Tx : \/ Grow /\ (Broadcast(tx) \/ Mine(tx))
                       \/ Reorganise /\ Drop(tx)
  BY DEF Grow, Reorganise
<1>3. CASE Broadcast(tx)
  <2>1. \A t \in Tx : Live(t)' <=> (Live(t) \/ t = tx)
    BY <1>1, <1>3 DEF Broadcast, Live
  <2>2. \A t \in Tx : Live(t) => Transaction[tx].spends \cap Transaction[t].spends = {}
    BY <1>3 DEF Broadcast, Spenders, Spends
  <2> QED BY <2>1, <2>2 DEF ChainAgrees
<1>4. CASE Mine(tx)
  <2>1. \A t \in Tx : Live(t)' <=> Live(t)
    BY <1>1, <1>4 DEF Mine, Live
  <2> QED BY <2>1 DEF ChainAgrees
<1>5. CASE Drop(tx)
  <2>1. \A t \in Tx : Live(t)' => Live(t)
    BY <1>1, <1>5 DEF Drop, Live
  <2>2. ChainAgrees'
    BY <2>1 DEF ChainAgrees
  <2>3. ~Grow
    <3>1. Live(tx) /\ ~Live(tx)'
      BY <1>1, <1>5 DEF Drop, Live
    <3>2. ASSUME NEW t \in Tx, Broadcast(t) \/ Mine(t) PROVE FALSE
      <4>1. \A u \in Tx : Live(u) => Live(u)'
        BY <1>1, <3>2 DEF Broadcast, Mine, Live
      <4> QED BY <3>1, <4>1
    <3> QED BY <3>2 DEF Grow
  <2> QED BY <2>2, <2>3
<1> QED BY <1>2, <1>3, <1>4, <1>5

LEMMA ChainAgreesNext ==
    ASSUME IInv, ChainAgrees, [Next]_vars
    PROVE  ChainAgrees'
<1>1. CASE ChainGrows \/ ChainReorganises
  BY <1>1, ChainMoves DEF ChainGrows, ChainReorganises
<1>2. CASE UNCHANGED chain
  BY <1>2 DEF ChainAgrees, Live
<1> QED BY <1>1, <1>2 DEF Next, Call, Start, Validate, ResolveBundle, CheckInput,
           ApplyTransition, RefuseTransition, FinishBundles, ProjectState, Accept, vars

\* What a call may conclude from "disturbed" about the chain.
LEMMA ChainRemembered ==
    ASSUME IInv, ChainAgrees, [Next]_vars, ~Call, pc # "idle"
    PROVE  /\ pc' # "idle"
           /\ disturbed' = "no" => disturbed = "no" /\ UNCHANGED chain
           /\ disturbed' # "reorganised" =>
                  /\ disturbed # "reorganised"
                  /\ \A tx \in Tx : Live(tx) => Live(tx)'
<1>1. CASE ChainGrows
  BY <1>1, ChainMoves DEF ChainGrows
<1>2. CASE ChainReorganises
  BY <1>2 DEF ChainReorganises
<1>3. CASE UNCHANGED <<chain, disturbed>> /\ pc' # "idle"
  BY <1>3 DEF Live
<1> QED BY <1>1, <1>2, <1>3 DEF Next, Validate, ResolveBundle, CheckInput,
           ApplyTransition, RefuseTransition, FinishBundles, ProjectState, Accept, Fail, vars

-------------------------------------------------------------------------------
LEMMA SeenStays ==
    ASSUME WitnessesSeen,
           UNCHANGED <<container, at, evidence, prepared, disturbed, chain>>,
           pc' = pc \/ pc' # "transition"
    PROVE  WitnessesSeen'
BY DEF WitnessesSeen, Resolved, Bundles, Bundle, Live

\* What the resolver's answer says about a witness that is not refused.
LEMMA ResolvedEvidence ==
    ASSUME NEW w, NEW answer \in WitnessAnswers(w.tx), chain[w.tx] \in WitnessState,
           ResolutionError(w, Resolve(w, answer)) = "none"
    PROVE  /\ Anchored(w)
           /\ Resolve(w, answer) \in {"tentative", "mined", "prepared"}
           /\ Resolve(w, answer) # "prepared" => Live(w.tx)
           /\ Resolve(w, answer) = "prepared" /\ Faults = {} => ~Live(w.tx)
<1>1. /\ Anchored(w)
      /\ Resolve(w, answer) \notin {"archived", "unresolved", "mismatch"}
  BY DEF ResolutionError, Anchored
<1>2. \/ ~answer.failed /\ answer.state = chain[w.tx]
      \/ answer.failed /\ "error" \in Faults
  BY DEF WitnessAnswers
<1> QED BY <1>1, <1>2 DEF Resolve, Unsent, Live, WitnessState

LEMMA ResolveBundleSeen ==
    ASSUME IInv, WitnessesSeen, ResolveBundle
    PROVE  WitnessesSeen'
<1>1. /\ pc = "bundle" /\ at <= Len(Bundles)
      /\ UNCHANGED <<container, disturbed, chain>>
  BY DEF ResolveBundle
<1>2. /\ at \in DOMAIN Bundles /\ Bundle.tx \in Tx /\ at \in Nat
      /\ \A i \in DOMAIN Bundles : i \in Nat
  BY <1>1, PositionShape, ContainerShape DEF IInv, Bookkeeping, TypeOK, Bundles
<1>3. PICK answer \in WitnessAnswers(Bundle.tx) :
         LET resolved == Resolve(Bundle, answer)
             e        == ResolutionError(Bundle, resolved)
         IN  \/ /\ e # "none"
                /\ Fail(e)
                /\ UNCHANGED <<resolution, prepared>>
             \/ /\ e = "none"
                /\ pc' = "transition"
                /\ evidence' = resolved
                /\ step' = 1
                /\ unchecked' = Inputs(Bundle.known[1])
                /\ prepared' = prepared \cup {tx \in {Bundle.tx} : resolved = "prepared"}
                /\ UNCHANGED <<at, err>>
  BY DEF ResolveBundle
<1> DEFINE resolved == Resolve(Bundle, answer)
           e        == ResolutionError(Bundle, resolved)
<1>4. CASE e # "none" /\ Fail(e) /\ UNCHANGED <<resolution, prepared>>
  BY <1>1, <1>4, SeenStays DEF Fail, resolution
<1>5. CASE /\ e = "none"
           /\ pc' = "transition"
           /\ evidence' = resolved
           /\ prepared' = prepared \cup {tx \in {Bundle.tx} : resolved = "prepared"}
           /\ at' = at
  <2>1. /\ resolved # "prepared" => Live(Bundle.tx)
        /\ resolved = "prepared" /\ Faults = {} => ~Live(Bundle.tx)
    BY <1>2, <1>5, ResolvedEvidence DEF IInv, TypeOK, ChainTypeOK
  <2>2. Bundles' = Bundles /\ Bundle' = Bundle
    BY <1>1, <1>5 DEF Bundles, Bundle
  <2>3. \A tx : Live(tx)' = Live(tx)
    BY <1>1 DEF Live
  <2>4. prepared \subseteq prepared' /\ prepared' \subseteq prepared \cup {Bundle.tx}
        /\ (Bundle.tx \in prepared' \ prepared => resolved = "prepared")
        /\ (resolved = "prepared" => Bundle.tx \in prepared')
    BY <1>5
  <2>5. \A i \in DOMAIN Bundles : Resolved(i)' => Resolved(i) \/ Bundles[i] = Bundle
    BY <1>1, <1>2, <1>5 DEF Resolved, Bundle
  <2>6. Bundle.tx \in {Bundles[i].tx : i \in DOMAIN Bundles}
    BY <1>2 DEF Bundle
  <2> HIDE DEF resolved, e
  <2> QED BY <1>1, <1>5, <2>1, <2>2, <2>3, <2>4, <2>5, <2>6 DEF WitnessesSeen
<1> QED BY <1>3, <1>4, <1>5

LEMMA ApplyTransitionSeen ==
    ASSUME IInv, WitnessesSeen, ApplyTransition
    PROVE  WitnessesSeen'
<1>1. /\ pc = "transition"
      /\ UNCHANGED <<container, evidence, prepared, disturbed, chain>>
      /\ \/ pc' = pc /\ at' = at
         \/ pc' = "bundle" /\ at' = at + 1
  BY DEF ApplyTransition
<1>2. at \in Nat /\ \A i \in DOMAIN Bundles : i \in Nat
  BY ContainerShape DEF IInv, TypeOK, Bundles
<1>3. \A i \in DOMAIN Bundles : Resolved(i)' => Resolved(i)
  BY <1>1, <1>2 DEF Resolved
<1>4. Bundles' = Bundles
  BY <1>1 DEF Bundles
<1> QED BY <1>1, <1>3, <1>4 DEF WitnessesSeen, Bundle, Live

LEMMA SeenNext ==
    ASSUME IInv, ChainAgrees, [Next]_vars, pc # "idle" => WitnessesSeen
    PROVE  pc' # "idle" => WitnessesSeen'
<1> SUFFICES ASSUME pc' # "idle" PROVE WitnessesSeen'
  OBVIOUS
<1>1. CASE Call
  <2>1. prepared' = {} /\ pc' = "bundle" /\ at' = 1 /\ container' = container
    BY <1>1 DEF Call, Start
  <2>2. Bundles' = Bundles /\ \A i \in DOMAIN Bundles : i >= 1 /\ i \in Nat
    BY <2>1, ContainerShape DEF IInv, TypeOK, Bundles
  <2>3. \A i \in DOMAIN Bundles : ~Resolved(i)'
    BY <2>1, <2>2 DEF Resolved
  <2> QED BY <2>1, <2>2, <2>3 DEF WitnessesSeen
<1>2. CASE ~Call /\ pc # "idle"
  <2>1. CASE ResolveBundle \/ ApplyTransition
    BY <1>2, <2>1, ResolveBundleSeen, ApplyTransitionSeen
  <2>2. CASE CheckInput \/ RefuseTransition \/ FinishBundles \/ ProjectState \/ Accept
    <3>1. UNCHANGED <<container, at, evidence, prepared, disturbed, chain>>
      BY <2>2 DEF CheckInput, RefuseTransition, FinishBundles, ProjectState, Accept,
                  resolution, working
    <3>2. pc' = pc \/ pc' # "transition"
      BY <2>2 DEF CheckInput, RefuseTransition, FinishBundles, ProjectState, Accept, Fail
    <3> QED BY <1>2, <3>1, <3>2, SeenStays
  <2>3. CASE ChainGrows \/ ChainReorganises \/ UNCHANGED vars
    <3>1. UNCHANGED <<container, pc, at, evidence, prepared>>
      BY <2>3 DEF ChainGrows, ChainReorganises, vars, resolution, working
    <3>2. Bundles' = Bundles /\ Bundle' = Bundle /\ \A i : Resolved(i)' = Resolved(i)
      BY <3>1 DEF Bundles, Bundle, Resolved
    <3>3. \A i \in DOMAIN Bundles : Bundles[i].tx \in Tx
      BY ContainerShape, KnownShape DEF IInv, TypeOK, Bundles
    <3>4. pc = "transition" => Bundle.tx \in Tx
      BY <3>3 DEF IInv, Bookkeeping, Bundle
    <3>5. /\ disturbed' = "no" => disturbed = "no" /\ UNCHANGED chain
          /\ disturbed' # "reorganised" =>
                 /\ disturbed # "reorganised"
                 /\ \A tx \in Tx : Live(tx) => Live(tx)'
      BY <1>2, ChainRemembered
    <3>6. disturbed' = "no" => \A tx : Live(tx)' = Live(tx)
      BY <3>5 DEF Live
    <3> QED BY <1>2, <3>1, <3>2, <3>3, <3>4, <3>5, <3>6 DEF WitnessesSeen
  <2> QED BY <1>2, <2>1, <2>2, <2>3 DEF Next, Validate
<1>3. CASE ~Call /\ pc = "idle"
  BY <1>3 DEF Next, Validate, ResolveBundle, CheckInput, ApplyTransition, RefuseTransition,
              FinishBundles, ProjectState, Accept, ChainGrows, ChainReorganises, vars
<1> QED BY <1>1, <1>2, <1>3

-------------------------------------------------------------------------------
\* What the maps hold besides what they must not hold.
MapsComplete == StatesComplete /\ EdgesComplete /\ ParentsMade /\ IsFiniteSet(DOMAIN graph)

LEMMA MapsStay ==
    ASSUME MapsComplete, UNCHANGED <<container, mode, states, consumed, graph, edges>>
    PROVE  MapsComplete'
<1>1. Collecting' = Collecting
  BY DEF Collecting
<1> QED BY <1>1 DEF MapsComplete, StatesComplete, EdgesComplete, ParentsMade

LEMMA MapsInit == Init => MapsComplete
<1> SUFFICES ASSUME Init PROVE MapsComplete
  OBVIOUS
<1>1. DOMAIN graph = {} /\ edges = {}
  BY DEF Init
<1> QED BY <1>1, FS_EmptySet DEF MapsComplete, StatesComplete, EdgesComplete, ParentsMade

LEMMA StartMaps ==
    ASSUME NEW m \in Mode, Start(m)
    PROVE  MapsComplete'
<1>1. /\ DOMAIN graph' = {Genesis} /\ graph'[Genesis].parents = {}
      /\ states' = Registered(Genesis, NoTx) /\ edges' = {} /\ container' = container
  BY DEF Start
<1>2. Inputs(Genesis) = {}
  BY Assumed
<1>3. StatesComplete'
  BY <1>1 DEF StatesComplete, Registered
<1>4. EdgesComplete' /\ ParentsMade'
  BY <1>1, <1>2 DEF EdgesComplete, ParentsMade
<1>5. IsFiniteSet(DOMAIN graph')
  BY <1>1, FS_Singleton
<1> QED BY <1>3, <1>4, <1>5 DEF MapsComplete

LEMMA ApplyTransitionMaps ==
    ASSUME IInv, MapsComplete, ApplyTransition
    PROVE  MapsComplete'
<1>1. /\ pc = "transition" /\ unchecked = {}
      /\ UNCHANGED <<container, mode>>
  BY DEF ApplyTransition
<1>2. /\ Current \in Op \ {Genesis}
      /\ Current \notin DOMAIN graph
  BY <1>1, Applicable
<1>3. /\ DOMAIN graph' = DOMAIN graph \cup {Current}
      /\ \A op \in DOMAIN graph : graph'[op] = graph[op]
      /\ graph'[Current].parents = {r.op : r \in Inputs(Current)}
      /\ consumed' = consumed \cup Inputs(Current)
  BY <1>2 DEF ApplyTransition, Retired
<1>4. StatesComplete'
  <2>1. DOMAIN states' = (DOMAIN states \ Inputs(Current)) \cup RevealedOutputs(container, Current)
    BY DEF ApplyTransition, Retired, Register, Without, Registered
  <2>2. \A op \in DOMAIN graph : RevealedOutputs(container, op) \ consumed' \subseteq DOMAIN states'
    BY <1>3, <2>1 DEF MapsComplete, StatesComplete
  <2> QED BY <1>1, <1>3, <2>1, <2>2 DEF StatesComplete
<1>5. EdgesComplete'
  <2> SUFFICES ASSUME Collecting PROVE EdgesComplete'
    BY <1>1 DEF EdgesComplete, Collecting
  <2> DEFINE new == {Consumption(r) : r \in Inputs(Current)}
  <2>1. edges' = edges \cup new
    BY DEF ApplyTransition
  <2>2. \A e \in new : e.consumer = Current /\ e.input \in Inputs(Current)
    BY DEF Consumption
  <2>3. \A r \in Inputs(Current) : \E e \in new : e.input = r /\ e.consumer = Current
    <3>1. \A r \in Inputs(Current) : /\ Consumption(r) \in new
                                     /\ Consumption(r).input = r
                                     /\ Consumption(r).consumer = Current
      BY DEF Consumption
    <3> QED BY <3>1
  <2> HIDE DEF new
  <2> QED BY <1>3, <2>1, <2>2, <2>3 DEF MapsComplete, EdgesComplete
<1>6. ParentsMade'
  BY <1>3 DEF MapsComplete, ParentsMade
<1>7. IsFiniteSet(DOMAIN graph')
  BY <1>3, FS_AddElement DEF MapsComplete
<1> QED BY <1>4, <1>5, <1>6, <1>7 DEF MapsComplete

LEMMA MapsNext ==
    ASSUME IInv, MapsComplete, [Next]_vars
    PROVE  MapsComplete'
<1>1. CASE Call
  BY <1>1, StartMaps DEF Call
<1>2. CASE ApplyTransition
  BY <1>2, ApplyTransitionMaps
<1>3. CASE UNCHANGED <<container, mode, states, consumed, graph, edges>>
  BY <1>3, MapsStay
<1> QED BY <1>1, <1>2, <1>3 DEF Next, Validate, ResolveBundle, CheckInput,
           RefuseTransition, FinishBundles, ProjectState, Accept,
           ChainGrows, ChainReorganises, vars, working

-------------------------------------------------------------------------------
\* The operators that are read off the working maps.
LEMMA GraphStays ==
    ASSUME UNCHANGED <<container, working>>
    PROVE  /\ Bundles' = Bundles /\ HistoricalOps' = HistoricalOps
           /\ SelectedOps' = SelectedOps /\ Material' = Material
           /\ ProtectedOps' = ProtectedOps /\ GenesisOnly' = GenesisOnly
           /\ Verdict' = Verdict
           /\ \A r : OnPrepared(r)' = OnPrepared(r) /\ OutOfRange(r)' = OutOfRange(r)
<1>1. Bundles' = Bundles /\ GenesisOnly' = GenesisOnly
  BY DEF Bundles, GenesisOnly
<1>2. UNCHANGED <<states, consumed, graph, prepared, complete, edges>>
  BY DEF working
<1>3. Protected' = Protected
  BY <1>2 DEF Protected, Tips
<1>4. ProtectedOps' = ProtectedOps
  BY <1>2, <1>3 DEF ProtectedOps, BundleOps
<1>5. Worklist' = Worklist
  BY <1>2, <1>4 DEF Worklist, ParentsOf
<1>6. Reached' = Reached
  BY <1>2, <1>5 DEF Reached
<1>7. HistoricalOps' = HistoricalOps /\ SelectedOps' = SelectedOps
  BY <1>2, <1>3, <1>4, <1>6 DEF HistoricalOps, SelectedOps
<1>8. \A r : OnPrepared(r)' = OnPrepared(r) /\ OutOfRange(r)' = OutOfRange(r)
  BY <1>2 DEF OnPrepared, OutOfRange
<1>9. SelectedStates' = SelectedStates
  BY <1>2, <1>7 DEF SelectedStates
<1>10. Material' = Material
  BY <1>2, <1>7, <1>9 DEF Material, OnPrepared
<1> QED BY <1>1, <1>2, <1>4, <1>7, <1>8, <1>10 DEF Verdict

LEMMA MaterialNext ==
    ASSUME HistoryInv, MaterialRecorded, [Next]_vars
    PROVE  MaterialRecorded'
<1>1. CASE Call \/ ResolveBundle \/ CheckInput \/ ApplyTransition \/ RefuseTransition
  <2>1. ~Accepted'
    BY <1>1 DEF Call, Start, ResolveBundle, CheckInput, ApplyTransition, RefuseTransition,
                Fail, Accepted, Returned, InputError, PreparedInputError
  <2> QED BY <2>1 DEF MaterialRecorded
<1>2. CASE FinishBundles
  <2>1. UNCHANGED <<container, working, mode>>
    BY <1>2 DEF FinishBundles
  <2>2. Material' = Material /\ Collecting' = Collecting
    BY <2>1, GraphStays DEF Collecting
  <2> QED BY <1>2, <2>2 DEF FinishBundles, Fail, MaterialRecorded, Accepted, Returned, HistoryOnly
<1>3. CASE ProjectState \/ Accept
  <2>1. pc = "project"
    BY <1>3 DEF ProjectState, Accept
  <2>2. ~HistoryOnly /\ mode' = mode
    BY <1>3, <2>1 DEF HistoryInv, ProjectState, Accept
  <2> QED BY <2>2 DEF MaterialRecorded, HistoryOnly, Collecting
<1>4. CASE ChainGrows \/ ChainReorganises \/ UNCHANGED vars
  <2>1. UNCHANGED <<container, working, mode, pc, err, history>>
    BY <1>4 DEF ChainGrows, ChainReorganises, vars, report
  <2>2. Material' = Material
    BY <2>1, GraphStays
  <2> QED BY <2>1, <2>2 DEF MaterialRecorded, Accepted, Returned, Collecting
<1> QED BY <1>1, <1>2, <1>3, <1>4 DEF Next, Validate

-------------------------------------------------------------------------------
\* What a projecting call has done so far, and what it returns.
LEMMA ExplainedStays ==
    ASSUME ProjectionExplained,
           UNCHANGED <<container, mode, pc, err, at, working, historical, pending, current,
                       verdict, chain>>,
           disturbed' = "no" => disturbed = "no"
    PROVE  ProjectionExplained'
<1>1. UNCHANGED <<states, graph, prepared>>
  BY DEF working
<1>2. /\ Bundles' = Bundles /\ HistoricalOps' = HistoricalOps /\ Verdict' = Verdict
      /\ GenesisOnly' = GenesisOnly
      /\ \A r : OnPrepared(r)' = OnPrepared(r) /\ OutOfRange(r)' = OutOfRange(r)
  BY GraphStays
<1>3. \A r : MayOmit(r)' = MayOmit(r)
  BY <1>2 DEF MayOmit
<1>4. \A r : Unspent(r)' = Unspent(r)
  BY <1>1, <1>2 DEF Unspent, Exists, Spenders, Live
<1>5. Accepted' = Accepted /\ Projected' = Projected
  BY DEF Accepted, Returned, Projected, HistoryOnly, Collecting
<1> QED BY <1>1, <1>2, <1>3, <1>4, <1>5 DEF ProjectionExplained

LEMMA WalkingExplained ==
    ASSUME ProjectionExplained,
           ResolveBundle \/ CheckInput \/ ApplyTransition \/ RefuseTransition
    PROVE  ProjectionExplained'
<1>1. pc # "returned"
  BY DEF ResolveBundle, CheckInput, ApplyTransition, RefuseTransition
<1>2. \/ pc' \in {"bundle", "transition"} /\ err' = err
      \/ pc' = "returned" /\ err' # "none"
  BY DEF ResolveBundle, CheckInput, ApplyTransition, RefuseTransition, Fail,
         InputError, PreparedInputError
<1> QED BY <1>1, <1>2 DEF ProjectionExplained, Accepted, Returned, Projected

LEMMA FinishBundlesExplained ==
    ASSUME IInv, ProjectionExplained, FinishBundles
    PROVE  ProjectionExplained'
<1>1. /\ pc = "bundle" /\ at > Len(Bundles)
      /\ UNCHANGED <<container, mode, at, working>>
  BY DEF FinishBundles, resolution
<1>2. Bundles' = Bundles /\ HistoricalOps' = HistoricalOps /\ HistoryOnly' = HistoryOnly
      /\ states' = states
  BY <1>1, GraphStays DEF HistoryOnly, Collecting, working
<1>3. err = "none" /\ current = {}
  BY <1>1 DEF ProjectionExplained, IInv, Bookkeeping
<1>4. CASE pc' = "returned" /\ err' # "none"
  BY <1>4 DEF ProjectionExplained, Accepted, Returned, Projected
<1>5. CASE pc' = "returned" /\ err' = err /\ HistoryOnly
  BY <1>1, <1>2, <1>3, <1>5 DEF ProjectionExplained, Accepted, Returned, Projected
<1>6. CASE /\ pc' = "project" /\ err' = err /\ historical' = HistoricalOps
           /\ pending' = DOMAIN states /\ current' = current
  BY <1>1, <1>2, <1>3, <1>6 DEF ProjectionExplained, Accepted, Returned, Projected
<1> QED BY <1>4, <1>5, <1>6 DEF FinishBundles, Fail

LEMMA ProjectStateExplained ==
    ASSUME ProjectionExplained, ProjectState
    PROVE  ProjectionExplained'
<1>1. /\ pc = "project"
      /\ UNCHANGED <<container, mode, at, working, historical, chain, disturbed>>
  BY DEF ProjectState, resolution
<1>2. CASE pc' = "returned" /\ err' # "none"
  BY <1>2 DEF ProjectionExplained, Accepted, Returned, Projected
<1>3. CASE \E r \in pending :
              /\ pending' = pending \ {r}
              /\ pc' = pc /\ err' = err
              /\ \/ current' = current \cup {r} /\ Unspent(r)
                 \/ current' = current /\ MayOmit(r)
  <2>1. PICK r \in pending :
              /\ pending' = pending \ {r}
              /\ pc' = pc /\ err' = err
              /\ \/ current' = current \cup {r} /\ Unspent(r)
                 \/ current' = current /\ MayOmit(r)
    BY <1>3
  <2>2. /\ Bundles' = Bundles /\ HistoricalOps' = HistoricalOps
        /\ GenesisOnly' = GenesisOnly /\ states' = states
        /\ \A x : OnPrepared(x)' = OnPrepared(x) /\ OutOfRange(x)' = OutOfRange(x)
    BY <1>1, GraphStays DEF working
  <2>3. \A x : MayOmit(x)' = MayOmit(x)
    BY <1>1, <2>2 DEF MayOmit
  <2>4. \A x : Unspent(x)' = Unspent(x)
    BY <1>1, <2>2 DEF Unspent, Exists, Spenders, Live
  <2> QED BY <1>1, <2>1, <2>2, <2>3, <2>4
          DEF ProjectionExplained, Accepted, Returned, Projected
<1>4. ASSUME NEW r \in pending, NEW answer \in OutpointAnswers(states[r].outpoint),
             ProjectionError(r, answer) = "none"
      PROVE  IF answer.spent THEN MayOmit(r) ELSE Unspent(r)
  <2>1. \/ answer.known = FALSE
        \/ /\ answer.exists = Exists(states[r].outpoint)
           /\ answer.spent = (Spenders(states[r].outpoint) # {})
    BY <1>4 DEF OutpointAnswers
  <2> QED BY <1>4, <2>1 DEF ProjectionError, Unspent
<1>5. PICK r \in pending :
         \/ /\ OnPrepared(r)
            /\ IF OutOfRange(r)
               THEN Fail("ErrOutpointUnknown") /\ UNCHANGED <<pending, current>>
               ELSE /\ pending' = pending \ {r}
                    /\ current' = current \cup {r}
                    /\ UNCHANGED <<pc, err>>
         \/ /\ ~OnPrepared(r)
            /\ \E answer \in OutpointAnswers(states[r].outpoint) :
                 IF ProjectionError(r, answer) # "none"
                 THEN Fail(ProjectionError(r, answer)) /\ UNCHANGED <<pending, current>>
                 ELSE /\ pending' = pending \ {r}
                      /\ current' = current \cup {x \in {r} : ~answer.spent}
                      /\ UNCHANGED <<pc, err>>
  BY DEF ProjectState
<1>6. CASE OnPrepared(r)
  BY <1>2, <1>3, <1>5, <1>6 DEF Fail, Unspent
<1>7. CASE ~OnPrepared(r)
  <2>1. PICK answer \in OutpointAnswers(states[r].outpoint) :
                 IF ProjectionError(r, answer) # "none"
                 THEN Fail(ProjectionError(r, answer)) /\ UNCHANGED <<pending, current>>
                 ELSE /\ pending' = pending \ {r}
                      /\ current' = current \cup {x \in {r} : ~answer.spent}
                      /\ UNCHANGED <<pc, err>>
    BY <1>5, <1>7
  <2>2. CASE ProjectionError(r, answer) # "none"
    BY <1>2, <2>1, <2>2 DEF Fail
  <2>3. CASE ProjectionError(r, answer) = "none"
    <3>1. IF answer.spent THEN MayOmit(r) ELSE Unspent(r)
      BY <1>4, <2>3
    <3>2. current' = IF answer.spent THEN current ELSE current \cup {r}
      BY <2>1, <2>3
    <3> QED BY <1>3, <2>1, <2>3, <3>1, <3>2
  <2> QED BY <2>2, <2>3
<1> QED BY <1>6, <1>7

LEMMA AcceptExplained ==
    ASSUME ProjectionExplained, HistoryInv, Accept
    PROVE  ProjectionExplained'
<1>1. /\ pc = "project" /\ pc' = "returned" /\ pending = {} /\ verdict' = Verdict
      /\ UNCHANGED <<container, mode, err, at, working, historical, pending, current,
                     chain, disturbed>>
  BY DEF Accept, resolution
<1>2. /\ Bundles' = Bundles /\ HistoricalOps' = HistoricalOps
      /\ GenesisOnly' = GenesisOnly /\ states' = states /\ Verdict' = Verdict
      /\ \A x : OnPrepared(x)' = OnPrepared(x) /\ OutOfRange(x)' = OutOfRange(x)
  BY <1>1, GraphStays DEF working
<1>3. \A x : MayOmit(x)' = MayOmit(x)
  BY <1>1, <1>2 DEF MayOmit
<1>4. \A x : Unspent(x)' = Unspent(x)
  BY <1>1, <1>2 DEF Unspent, Exists, Spenders, Live
<1> QED BY <1>1, <1>2, <1>3, <1>4 DEF ProjectionExplained, Accepted, Returned, Projected

LEMMA ExplainedNext ==
    ASSUME IInv, HistoryInv, ChainAgrees, [Next]_vars, pc # "idle" => ProjectionExplained
    PROVE  pc' # "idle" => ProjectionExplained'
<1> SUFFICES ASSUME pc' # "idle" PROVE ProjectionExplained'
  OBVIOUS
<1>1. CASE Call
  <2>1. pc' = "bundle" /\ err' = "none"
    BY <1>1 DEF Call, Start
  <2> QED BY <2>1 DEF ProjectionExplained, Accepted, Returned, Projected
<1>2. CASE ~Call /\ pc # "idle"
  <2>1. CASE ResolveBundle \/ CheckInput \/ ApplyTransition \/ RefuseTransition
    BY <1>2, <2>1, WalkingExplained
  <2>2. CASE FinishBundles \/ ProjectState \/ Accept
    BY <1>2, <2>2, FinishBundlesExplained, ProjectStateExplained, AcceptExplained
  <2>3. CASE ChainGrows \/ ChainReorganises \/ UNCHANGED vars
    <3>1. UNCHANGED <<container, mode, pc, err, at, working, historical, pending, current,
                      verdict>>
      BY <2>3 DEF ChainGrows, ChainReorganises, vars, resolution, report
    <3>2. CASE disturbed' = "no"
      <4>1. disturbed = "no" /\ UNCHANGED chain
        BY <1>2, <3>2, ChainRemembered
      <4> QED BY <1>2, <3>1, <4>1, ExplainedStays
    <3>3. CASE disturbed' # "no"
      <4>1. /\ Bundles' = Bundles /\ HistoricalOps' = HistoricalOps /\ Verdict' = Verdict
            /\ GenesisOnly' = GenesisOnly /\ states' = states
        BY <3>1, GraphStays DEF working
      <4>2. \A r : MayOmit(r)' = MayOmit(r)
        BY <3>1, <4>1 DEF MayOmit
      <4> QED BY <1>2, <3>1, <3>3, <4>1, <4>2
              DEF ProjectionExplained, Accepted, Returned, Projected, HistoryOnly, Collecting
    <3> QED BY <3>2, <3>3
  <2> QED BY <1>2, <2>1, <2>2, <2>3 DEF Next, Validate
<1>3. CASE ~Call /\ pc = "idle"
  BY <1>3 DEF Next, Validate, ResolveBundle, CheckInput, ApplyTransition, RefuseTransition,
              FinishBundles, ProjectState, Accept, ChainGrows, ChainReorganises, vars
<1> QED BY <1>1, <1>2, <1>3

-------------------------------------------------------------------------------
\* What the checks of the inputs say about outputs that may still be spent.
LEMMA OnlySpender ==
    ASSUME ChainAgrees, NEW tx \in Tx, NEW o, Spends(tx, o), Live(tx)
    PROVE  Spenders(o) \subseteq {tx}
BY DEF ChainAgrees, Spenders, Spends

LEMMA PossibleStays ==
    ASSUME WitnessesPossible, UNCHANGED <<container, mode, pc, err, at, step, unchecked, chain>>,
           disturbed' = "no" => disturbed = "no"
    PROVE  WitnessesPossible'
<1>1. /\ Cursor' = Cursor /\ Current' = Current
      /\ Walking' = Walking /\ Collecting' = Collecting /\ Accepted' = Accepted
  BY DEF Cursor, Current, Bundle, Bundles, Walking, Collecting, Accepted, Returned
<1>2. Passed' = Passed
  BY <1>1 DEF Passed
<1>3. \A r, p : Spendable(r, p)' = Spendable(r, p)
  BY DEF Spendable, Spenders, Live
<1> QED BY <1>1, <1>2, <1>3 DEF WitnessesPossible

LEMMA CheckedIsSpendable ==
    ASSUME IInv, HistoryInv, ChainAgrees, WitnessesSeen, disturbed = "no", ~Collecting,
           pc = "transition", NEW r \in unchecked, InputError(r) = "none",
           evidence = "prepared" =>
               \E answer \in OutpointAnswers(states[r].outpoint) :
                   PreparedInputError(answer) = "none"
    PROVE  Spendable(r, <<at, step>>)
<1> DEFINE o == states[r].outpoint
<1>1. /\ r \in DOMAIN states /\ Spends(Bundle.tx, o)
  BY DEF InputError
<1>2. \E w \in Tx \cup {NoTx} : o = OutpointOf(r, w)
  <2>1. container \in Containers /\ StatesPlaced
    BY DEF IInv, TypeOK, HistoryInv, Walking
  <2>2. \A q \in Passed : WitnessAt(container, q) \in Tx
    BY <2>1, PositionFacts DEF Passed
  <2> QED BY <1>1, <2>1, <2>2 DEF StatesPlaced
<1>3. WitnessAt(container, <<at, step>>) = Bundle.tx /\ Bundle.tx \in Tx
  BY PositionShape DEF WitnessAt, Bundle, Bundles, IInv, Bookkeeping
<1>4. o \in Transaction[Bundle.tx].spends
  BY <1>1 DEF Spends
<1>5. Live(Bundle.tx) => Spenders(o) \subseteq {Bundle.tx}
  BY <1>1, <1>3, OnlySpender
<1>6. CASE evidence # "prepared"
  BY <1>2, <1>3, <1>4, <1>5, <1>6 DEF WitnessesSeen, Spendable
<1>7. CASE evidence = "prepared"
  <2>1. PICK answer \in OutpointAnswers(o) : PreparedInputError(answer) = "none"
    BY <1>7
  <2>2. ~answer.spent \/ Bundle.tx \in answer.by
    BY <2>1 DEF PreparedInputError
  <2>3. /\ answer.known = FALSE \/ answer.spent = (Spenders(o) # {})
        /\ answer.by \subseteq Spenders(o)
    BY DEF OutpointAnswers
  <2>4. answer.known
    BY <2>1 DEF PreparedInputError
  <2>5. CASE ~answer.spent
    <3>1. Spenders(o) = {}
      BY <2>3, <2>4, <2>5
    <3> QED BY <1>2, <1>3, <1>4, <3>1 DEF Spendable
  <2>6. CASE Bundle.tx \in answer.by
    <3>1. Live(Bundle.tx)
      BY <2>3, <2>6 DEF Spenders
    <3> QED BY <1>2, <1>3, <1>4, <1>5, <3>1 DEF Spendable
  <2> QED BY <2>2, <2>5, <2>6
<1> QED BY <1>6, <1>7

LEMMA ResolveBundlePossible ==
    ASSUME IInv, WitnessesPossible, ResolveBundle
    PROVE  WitnessesPossible'
<1>1. pc = "bundle" /\ UNCHANGED <<container, mode, disturbed, chain>>
  BY DEF ResolveBundle
<1>2. CASE pc' = "returned" /\ err' # "none"
  BY <1>2 DEF WitnessesPossible, Walking, Accepted, Returned
<1>3. CASE /\ pc' = "transition" /\ at' = at /\ step' = 1
           /\ unchecked' = Inputs(Bundle.known[1])
  <2>1. Passed' = Passed
    BY <1>1, <1>3, PassedSame
  <2>2. unchecked' = Inputs(Current')
    BY <1>1, <1>3 DEF Current, Bundle, Bundles
  <2>3. \A r, p : Spendable(r, p)' = Spendable(r, p)
    BY <1>1 DEF Spendable, Spenders, Live
  <2> QED BY <1>1, <1>3, <2>1, <2>2, <2>3
          DEF WitnessesPossible, Walking, Collecting, Accepted, Returned
<1> QED BY <1>2, <1>3 DEF ResolveBundle, Fail

LEMMA CheckInputPossible ==
    ASSUME IInv, HistoryInv, ChainAgrees, WitnessesSeen, WitnessesPossible, CheckInput
    PROVE  WitnessesPossible'
<1>1. pc = "transition" /\ UNCHANGED <<container, mode, at, step, states, disturbed, chain>>
  BY DEF CheckInput, working
<1>2. CASE pc' = "returned" /\ err' # "none"
  BY <1>2 DEF WitnessesPossible, Walking, Accepted, Returned
<1>3. CASE UNCHANGED <<pc, err>>
  <2> SUFFICES ASSUME ~Collecting, disturbed = "no" PROVE WitnessesPossible'
    BY <1>1 DEF WitnessesPossible, Collecting
  <2>1. PICK r \in unchecked :
            /\ unchecked' = unchecked \ {r} /\ InputError(r) = "none"
            /\ evidence = "prepared" =>
                   \E answer \in OutpointAnswers(states[r].outpoint) :
                       PreparedInputError(answer) = "none"
    BY <1>1, <1>3 DEF CheckInput, Fail
  <2>2. Spendable(r, <<at, step>>)
    BY <1>1, <2>1, CheckedIsSpendable
  <2>3. Passed' = Passed /\ Current' = Current
    BY <1>1, <1>3 DEF Passed, Cursor, Current, Bundle, Bundles
  <2>4. \A x, p : Spendable(x, p)' = Spendable(x, p)
    BY <1>1 DEF Spendable, Spenders, Live
  <2> QED BY <1>1, <1>3, <2>1, <2>2, <2>3, <2>4
          DEF WitnessesPossible, Walking, Collecting, Accepted, Returned
<1> QED BY <1>2, <1>3 DEF CheckInput, Fail

LEMMA ApplyTransitionPossible ==
    ASSUME IInv, HistoryInv, WitnessesPossible, ApplyTransition
    PROVE  WitnessesPossible'
<1> DEFINE here == <<at, step>>
<1>1. /\ pc = "transition" /\ unchecked = {}
      /\ UNCHANGED <<container, mode, err, disturbed, chain>>
      /\ \/ pc' = "bundle"
         \/ pc' = "transition" /\ at' = at /\ step' = step + 1
            /\ unchecked' = Inputs(Bundle.known[step + 1])
  BY DEF ApplyTransition
<1>2. Passed' = Passed \cup {here} /\ At(container, here) = Current
  BY PassedOneMore, AppliedIsSupported
<1>3. pc' = "transition" => unchecked' = Inputs(Current')
  BY <1>1 DEF Current, Bundle, Bundles
<1>4. \A r, p : Spendable(r, p)' = Spendable(r, p)
  BY <1>1 DEF Spendable, Spenders, Live
<1> QED BY <1>1, <1>2, <1>3, <1>4 DEF WitnessesPossible, Walking, Collecting, Accepted, Returned

LEMMA FinishBundlesPossible ==
    ASSUME IInv, WitnessesPossible, FinishBundles
    PROVE  WitnessesPossible'
<1>1. /\ pc = "bundle" /\ at > Len(Bundles) /\ pc' \in {"project", "returned"}
      /\ UNCHANGED <<container, mode, disturbed, chain>>
  BY DEF FinishBundles, Fail
<1>2. Passed = Positions(container)
  BY <1>1, AllPassed
<1>3. \A r, p : Spendable(r, p)' = Spendable(r, p)
  BY <1>1 DEF Spendable, Spenders, Live
<1> QED BY <1>1, <1>2, <1>3 DEF WitnessesPossible, Walking, Collecting

LEMMA PossibleNext ==
    ASSUME IInv, HistoryInv, ChainAgrees, pc # "idle" => WitnessesSeen,
           pc # "idle" => WitnessesPossible, [Next]_vars
    PROVE  pc' # "idle" => WitnessesPossible'
<1> SUFFICES ASSUME pc' # "idle" PROVE WitnessesPossible'
  OBVIOUS
<1>1. CASE Call
  <2>1. pc' = "bundle" /\ at' = 1 /\ container' = container
    BY <1>1 DEF Call, Start
  <2>2. Passed' = {}
    BY <2>1, PassedNone
  <2> QED BY <2>1, <2>2 DEF WitnessesPossible, Accepted, Returned
<1>2. CASE ~Call /\ pc # "idle"
  <2>1. CASE ResolveBundle \/ CheckInput \/ ApplyTransition \/ FinishBundles
    BY <1>2, <2>1, ResolveBundlePossible, CheckInputPossible, ApplyTransitionPossible,
       FinishBundlesPossible
  <2>2. CASE RefuseTransition
    BY <2>2 DEF RefuseTransition, Fail, WitnessesPossible, Walking, Accepted, Returned
  <2>3. CASE ProjectState \/ Accept
    <3>1. /\ pc = "project" /\ pc' \in {"project", "returned"}
          /\ UNCHANGED <<container, mode, disturbed, chain>>
      BY <2>3 DEF ProjectState, Accept, Fail
    <3>2. \A r, p : Spendable(r, p)' = Spendable(r, p)
      BY <3>1 DEF Spendable, Spenders, Live
    <3> QED BY <1>2, <3>1, <3>2 DEF WitnessesPossible, Walking, Collecting
  <2>4. CASE ChainGrows \/ ChainReorganises \/ UNCHANGED vars
    <3>1. UNCHANGED <<container, mode, pc, err, at, step, unchecked>>
      BY <2>4 DEF ChainGrows, ChainReorganises, vars, resolution
    <3>2. CASE disturbed' = "no"
      <4>1. disturbed = "no" /\ UNCHANGED chain
        BY <1>2, <3>2, ChainRemembered
      <4> QED BY <1>2, <3>1, <4>1, PossibleStays
    <3>3. CASE disturbed' # "no"
      BY <3>3 DEF WitnessesPossible
    <3> QED BY <3>2, <3>3
  <2> QED BY <1>2, <2>1, <2>2, <2>3, <2>4 DEF Next, Validate
<1>3. CASE ~Call /\ pc = "idle"
  BY <1>3 DEF Next, Validate, ResolveBundle, CheckInput, ApplyTransition, RefuseTransition,
              FinishBundles, ProjectState, Accept, ChainGrows, ChainReorganises, vars
<1> QED BY <1>1, <1>2, <1>3

-------------------------------------------------------------------------------
(***************************************************************************)
(* What the loop learns of the container as a whole: which bundles hide an *)
(* operation, and at its end every operation that is disclosed.            *)
(***************************************************************************)
Surveyed ==
    /\ complete <=> \A i \in DOMAIN Bundles : i < at => InFull(Bundles[i])
    /\ pc = "project" \/ Accepted => DOMAIN graph = OpsOf(container)
    /\ Genesis \in DOMAIN graph => graph[Genesis].bundle = NoBundle

LEMMA SurveyedInit == Init => Surveyed
<1> SUFFICES ASSUME Init PROVE Surveyed
  OBVIOUS
<1>1. pc = "idle" /\ at = 0 /\ complete /\ container \in Containers /\ DOMAIN graph = {}
  BY DEF Init
<1>2. \A i \in DOMAIN Bundles : ~(i < at)
  BY <1>1, ContainerShape DEF Bundles
<1> QED BY <1>1, <1>2 DEF Surveyed, Accepted, Returned

LEMMA ApplyTransitionSurveyed ==
    ASSUME IInv, Surveyed, ApplyTransition
    PROVE  Surveyed'
<1>1. /\ at \in DOMAIN Bundles /\ Bundle = Bundles[at] /\ at \in Nat
      /\ container' = container /\ Bundles' = Bundles
      /\ \A i \in DOMAIN Bundles : i \in Nat
  BY ContainerShape DEF ApplyTransition, IInv, TypeOK, Bookkeeping, Bundle, Bundles
<1>2. /\ pc' # "project" /\ ~Accepted'
      /\ Genesis \in DOMAIN graph' => graph'[Genesis].bundle = NoBundle
  <2>1. pc' # "project" /\ ~Accepted'
    BY DEF ApplyTransition, Accepted, Returned
  <2>2. Current # Genesis
    BY Applicable DEF ApplyTransition
  <2>3. /\ DOMAIN graph' = DOMAIN graph \cup {Current}
        /\ \A op \in DOMAIN graph : op # Current => graph'[op] = graph[op]
    BY DEF ApplyTransition
  <2> QED BY <2>1, <2>2, <2>3 DEF Surveyed
<1>3. CASE at' = at /\ complete' = complete
  BY <1>1, <1>2, <1>3 DEF Surveyed
<1>4. CASE at' = at + 1 /\ complete' = (complete /\ InFull(Bundle))
  <2>1. \A i \in DOMAIN Bundles : i < at' <=> (i < at \/ i = at)
    BY <1>1, <1>4
  <2> QED BY <1>1, <1>2, <1>4, <2>1 DEF Surveyed
<1> QED BY <1>3, <1>4 DEF ApplyTransition, InFull

LEMMA SurveyedNext ==
    ASSUME IInv, HistoryInv, Surveyed, [Next]_vars
    PROVE  Surveyed'
<1>1. CASE Call
  <2>1. /\ at' = 1 /\ complete' /\ pc' = "bundle" /\ container' = container
        /\ graph'[Genesis].bundle = NoBundle
    BY <1>1 DEF Call, Start
  <2>2. \A i \in DOMAIN Bundles' : ~(i < 1)
    BY <2>1, ContainerShape DEF IInv, TypeOK, Bundles
  <2> QED BY <2>1, <2>2 DEF Surveyed, Accepted, Returned
<1>2. CASE ApplyTransition
  BY <1>2, ApplyTransitionSurveyed
<1>3. CASE FinishBundles
  <2>1. /\ pc = "bundle" /\ at > Len(Bundles)
        /\ UNCHANGED <<container, at, graph, complete>>
    BY <1>3 DEF FinishBundles, resolution, working
  <2>2. Passed = Positions(container) /\ PassedGood
    BY <2>1, AllPassed DEF HistoryInv, Walking
  <2>3. DOMAIN graph = OpsOf(container)
    BY <2>2 DEF PassedGood, OpsOf
  <2> QED BY <2>1, <2>3 DEF Surveyed, Bundles
<1>4. CASE \/ ResolveBundle \/ CheckInput \/ RefuseTransition
           \/ ProjectState \/ Accept \/ ChainGrows \/ ChainReorganises \/ UNCHANGED vars
  <2>1. UNCHANGED <<container, at, graph, complete>>
    BY <1>4 DEF ResolveBundle, CheckInput, RefuseTransition, ProjectState, Accept,
                ChainGrows, ChainReorganises, vars, resolution, working
  <2>2. pc' = "project" \/ Accepted' => pc = "project" \/ Accepted
    <3>1. CASE ResolveBundle \/ CheckInput \/ RefuseTransition
      <4>1. pc' # "project" /\ ~Accepted'
        BY <3>1 DEF ResolveBundle, CheckInput, RefuseTransition, Fail, Accepted, Returned
      <4> QED BY <4>1
    <3>2. CASE ProjectState \/ Accept
      BY <3>2 DEF ProjectState, Accept
    <3>3. CASE ChainGrows \/ ChainReorganises \/ UNCHANGED vars
      BY <3>3 DEF ChainGrows, ChainReorganises, vars, Accepted, Returned
    <3> QED BY <1>4, <3>1, <3>2, <3>3
  <2> QED BY <2>1, <2>2 DEF Surveyed, Bundles
<1> QED BY <1>1, <1>2, <1>3, <1>4 DEF Next, Validate

-------------------------------------------------------------------------------
(***************************************************************************)
(* What a call does, and what it reports, besides the maps of the loop.    *)
(***************************************************************************)
ReportInv ==
    /\ ChainAgrees
    /\ MapsComplete
    /\ MaterialRecorded
    /\ Surveyed
    /\ pc # "idle" => WitnessesSeen /\ WitnessesPossible /\ ProjectionExplained

LEMMA ReportInit == Init => ReportInv
<1> SUFFICES ASSUME Init PROVE ReportInv
  OBVIOUS
<1>1. pc = "idle"
  BY DEF Init
<1>2. MaterialRecorded
  BY <1>1 DEF MaterialRecorded, Accepted, Returned
<1> QED BY <1>1, <1>2, ChainAgreesInit, MapsInit, SurveyedInit DEF ReportInv

LEMMA ReportNext == IInv /\ HistoryInv /\ ReportInv /\ [Next]_vars => ReportInv'
<1> SUFFICES ASSUME IInv, HistoryInv, ReportInv, [Next]_vars PROVE ReportInv'
  OBVIOUS
<1> USE DEF ReportInv
<1>1. ChainAgrees' /\ MapsComplete' /\ MaterialRecorded' /\ Surveyed'
  BY ChainAgreesNext, MapsNext, MaterialNext, SurveyedNext
<1>2. pc' # "idle" => WitnessesSeen'
  BY SeenNext
<1>3. pc' # "idle" => WitnessesPossible'
  BY PossibleNext
<1>4. pc' # "idle" => ProjectionExplained'
  BY ExplainedNext
<1> QED BY <1>1, <1>2, <1>3, <1>4

LEMMA ReportAlways == Spec => [](IInv /\ HistoryInv /\ ReportInv)
BY InitInv, NextInv, HistoryInit, HistoryNext, ReportInit, ReportNext, PTL DEF Spec

\* The witnesses behind an accepted container are on the chain together
\* (validator.go:308-314), provided that nothing left it during the call.
THEOREM WitnessesTogether == Spec => []WitnessesAgree
<1>1. ASSUME IInv, ReportInv, Projected, verdict.consensus, disturbed # "reorganised",
             NEW i \in DOMAIN Bundles, NEW j \in DOMAIN Bundles
      PROVE  /\ Live(Bundles[i].tx)
             /\ Bundles[i].tx # Bundles[j].tx =>
                    Transaction[Bundles[i].tx].spends
                        \cap Transaction[Bundles[j].tx].spends = {}
  <2>1. pc # "idle" /\ Accepted
    BY <1>1 DEF Projected, Accepted, Returned
  <2>2. prepared = {} /\ at > Len(Bundles)
    <3>1. verdict = Verdict /\ at > Len(Bundles)
      BY <1>1, <2>1 DEF ReportInv, ProjectionExplained
    <3>2. Verdict.consensus = (prepared = {})
      BY DEF Verdict
    <3> QED BY <1>1, <3>1, <3>2
  <2>3. \A k \in DOMAIN Bundles :
            /\ k \in Nat /\ k <= Len(Bundles) /\ Bundles[k].tx \in Tx
    BY <1>1, ContainerShape, KnownShape DEF IInv, TypeOK, Bundles
  <2>4. at \in Nat /\ Len(Bundles) \in Nat
    BY <1>1, ContainerShape DEF IInv, TypeOK, Bundles
  <2>5. \A k \in DOMAIN Bundles : Live(Bundles[k].tx)
    BY <1>1, <2>1, <2>2, <2>3, <2>4 DEF ReportInv, WitnessesSeen, Resolved
  <2> QED BY <1>1, <2>3, <2>5 DEF ReportInv, ChainAgrees
<1>2. IInv /\ ReportInv => WitnessesAgree
  BY <1>1 DEF WitnessesAgree
<1> QED BY <1>2, ReportAlways, PTL

\* What is projected is unspent when the call returns, if Bitcoin did not
\* move during the call (validator.go:700-757).
THEOREM ProjectsUnspent == Spec => []ProjectionIsCurrent
<1>1. ReportInv => ProjectionIsCurrent
  BY DEF ReportInv, ProjectionExplained, ProjectionIsCurrent, Unspent, Projected, Accepted,
         Returned
<1> QED BY <1>1, ReportAlways, PTL

\* Prepared witnesses can still be sent when ValidatePrepared returns: nobody
\* else spent the outputs they close (validator.go:93, 642-663).
THEOREM PreparedCanBeSent == Spec => []PreparedStillPossible
<1>1. ASSUME ReportInv, Projected, disturbed = "no",
             NEW p \in Positions(container), NEW r \in Inputs(At(container, p))
      PROVE  Spendable(r, p)
  <2>1. pc # "idle" /\ Accepted /\ ~Collecting
    BY <1>1 DEF Projected, Accepted, Returned, HistoryOnly
  <2> QED BY <1>1, <2>1 DEF ReportInv, WitnessesPossible
<1>2. ReportInv => PreparedStillPossible
  BY <1>1 DEF PreparedStillPossible, Spendable
<1> QED BY <1>2, ReportAlways, PTL

\* What an accepted projection leaves out may be left out.
LEMMA LeftOut ==
    ASSUME ReportInv, Projected, NEW r \in DOMAIN states, r \notin current
    PROVE  \/ GenesisOnly /\ r.op = Genesis
           \/ r.op \in HistoricalOps
<1>1. pc # "idle" /\ Accepted
  BY DEF Projected, Accepted, Returned
<1> QED BY <1>1 DEF ReportInv, ProjectionExplained, MayOmit

\* An operation is disclosed once in a good history.
LEMMA OnePosition ==
    ASSUME NEW c \in Containers, HistoryGood(c),
           NEW p \in Positions(c), NEW q \in Positions(c), At(c, p) = At(c, q)
    PROVE  p = q
<1>1. Inputs(At(c, p)) # {}
  BY PositionFacts, Assumed
<1> QED BY <1>1 DEF HistoryGood

\* What an accepted container delivers is what the survey protects.
LEMMA ReceivingIs ==
    ASSUME IInv, HistoryInv, ReportInv, pc = "project" \/ Accepted
    PROVE  /\ DOMAIN graph = OpsOf(container)
           /\ \A ops \in SUBSET DOMAIN graph : ParentsOf(ops) = Makers(ops)
           /\ Protected \subseteq BundleId
           /\ container.transfer => ProtectedOps = Receiving(container)
<1> DEFINE BundleAt(p) == container.bundles[p[1]].id
<1>1. /\ container \in Containers /\ HistoryGood(container) /\ SealsClosed
      /\ ParentsMade /\ DOMAIN graph = OpsOf(container) /\ at > Len(Bundles)
  BY DEF IInv, TypeOK, HistoryInv, Judged, ReportInv, MapsComplete, Surveyed,
         ProjectionExplained, Accepted, Returned
<1>2. complete <=> \A i \in DOMAIN Bundles : InFull(Bundles[i])
  <2>1. \A i \in DOMAIN Bundles : i < at
    BY <1>1, ContainerShape DEF IInv, TypeOK, Bundles
  <2> QED BY <2>1 DEF ReportInv, Surveyed
<1>3. ASSUME NEW p \in Positions(container)
      PROVE  /\ At(container, p) \in DOMAIN graph \ {Genesis}
             /\ graph[At(container, p)].bundle = BundleAt(p)
  <2>1. At(container, p) \in DOMAIN graph \ {Genesis}
    BY <1>1, PositionFacts DEF OpsOf
  <2>2. PICK q \in Positions(container) : /\ At(container, q) = At(container, p)
                                         /\ BundleAt(q) = graph[At(container, p)].bundle
    BY <1>1, <2>1 DEF SealsClosed
  <2>3. p = q
    BY <1>1, <2>2, OnePosition
  <2> QED BY <2>1, <2>2, <2>3
<1>4. ASSUME NEW op \in DOMAIN graph \ {Genesis}
      PROVE  \E p \in Positions(container) : At(container, p) = op
  BY <1>1 DEF OpsOf
<1>5. ASSUME NEW ops \in SUBSET DOMAIN graph
      PROVE  ParentsOf(ops) = Makers(ops)
  <2>1. ops \cap DOMAIN graph = ops /\ \A op \in ops : graph[op].parents = {r.op : r \in Inputs(op)}
    BY <1>1 DEF ParentsMade
  <2> QED BY <2>1 DEF ParentsOf, Makers
<1>6. Tips = EndsOf(container)
  <2>1. UNION {graph[op].parents : op \in DOMAIN graph} = ParentsOf(DOMAIN graph)
    BY DEF ParentsOf
  <2> QED BY <1>1, <1>5, <2>1 DEF Tips, EndsOf
<1>7. ASSUME NEW ids
      PROVE  UNION {BundleOps(id) : id \in ids} = OpsIn(container, ids)
  BY <1>3, <1>4 DEF BundleOps, OpsIn
<1>8. Protected = ReceivingIds(container)
  <2> SUFFICES ASSUME container.terminals = {} PROVE Protected = ReceivingIds(container)
    BY DEF Protected, ReceivingIds
  <2>1. Protected = {graph[tip].bundle : tip \in {t \in Tips \ {Genesis} : complete /\ Tips = {t}}}
    BY DEF Protected
  <2>2. ReceivingIds(container) =
            {BundleAt(p) : p \in {q \in Positions(container) : complete /\ Tips = {At(container, q)}}}
    BY <1>2, <1>6 DEF ReceivingIds, Bundles
  <2>3. \A p \in Positions(container) : At(container, p) \in Tips => At(container, p) \in Tips \ {Genesis}
    BY <1>3
  <2>4. Tips \subseteq DOMAIN graph
    BY DEF Tips
  <2> QED BY <1>3, <1>4, <2>1, <2>2, <2>3, <2>4
<1>9. Protected \subseteq BundleId
  <2>1. container.terminals \subseteq BundleId
    BY <1>1, ContainerShape DEF Container
  <2>2. \A p \in Positions(container) : BundleAt(p) \in BundleId
    BY <1>1, PositionFacts DEF WitnessBundle
  <2> QED BY <1>8, <2>1, <2>2 DEF ReceivingIds
<1> QED BY <1>1, <1>5, <1>7, <1>8, <1>9 DEF ProtectedOps, Receiving

\* Receiving outputs are fail-closed: no unconsumed output of what a container
\* delivers is left out of an accepted projection (validator.go:751-753).
THEOREM ReceivingOutputsKept == Spec => []ReceivingKept
<1>1. ASSUME IInv, HistoryInv, ReportInv, Projected, NEW op \in Receiving(container),
             NEW r \in RevealedOutputs(container, op) \ consumed
      PROVE  r \in current
  <2>1. Accepted /\ container.transfer
    BY <1>1 DEF Projected, Receiving
  <2>2. op \in ProtectedOps
    BY <1>1, <2>1, ReceivingIs
  <2>3. op \in DOMAIN graph /\ graph[op].bundle \in Protected
    BY <2>2 DEF ProtectedOps, BundleOps
  <2>4. r \in DOMAIN states /\ r.op = op
    BY <1>1, <2>3, OutputsMadeBy DEF ReportInv, MapsComplete, StatesComplete, RevealedOutputs
  <2>5. op \notin HistoricalOps
    BY <2>3 DEF HistoricalOps
  <2> QED BY <1>1, <2>1, <2>4, <2>5, LeftOut DEF GenesisOnly
<1>2. IInv /\ HistoryInv /\ ReportInv => ReceivingKept
  BY <1>1 DEF ReceivingKept
<1> QED BY <1>2, ReportAlways, PTL

-------------------------------------------------------------------------------
(***************************************************************************)
(* The worklist.  It is defined by recursion on its rounds; that such a    *)
(* function exists is shown by naming it: after n rounds it holds what a   *)
(* path of at most n steps from child to parent reaches.                   *)
(***************************************************************************)
LEMMA ParentsInGraph ==
    ASSUME IInv, ParentsMade, NEW ops
    PROVE  ParentsOf(ops) \subseteq DOMAIN graph
<1>1. \A op \in DOMAIN graph : graph[op].parents \subseteq DOMAIN graph
  BY DEF ParentsMade, IInv, Bookkeeping
<1> QED BY <1>1 DEF ParentsOf

LEMMA WorklistRounds ==
    ASSUME IInv, ParentsMade
    PROVE  /\ Worklist[0] = ParentsOf(ProtectedOps)
           /\ \A n \in Nat : Worklist[n + 1] = Worklist[n] \cup ParentsOf(Worklist[n])
<1> DEFINE D == DOMAIN graph
           Path(f, k) == /\ f[0] \in ParentsOf(ProtectedOps)
                         /\ \A i \in 0 .. (k - 1) : f[i + 1] \in ParentsOf({f[i]})
           Reach(n) == {x \in D : \E k \in 0 .. n : \E f \in [0 .. k -> D] :
                                       Path(f, k) /\ f[k] = x}
           W == [n \in Nat |-> Reach(n)]
<1>1. \A ops : ParentsOf(ops) \subseteq D
  BY ParentsInGraph
<1>2. \A ops : \A x \in ParentsOf(ops) : \E y \in ops : x \in ParentsOf({y})
  BY DEF ParentsOf
<1>3. \A ops : \A y \in ops : ParentsOf({y}) \subseteq ParentsOf(ops)
  BY DEF ParentsOf
<1>4. Reach(0) = ParentsOf(ProtectedOps)
  <2>1. ASSUME NEW x \in ParentsOf(ProtectedOps) PROVE x \in Reach(0)
    <3> DEFINE f == [i \in 0 .. 0 |-> x]
    <3>1. f \in [0 .. 0 -> D] /\ Path(f, 0) /\ f[0] = x /\ 0 \in 0 .. 0 /\ x \in D
      BY <1>1
    <3> HIDE DEF f, Path
    <3> QED BY <3>1
  <2>2. ASSUME NEW x \in Reach(0) PROVE x \in ParentsOf(ProtectedOps)
    OBVIOUS
  <2> QED BY <2>1, <2>2
<1>5. ASSUME NEW n \in Nat
      PROVE  Reach(n + 1) = Reach(n) \cup ParentsOf(Reach(n))
  <2>1. ASSUME NEW x \in Reach(n + 1) PROVE x \in Reach(n) \cup ParentsOf(Reach(n))
    <3>0. PICK k \in 0 .. (n + 1) : \E f \in [0 .. k -> D] : Path(f, k) /\ f[k] = x
      BY <2>1
    <3>1. PICK f \in [0 .. k -> D] : Path(f, k) /\ f[k] = x
      BY <3>0
    <3>2. CASE k \in 0 .. n
      BY <3>1, <3>2
    <3>3. CASE k = n + 1
      <4> DEFINE g == [i \in 0 .. n |-> f[i]]
      <4>1. g \in [0 .. n -> D] /\ n \in 0 .. n /\ g[n] = f[n] /\ f[n] \in D
        BY <3>1, <3>3
      <4>2. Path(g, n)
        BY <3>1, <3>3
      <4> HIDE DEF g
      <4>3. f[n] \in Reach(n)
        <5> HIDE DEF Path
        <5> QED BY <4>1, <4>2
      <4>4. x \in ParentsOf({f[n]})
        BY <3>1, <3>3
      <4> HIDE DEF Reach
      <4> QED BY <1>3, <4>3, <4>4
    <3>4. k \in 0 .. n \/ k = n + 1
      OBVIOUS
    <3> QED BY <3>2, <3>3, <3>4
  <2>2. ASSUME NEW x \in Reach(n) PROVE x \in Reach(n + 1)
    <3>1. 0 .. n \subseteq 0 .. (n + 1)
      OBVIOUS
    <3> HIDE DEF Path
    <3> QED BY <2>2, <3>1
  <2>3. ASSUME NEW x \in ParentsOf(Reach(n)) PROVE x \in Reach(n + 1)
    <3>1. PICK y \in Reach(n) : x \in ParentsOf({y})
      BY <1>2, <2>3
    <3>0. PICK k \in 0 .. n : \E f \in [0 .. k -> D] : Path(f, k) /\ f[k] = y
      BY <3>1
    <3>2. PICK f \in [0 .. k -> D] : Path(f, k) /\ f[k] = y
      BY <3>0
    <3> DEFINE g == [i \in 0 .. (k + 1) |-> IF i = k + 1 THEN x ELSE f[i]]
    <3>3. g \in [0 .. (k + 1) -> D] /\ k + 1 \in 0 .. (n + 1) /\ g[k + 1] = x /\ x \in D
      BY <1>1, <2>3, <3>2
    <3>4. Path(g, k + 1)
      <4>1. g[0] \in ParentsOf(ProtectedOps)
        BY <3>2
      <4>2. ASSUME NEW i \in 0 .. k PROVE g[i + 1] \in ParentsOf({g[i]})
        <5>1. CASE i = k
          <6>1. g[i + 1] = x /\ g[i] = y
            BY <3>2, <5>1
          <6> HIDE DEF g
          <6> QED BY <3>1, <6>1
        <5>2. CASE i \in 0 .. (k - 1)
          <6>1. g[i + 1] = f[i + 1] /\ g[i] = f[i]
            BY <3>2, <5>2
          <6> QED BY <3>2, <5>2, <6>1
        <5> QED BY <3>2, <5>1, <5>2
      <4>3. 0 .. ((k + 1) - 1) = 0 .. k
        BY <3>2
      <4> HIDE DEF g
      <4> QED BY <4>1, <4>2, <4>3
    <3> HIDE DEF g, Path
    <3> QED BY <3>3, <3>4
  <2> HIDE DEF Reach
  <2> QED BY <2>1, <2>2, <2>3
<1> HIDE DEF Reach
<1>6. W = [n \in Nat |-> IF n = 0 THEN ParentsOf(ProtectedOps)
                         ELSE W[n - 1] \cup ParentsOf(W[n - 1])]
  <2> SUFFICES ASSUME NEW n \in Nat
               PROVE  Reach(n) = IF n = 0 THEN ParentsOf(ProtectedOps)
                                 ELSE Reach(n - 1) \cup ParentsOf(Reach(n - 1))
    OBVIOUS
  <2>1. CASE n = 0
    BY <1>4, <2>1
  <2>2. CASE n # 0
    <3>1. n - 1 \in Nat /\ (n - 1) + 1 = n
      BY <2>2
    <3>2. Reach((n - 1) + 1) = Reach(n - 1) \cup ParentsOf(Reach(n - 1))
      BY <1>5, <3>1
    <3> QED BY <2>2, <3>1, <3>2
  <2> QED BY <2>1, <2>2
<1> HIDE DEF W
<1>7. Worklist = [n \in Nat |-> IF n = 0 THEN ParentsOf(ProtectedOps)
                                ELSE Worklist[n - 1] \cup ParentsOf(Worklist[n - 1])]
  BY <1>6 DEF Worklist
<1>8. \A n \in Nat : Worklist[n] = IF n = 0 THEN ParentsOf(ProtectedOps)
                                ELSE Worklist[n - 1] \cup ParentsOf(Worklist[n - 1])
  BY <1>7
<1>9. ASSUME NEW n \in Nat PROVE Worklist[n + 1] = Worklist[n] \cup ParentsOf(Worklist[n])
  <2>1. n + 1 \in Nat /\ n + 1 # 0 /\ (n + 1) - 1 = n
    OBVIOUS
  <2>2. Worklist[n + 1] = IF n + 1 = 0 THEN ParentsOf(ProtectedOps)
                   ELSE Worklist[(n + 1) - 1] \cup ParentsOf(Worklist[(n + 1) - 1])
    BY <1>8, <2>1
  <2> QED BY <2>1, <2>2
<1> QED BY <1>8, <1>9

\* Whatever holds the parents of the protected operations and is closed under
\* parents holds the worklist.
LEMMA WorklistInside ==
    ASSUME IInv, ParentsMade, NEW s, ParentsOf(ProtectedOps) \subseteq s,
           ParentsOf(s) \subseteq s, NEW n \in Nat
    PROVE  Worklist[n] \subseteq s
<1> DEFINE Bad == {m \in Nat : ~(Worklist[m] \subseteq s)}
<1> SUFFICES ASSUME Bad # {} PROVE FALSE
  OBVIOUS
<1>1. PICK m \in Bad : \A k \in Bad : m <= k
  BY LeastNatural
<1>2. m # 0
  BY <1>1, WorklistRounds
<1>3. m - 1 \in Nat /\ (m - 1) + 1 = m
  BY <1>1, <1>2
<1>4. m - 1 \notin Bad
  BY <1>1, <1>3
<1>5. Worklist[m - 1] \subseteq s
  BY <1>3, <1>4
<1>6. ParentsOf(Worklist[m - 1]) \subseteq ParentsOf(s)
  BY <1>5 DEF ParentsOf
<1>7. Worklist[m] \subseteq s
  BY <1>3, <1>5, <1>6, WorklistRounds
<1> QED BY <1>1, <1>7

\* As many rounds as there are operations are enough.
LEMMA ReachedClosed ==
    ASSUME IInv, MapsComplete
    PROVE  /\ ParentsOf(ProtectedOps) \subseteq Reached
           /\ ParentsOf(Reached) \subseteq Reached
           /\ Reached \subseteq DOMAIN graph
<1> DEFINE D == DOMAIN graph
           N == Cardinality(D)
           W(n) == Worklist[n]
           C(n) == Cardinality(W(n))
           Fine(n) == /\ ParentsOf(ProtectedOps) \subseteq W(n)
                      /\ ParentsOf(W(n)) \subseteq W(n) \/ n <= C(n)
           Bad == {n \in Nat : ~Fine(n)}
<1>1. IsFiniteSet(D) /\ N \in Nat /\ ParentsMade
  BY FS_CardinalityType DEF MapsComplete
<1>2. /\ W(0) = ParentsOf(ProtectedOps)
      /\ \A n \in Nat : W(n + 1) = W(n) \cup ParentsOf(W(n)) /\ W(n) \subseteq D
  BY <1>1, WorklistRounds, WorklistInside, ParentsInGraph
<1>3. Reached = W(N)
  BY DEF Reached
<1> HIDE DEF W
<1>4. ASSUME NEW n \in Nat
      PROVE  IsFiniteSet(W(n)) /\ C(n) \in Nat /\ C(n) <= N /\ (N = C(n) => D = W(n))
  <2>1. W(n) \in SUBSET D
    BY <1>2
  <2>2. IsFiniteSet(W(n)) /\ C(n) <= N /\ (N = C(n) => D = W(n))
    BY <1>1, <2>1, FS_Subset
  <2> QED BY <2>2, FS_CardinalityType
<1>5. ASSUME NEW n \in Nat, W(n) # W(n + 1) PROVE C(n) < C(n + 1)
  <2>1. n + 1 \in Nat /\ W(n) \in SUBSET W(n + 1)
    BY <1>2
  <2>2. C(n) <= C(n + 1) /\ (C(n + 1) = C(n) => W(n + 1) = W(n))
    BY <1>4, <2>1, FS_Subset
  <2>3. C(n) \in Nat /\ C(n + 1) \in Nat
    BY <1>4, <2>1
  <2> HIDE DEF C
  <2> QED BY <1>5, <2>2, <2>3
<1> HIDE DEF C, N
<1>6. Fine(0)
  <2>1. C(0) \in Nat
    BY <1>4
  <2> QED BY <1>2, <2>1
<1>7. ASSUME NEW n \in Nat, Fine(n) PROVE Fine(n + 1)
  <2>1. W(n + 1) = W(n) \cup ParentsOf(W(n)) /\ n + 1 \in Nat
    BY <1>2
  <2>2. CASE W(n + 1) = W(n)
    BY <1>7, <2>1, <2>2
  <2>3. CASE W(n + 1) # W(n)
    <3>1. n <= C(n) /\ ParentsOf(ProtectedOps) \subseteq W(n + 1)
      BY <1>7, <2>1, <2>3
    <3>2. n + 1 <= C(n + 1)
      BY <1>4, <1>5, <2>1, <2>3, <3>1
    <3> QED BY <3>1, <3>2
  <2> QED BY <2>2, <2>3
<1> HIDE DEF Fine
<1>8. Bad = {}
  <2> SUFFICES ASSUME Bad # {} PROVE FALSE
    OBVIOUS
  <2>1. PICK m \in Bad : \A k \in Bad : m <= k
    BY LeastNatural
  <2>2. m # 0 /\ m \in Nat /\ ~Fine(m)
    BY <1>6, <2>1
  <2>3. m - 1 \in Nat /\ (m - 1) + 1 = m
    BY <2>2
  <2>4. m - 1 \notin Bad
    BY <2>1, <2>3
  <2> QED BY <1>7, <2>2, <2>3, <2>4
<1>9. Fine(N)
  BY <1>1, <1>8
<1>10. CASE ParentsOf(W(N)) \subseteq W(N)
  BY <1>1, <1>2, <1>3, <1>9, <1>10 DEF Fine
<1>11. CASE N <= C(N)
  <2>1. C(N) = N
    BY <1>1, <1>4, <1>11
  <2>2. W(N) = D
    BY <1>1, <1>4, <2>1
  <2> QED BY <1>1, <1>3, <2>2, ParentsInGraph
<1> QED BY <1>9, <1>10, <1>11 DEF Fine

\* The operations whose outputs the survey lets go are history.
LEMMA HistoricalIs ==
    ASSUME IInv, HistoryInv, ReportInv, pc = "project" \/ Accepted
    PROVE  HistoricalOps = AncestorsOf(Receiving(container)) \ Receiving(container)
<1>1. CASE ~container.transfer
  <2>1. HistoricalOps = {} /\ Receiving(container) = {}
    BY <1>1 DEF HistoricalOps, Receiving
  <2>2. Makers({}) = {}
    BY DEF Makers
  <2>3. AncestorsOf({}) = {}
    BY <2>2 DEF AncestorsOf
  <2> QED BY <2>1, <2>3
<1>2. CASE container.transfer
  <2>1. /\ DOMAIN graph = OpsOf(container) /\ ProtectedOps = Receiving(container)
        /\ \A ops \in SUBSET DOMAIN graph : ParentsOf(ops) = Makers(ops)
        /\ Protected \subseteq BundleId
    BY <1>2, ReceivingIs
  <2>2. ProtectedOps \in SUBSET DOMAIN graph
    BY DEF ProtectedOps, BundleOps
  <2>3. /\ ParentsOf(ProtectedOps) \subseteq Reached /\ ParentsOf(Reached) \subseteq Reached
        /\ Reached \in SUBSET DOMAIN graph
    BY ReachedClosed DEF ReportInv
  <2>4. ASSUME NEW a \in HistoricalOps
        PROVE  a \in AncestorsOf(ProtectedOps) \ ProtectedOps
    <3>1. a \in Reached /\ a \notin ProtectedOps
      BY <2>4 DEF HistoricalOps, ProtectedOps, BundleOps
    <3>2. ASSUME NEW s \in SUBSET DOMAIN graph, Makers(ProtectedOps) \cup Makers(s) \subseteq s
          PROVE  a \in s
      <4>1. ParentsOf(ProtectedOps) \subseteq s /\ ParentsOf(s) \subseteq s
        BY <2>1, <2>2, <3>2
      <4>2. Cardinality(DOMAIN graph) \in Nat
        BY FS_CardinalityType DEF ReportInv, MapsComplete
      <4> QED BY <3>1, <4>1, <4>2, WorklistInside DEF ReportInv, MapsComplete, Reached
    <3> QED BY <2>1, <2>3, <3>1, <3>2 DEF AncestorsOf
  <2>5. ASSUME NEW a \in AncestorsOf(ProtectedOps) \ ProtectedOps
        PROVE  a \in HistoricalOps
    <3>1. Makers(ProtectedOps) \cup Makers(Reached) \subseteq Reached
      BY <2>1, <2>2, <2>3
    <3>2. a \in Reached /\ a \in DOMAIN graph
      BY <2>1, <2>3, <2>5, <3>1 DEF AncestorsOf
    <3>3. graph[a].bundle \notin Protected
      <4>1. CASE a = Genesis
        BY <2>1, <3>2, <4>1, ConsignmentAssumption DEF ReportInv, Surveyed
      <4>2. CASE a # Genesis
        BY <2>5, <3>2, <4>2 DEF ProtectedOps, BundleOps
      <4> QED BY <4>1, <4>2
    <3> QED BY <1>2, <3>2, <3>3 DEF HistoricalOps
  <2> QED BY <2>1, <2>4, <2>5
<1> QED BY <1>1, <1>2

\* A spent output is left out of a projection only when a strict ancestor of
\* what the container delivers made it (validator.go:751-753, 325-408).
THEOREM OmitsOnlyHistory == Spec => []OnlyHistoryOmitted
<1>1. ASSUME IInv, HistoryInv, ReportInv, Projected, NEW r \in DOMAIN states \ current
      PROVE  IsHistory(r)
  BY <1>1, LeftOut, HistoricalIs DEF IsHistory, Projected
<1>2. IInv /\ HistoryInv /\ ReportInv => OnlyHistoryOmitted
  BY <1>1 DEF OnlyHistoryOmitted
<1> QED BY <1>2, ReportAlways, PTL

\* The material of a history report explains itself: inputs of reported
\* operations are reported states, made by reported operations
\* (history_report.go finish).
THEOREM MaterialExplainsItself == Spec => []MaterialClosed
<1>1. ASSUME IInv, ReportInv, Accepted, Collecting, complete
      PROVE  LET ops == {r.op : r \in history.states}
             IN  /\ \A op \in SelectedOps : Inputs(op) \subseteq history.states
                 /\ ops \subseteq SelectedOps
                 /\ \A e \in history.consumers : e.input \in Inputs(e.consumer)
  <2> DEFINE chosen == {x \in edges : x.consumer \in SelectedOps}
  <2>1. /\ history.consumers = edges
        /\ history.states = {e.input : e \in chosen} \cup SelectedStates
    BY <1>1 DEF ReportInv, MaterialRecorded, Material
  <2>2. EdgesComplete /\ ParentsMade
    BY <1>1 DEF ReportInv, MapsComplete
  <2>3. SelectedOps \subseteq DOMAIN graph
    BY <1>1, ReachedClosed DEF ReportInv, SelectedOps, ProtectedOps, BundleOps
  <2>4. \A op \in SelectedOps : Inputs(op) \subseteq history.states
    BY <1>1, <2>1, <2>2, <2>3 DEF EdgesComplete
  <2>5. \A e \in history.consumers : e.input \in Inputs(e.consumer)
    BY <1>1, <2>1, <2>2 DEF EdgesComplete
  <2>6. ParentsOf(SelectedOps) \subseteq SelectedOps
    <3>1. CASE container.transfer
      <4>1. SelectedOps = ProtectedOps \cup Reached
        BY <3>1 DEF SelectedOps
      <4>2. ParentsOf(SelectedOps) \subseteq ParentsOf(ProtectedOps) \cup ParentsOf(Reached)
        BY <4>1 DEF ParentsOf
      <4> QED BY <1>1, <4>1, <4>2, ReachedClosed DEF ReportInv
    <3>2. CASE ~container.transfer
      BY <1>1, <2>2, <3>2, ParentsInGraph DEF SelectedOps
    <3> QED BY <3>1, <3>2
  <2>7. ASSUME NEW r \in history.states PROVE r.op \in SelectedOps
    <3>1. CASE r \in SelectedStates
      BY <3>1 DEF SelectedStates
    <3>2. CASE r \in {e.input : e \in chosen}
      <4>1. PICK e \in chosen : r = e.input
        BY <3>2
      <4>2. r \in Inputs(e.consumer) /\ e.consumer \in SelectedOps
        BY <2>1, <2>5, <4>1
      <4>3. r.op \in graph[e.consumer].parents
        BY <2>2, <2>3, <4>2 DEF ParentsMade
      <4> QED BY <2>3, <2>6, <4>2, <4>3 DEF ParentsOf
    <3> QED BY <2>1, <2>7, <3>1, <3>2
  <2> HIDE DEF chosen
  <2> QED BY <2>4, <2>5, <2>7
<1>2. IInv /\ ReportInv => MaterialClosed
  BY <1>1 DEF MaterialClosed
<1> QED BY <1>2, ReportAlways, PTL

-------------------------------------------------------------------------------
(***************************************************************************)
(* Nothing good is refused: under favourable conditions no step fails, but *)
(* for a projected state whose output is gone or spent.                    *)
(***************************************************************************)
Favourable ==
    /\ disturbed = "no" /\ Faults = {}
    /\ HistoryGood(container)
    /\ \A i \in DOMAIN Bundles : Live(Bundles[i].tx)
    /\ container.terminals \subseteq {Bundles[i].id : i \in DOMAIN Bundles}

Excused ==
    \/ err = "none"
    \/ /\ ~HistoryOnly
       /\ \E r \in DOMAIN states :
              \/ err = "ErrOutpointUnknown" /\ ~Exists(states[r].outpoint)
              \/ err = "ErrOutpointSpend" /\ Spenders(states[r].outpoint) # {}
                                         /\ ~IsHistory(r)

\* Everything is on the chain, so nothing is prepared.
LEMMA NothingPrepared ==
    ASSUME WitnessesSeen, Favourable
    PROVE  prepared = {}
BY DEF WitnessesSeen, Favourable

LEMMA GoodBundleResolves ==
    ASSUME Favourable, ResolveBundle, IInv
    PROVE  err' = err
<1>1. PICK answer \in WitnessAnswers(Bundle.tx) :
         LET resolved == Resolve(Bundle, answer)
             e        == ResolutionError(Bundle, resolved)
         IN  e # "none" \/ err' = err
  BY DEF ResolveBundle
<1>2. at \in DOMAIN Bundles
  BY PositionShape DEF ResolveBundle, IInv, Bookkeeping, TypeOK
<1>3. Live(Bundle.tx) /\ BundleWellFormed(Bundle) /\ Transaction[Bundle.tx].commits = Bundle.id
  BY <1>2 DEF Favourable, HistoryGood, Bundle, Bundles
<1>4. ~answer.failed /\ answer.state = chain[Bundle.tx] /\ answer.raw = "own"
  BY <1>1 DEF WitnessAnswers, RawAnswers, Favourable
<1>5. Resolve(Bundle, answer) \in {"tentative", "mined"}
  BY <1>3, <1>4 DEF Resolve, Live
<1>6. ResolutionError(Bundle, Resolve(Bundle, answer)) = "none"
  BY <1>3, <1>5 DEF ResolutionError
<1> QED BY <1>1, <1>6

LEMMA GoodInputPasses ==
    ASSUME IInv, HistoryInv, StatesComplete, Favourable,
           pc = "transition", NEW r \in unchecked
    PROVE  InputError(r) = "none"
<1> DEFINE here == <<at, step>>
<1>1. /\ container \in Containers /\ at \in DOMAIN Bundles /\ step \in DOMAIN Bundle.known
      /\ r \in Inputs(Current)
  BY DEF IInv, TypeOK, Bookkeeping
<1>2. /\ here \in Positions(container) /\ At(container, here) = Current
      /\ WitnessAt(container, here) = Bundle.tx
      /\ container.bundles[here[1]].id = Bundle.id
  BY <1>1, PositionIn DEF Bundle, Bundles, Current
<1>3. Cursor = here /\ StatesPlaced /\ PassedGood
  BY DEF Cursor, HistoryInv, Walking
<1>4. here \notin Passed
  <2>1. at \in Nat /\ step \in Nat
    BY DEF IInv, TypeOK
  <2> QED BY <1>3, <2>1 DEF Passed, Before
<1>5. /\ InputMapCommits(Bundle.id, r, Current)
      /\ MadeAndClosed(container, r, here)
      /\ \A q \in Positions(container) \ {here} : r \notin Inputs(At(container, q))
  BY <1>1, <1>2 DEF Favourable, HistoryGood
<1>6. r \notin consumed
  <2>1. \A q \in Passed : r \notin Inputs(At(container, q))
    BY <1>4, <1>5 DEF Passed
  <2> QED BY <1>3, <2>1, Assumed DEF PassedGood, IInv, Bookkeeping
<1>7. CASE r.op = Genesis /\ Spends(Bundle.tx, OutpointOf(r, NoTx))
  <2>1. r \in DOMAIN states
    BY <1>3, <1>5, <1>6, <1>7 DEF PassedGood, StatesComplete, MadeAndClosed
  <2>2. \A q \in Passed : At(container, q) # Genesis
    BY <1>1, PositionFacts DEF Passed
  <2>3. states[r].outpoint = OutpointOf(r, NoTx)
    BY <1>3, <1>7, <2>1, <2>2 DEF StatesPlaced
  <2> QED BY <1>5, <1>6, <1>7, <2>1, <2>3 DEF InputError
<1>8. CASE \E q \in Positions(container) :
              /\ Before(q, here)
              /\ At(container, q) = r.op
              /\ Spends(Bundle.tx, OutpointOf(r, WitnessAt(container, q)))
  <2>1. PICK q \in Positions(container) :
              /\ Before(q, here)
              /\ At(container, q) = r.op
              /\ Spends(Bundle.tx, OutpointOf(r, WitnessAt(container, q)))
    BY <1>8
  <2>2. q \in Passed /\ r.op # Genesis
    BY <1>1, <1>3, <2>1, PositionFacts DEF Passed
  <2>3. r \in DOMAIN states
    BY <1>3, <1>5, <1>6, <2>1, <2>2 DEF PassedGood, StatesComplete, MadeAndClosed
  <2>4. PICK p \in Passed :
            /\ At(container, p) = r.op
            /\ states[r].outpoint = OutpointOf(r, WitnessAt(container, p))
    BY <1>3, <2>2, <2>3 DEF StatesPlaced
  <2>5. p = q
    BY <1>1, <2>1, <2>4, OnePosition DEF Favourable, Passed
  <2> QED BY <1>5, <1>6, <2>1, <2>3, <2>4, <2>5 DEF InputError
<1> QED BY <1>2, <1>5, <1>7, <1>8 DEF MadeAndClosed

LEMMA GoodTransitionPasses ==
    ASSUME IInv, Favourable, pc = "transition"
    PROVE  TransitionValid(Current)
<1>1. at \in DOMAIN Bundles /\ step \in DOMAIN Bundle.known
  BY DEF IInv, Bookkeeping
<1>2. <<at, step>> \in Positions(container) /\ At(container, <<at, step>>) = Current
  BY <1>1, PositionIn DEF Bundle, Bundles, Current
<1> QED BY <1>2 DEF Favourable, HistoryGood

LEMMA GoodFinishes ==
    ASSUME IInv, HistoryInv, MapsComplete, WitnessesSeen, Favourable, FinishBundles
    PROVE  err' = err
<1>1. /\ container \in Containers /\ pc = "bundle" /\ at > Len(Bundles)
      /\ PassedGood /\ SealsClosed
  BY DEF IInv, TypeOK, FinishBundles, HistoryInv, Walking
<1>2. Passed = Positions(container)
  BY <1>1, AllPassed
<1>3. ASSUME NEW id \in container.terminals PROVE BundleOps(id) # {}
  <2>1. PICK i \in DOMAIN Bundles : id = Bundles[i].id
    BY DEF Favourable
  <2> DEFINE op == Bundles[i].known[1]
             p  == <<i, 1>>
  <2>2. 1 \in DOMAIN Bundles[i].known
    BY <1>1, ContainerShape, KnownShape DEF Favourable, HistoryGood, BundleWellFormed, Bundles
  <2>3. p \in Positions(container) /\ At(container, p) = op
    BY <2>2, PositionIn DEF Bundles
  <2>4. op \in DOMAIN graph \ {Genesis}
    BY <1>1, <1>2, <2>3, PositionFacts DEF PassedGood
  <2>5. PICK q \in Positions(container) :
            At(container, q) = op /\ container.bundles[q[1]].id = graph[op].bundle
    BY <1>1, <2>4 DEF SealsClosed
  <2>6. q = p
    BY <1>1, <2>3, <2>5, OnePosition DEF Favourable
  <2>7. op \in BundleOps(id)
    BY <2>1, <2>4, <2>5, <2>6 DEF BundleOps, Bundles
  <2> QED BY <2>7
<1>4. HistoricalError = "none"
  BY <1>3, ReachedClosed DEF HistoricalError
<1>5. FinishError = "none"
  BY <1>4, NothingPrepared DEF FinishError, OnPrepared
<1> QED BY <1>5 DEF FinishBundles

LEMMA ProjectionExcused ==
    ASSUME IInv, HistoryInv, ReportInv, Favourable, err = "none", ProjectState
    PROVE  Excused'
<1>1. /\ pc = "project" /\ ~HistoryOnly
      /\ UNCHANGED <<container, mode, states, historical, chain>>
  BY DEF ProjectState, HistoryInv, working
<1>2. pending \subseteq DOMAIN states
  BY DEF IInv, TypeOK
<1>3. PICK r \in pending :
         \/ OnPrepared(r)
         \/ \E answer \in OutpointAnswers(states[r].outpoint) :
                IF ProjectionError(r, answer) # "none"
                THEN err' = ProjectionError(r, answer)
                ELSE err' = err
  BY DEF ProjectState, Fail
<1>4. ~OnPrepared(r)
  BY <1>1, NothingPrepared DEF OnPrepared, ReportInv
<1>5. PICK answer \in OutpointAnswers(states[r].outpoint) :
                IF ProjectionError(r, answer) # "none"
                THEN err' = ProjectionError(r, answer)
                ELSE err' = err
  BY <1>3, <1>4
<1>6. answer = [known |-> TRUE, exists |-> Exists(states[r].outpoint),
                spent |-> Spenders(states[r].outpoint) # {},
                by |-> Spenders(states[r].outpoint)]
  BY <1>5 DEF OutpointAnswers, Favourable
<1>7. \/ err' = "none"
      \/ err' = "ErrOutpointUnknown" /\ ~Exists(states[r].outpoint)
      \/ err' = "ErrOutpointSpend" /\ Spenders(states[r].outpoint) # {} /\ ~IsHistory(r)
  <2>1. historical = HistoricalOps
    BY <1>1 DEF ReportInv, ProjectionExplained
  <2>2. IsHistory(r) => MayOmit(r)
    BY <1>1, <2>1, HistoricalIs DEF IsHistory, MayOmit
  <2> QED BY <1>5, <1>6, <2>2 DEF ProjectionError
<1>8. /\ HistoryOnly' = HistoryOnly /\ IsHistory(r)' = IsHistory(r)
      /\ Exists(states[r].outpoint)' = Exists(states[r].outpoint)
      /\ Spenders(states[r].outpoint)' = Spenders(states[r].outpoint)
  BY <1>1 DEF HistoryOnly, Collecting, IsHistory, AncestorsOf, GenesisOnly, Bundles, Exists,
              Spenders, Live
<1> QED BY <1>1, <1>2, <1>7, <1>8 DEF Excused

GoodInv == Returned /\ Favourable => Excused

LEMMA GoodInvIs == GoodInv <=> GoodIsAccepted
BY DEF GoodInv, GoodIsAccepted, Favourable, Excused

LEMMA GoodInit == Init => GoodInv
BY DEF Init, GoodInv, Returned

LEMMA GoodNext == IInv /\ HistoryInv /\ ReportInv /\ GoodInv /\ [Next]_vars => GoodInv'
<1> SUFFICES ASSUME IInv, HistoryInv, ReportInv, GoodInv, [Next]_vars,
                    Returned', Favourable'
             PROVE  Excused'
  BY DEF GoodInv
<1>1. ~Call
  BY DEF Call, Start, Returned
<1>2. pc # "idle"
  BY <1>1 DEF Returned, Next, Validate, ResolveBundle, CheckInput, ApplyTransition,
        RefuseTransition, FinishBundles, ProjectState, Accept, ChainGrows, ChainReorganises, vars
<1>3. disturbed = "no" /\ UNCHANGED chain
  BY <1>1, <1>2, ChainRemembered DEF Favourable, ReportInv
<1>4. container' = container
  BY <1>1 DEF Next, Validate, ResolveBundle, CheckInput, ApplyTransition, RefuseTransition,
        FinishBundles, ProjectState, Accept, ChainGrows, ChainReorganises, vars
<1>5. Favourable
  BY <1>3, <1>4 DEF Favourable, Bundles, Live
<1>6. WitnessesSeen /\ MapsComplete /\ (pc # "returned" => err = "none")
  BY <1>2 DEF ReportInv, ProjectionExplained
<1>7. CASE ResolveBundle
  BY <1>5, <1>6, <1>7, GoodBundleResolves DEF Excused, ResolveBundle
<1>8. CASE CheckInput
  <2>1. pc = "transition" /\ prepared = {} /\ evidence # "prepared"
    BY <1>5, <1>6, <1>8, NothingPrepared DEF CheckInput, WitnessesSeen
  <2>2. \A r \in unchecked : InputError(r) = "none"
    BY <1>5, <1>6, <2>1, GoodInputPasses DEF MapsComplete
  <2>3. err' = err
    BY <1>8, <2>1, <2>2 DEF CheckInput
  <2> QED BY <1>6, <2>1, <2>3 DEF Excused
<1>9. CASE ApplyTransition
  BY <1>9 DEF ApplyTransition, Returned
<1>10. CASE RefuseTransition
  BY <1>5, <1>10, GoodTransitionPasses DEF RefuseTransition
<1>11. CASE FinishBundles
  BY <1>5, <1>6, <1>11, GoodFinishes DEF Excused, FinishBundles
<1>12. CASE ProjectState
  <2>1. pc = "project"
    BY <1>12 DEF ProjectState
  <2> QED BY <1>5, <1>6, <1>12, <2>1, ProjectionExcused
<1>13. CASE Accept
  BY <1>6, <1>13 DEF Accept, Excused
<1>14. CASE ChainGrows \/ ChainReorganises \/ UNCHANGED vars
  <2>1. UNCHANGED <<container, mode, pc, err, states, historical>>
    BY <1>14 DEF ChainGrows, ChainReorganises, vars, working, report
  <2>2. Excused
    BY <1>5, <2>1 DEF GoodInv, Returned
  <2>3. /\ HistoryOnly' = HistoryOnly /\ \A r : IsHistory(r)' = IsHistory(r)
        /\ \A o : Exists(o)' = Exists(o) /\ Spenders(o)' = Spenders(o)
    BY <1>3, <2>1 DEF HistoryOnly, Collecting, IsHistory, AncestorsOf, GenesisOnly,
                      Bundles, Exists, Spenders, Live
  <2> QED BY <2>1, <2>2, <2>3 DEF Excused
<1> QED BY <1>1, <1>7, <1>8, <1>9, <1>10, <1>11, <1>12, <1>13, <1>14 DEF Next, Validate

\* A good history whose witnesses are on the chain is not refused, but for a
\* projected output that is gone, or spent and not history (validator.go:84-93).
THEOREM GoodNeverRefused == Spec => []GoodIsAccepted
BY InitInv, NextInv, HistoryInit, HistoryNext, ReportInit, ReportNext, GoodInit, GoodNext,
   GoodInvIs, PTL DEF Spec

-------------------------------------------------------------------------------
Worth == [r \in Ref |-> State(r).amount]

OfKind(kind, refs) == {r \in refs : State(r).kind = kind}

LEMMA TotalIsCounted ==
    ASSUME NEW kind, NEW refs \in SUBSET Ref, IsFiniteSet(refs),
           \A r \in refs : State(r).amount \in Nat
    PROVE  TotalOf(kind, refs) = Cardinality(Units(Worth, OfKind(kind, refs)))
<1> DEFINE S == OfKind(kind, refs)
           Step(it) == [s \in SUBSET S |->
                          IF s = {} THEN 0
                          ELSE State(CHOOSE x \in s : TRUE).amount
                                   + it[s \ {CHOOSE x \in s : TRUE}]]
           chosen == CHOOSE it : it = Step(it)
<1>1. TotalOf(kind, refs) = chosen[S]
  BY DEF TotalOf, MapThenSumSet, MapThenFoldSet, OfKind
<1>2. IsFiniteSet(S) /\ \A x \in S : Worth[x] \in Nat
  BY FS_Subset DEF OfKind, Worth
<1>3. \A it : it = Step(it) <=> Summing(it, Worth, S)
  <2>1. \A s \in SUBSET S : s # {} => State(CHOOSE x \in s : TRUE).amount
                                          = Worth[CHOOSE x \in s : TRUE]
    BY DEF Worth, OfKind
  <2> QED BY <2>1 DEF Summing
<1>4. \E it : Summing(it, Worth, S)
  BY <1>2, UnitsSum
<1>5. Summing(chosen, Worth, S)
  <2>1. \E it : it = Step(it)
    <3> HIDE DEF Step
    <3>1. PICK it : Summing(it, Worth, S)
      BY <1>4
    <3>2. it = Step(it)
      BY <1>3, <3>1
    <3> QED BY <3>2
  <2>2. chosen = Step(chosen)
    <3> HIDE DEF Step
    <3> QED BY <2>1
  <2> QED BY <1>3, <2>2
<1> HIDE DEF chosen
<1> QED BY <1>1, <1>2, <1>5, SumIsCounted

\* References whose state can be added up.
Countable(refs) == /\ refs \subseteq Ref /\ IsFiniteSet(refs)
                   /\ \A r \in refs : State(r).amount \in Nat

LEMMA TotalAdds ==
    ASSUME NEW kind, NEW a, NEW b, Countable(a), Countable(b), a \cap b = {}
    PROVE  /\ Countable(a \cup b)
           /\ TotalOf(kind, a \cup b) = TotalOf(kind, a) + TotalOf(kind, b)
           /\ TotalOf(kind, a) \in Nat /\ TotalOf(kind, b) \in Nat
<1>1. Countable(a \cup b)
  BY FS_Union DEF Countable
<1> DEFINE A == OfKind(kind, a)
           B == OfKind(kind, b)
<1>2. /\ OfKind(kind, a \cup b) = A \cup B /\ A \cap B = {}
      /\ A \in SUBSET a /\ B \in SUBSET b
  BY DEF OfKind
<1>3. IsFiniteSet(A) /\ IsFiniteSet(B) /\ \A x \in A \cup B : Worth[x] \in Nat
  BY <1>2, FS_Subset DEF Countable, Worth
<1>4. /\ TotalOf(kind, a) = Cardinality(Units(Worth, A))
      /\ TotalOf(kind, b) = Cardinality(Units(Worth, B))
      /\ TotalOf(kind, a \cup b) = Cardinality(Units(Worth, A \cup B))
  BY <1>1, <1>2, TotalIsCounted DEF Countable
<1>5. /\ Cardinality(Units(Worth, A)) \in Nat /\ Cardinality(Units(Worth, B)) \in Nat
  BY <1>3, UnitsFinite, FS_CardinalityType
<1> HIDE DEF A, B
<1> QED BY <1>1, <1>2, <1>3, <1>4, <1>5, UnitsAdd

\* Some state is consumed, some is created.
LEMMA TotalAfter ==
    ASSUME NEW kind, NEW a, NEW in, NEW new, Countable(a), Countable(new),
           in \subseteq a, new \cap a = {}
    PROVE  /\ TotalOf(kind, (a \ in) \cup new)
                  = TotalOf(kind, a) - TotalOf(kind, in) + TotalOf(kind, new)
           /\ TotalOf(kind, in) <= TotalOf(kind, a)
           /\ TotalOf(kind, a) \in Nat /\ TotalOf(kind, in) \in Nat
           /\ TotalOf(kind, new) \in Nat
<1> DEFINE rest == a \ in
<1>1. Countable(rest) /\ Countable(in)
  <2>1. rest \in SUBSET a /\ in \in SUBSET a
    OBVIOUS
  <2> QED BY <2>1, FS_Subset DEF Countable
<1>2. rest \cap in = {} /\ rest \cap new = {} /\ rest \cup in = a
  OBVIOUS
<1> HIDE DEF rest
<1>3. /\ TotalOf(kind, rest \cup in) = TotalOf(kind, rest) + TotalOf(kind, in)
      /\ TotalOf(kind, rest \cup new) = TotalOf(kind, rest) + TotalOf(kind, new)
      /\ TotalOf(kind, rest) \in Nat /\ TotalOf(kind, in) \in Nat /\ TotalOf(kind, new) \in Nat
  BY <1>1, <1>2, TotalAdds
<1>4. TotalOf(kind, a) = TotalOf(kind, rest) + TotalOf(kind, in)
  BY <1>2, <1>3
<1> QED BY <1>3, <1>4 DEF rest

LEMMA TotalOfNone == \A kind : TotalOf(kind, {}) = 0
<1> SUFFICES ASSUME NEW kind PROVE TotalOf(kind, {}) = 0
  OBVIOUS
<1>1. OfKind(kind, {}) = {}
  BY DEF OfKind
<1> QED BY <1>1, TotalIsCounted, UnitsNone, FS_EmptySet

LEMMA Discloses ==
    /\ \A op \in Op : Countable(Outputs(op))
    /\ \A op \in Op : IsFiniteSet(Inputs(op)) /\ Operation[op].meta \in MetaAmounts
    /\ Operation[Genesis].type # "burn"
<1>1. \A op \in Op : Countable(Outputs(op))
  BY ConsignmentAssumption, SchemaAssumption DEF Countable, Amount
<1> QED BY <1>1, ConsignmentAssumption DEF TransitionType

LEMMA UnconsumedCounts ==
    ASSUME IInv, MapsComplete
    PROVE  Countable(Unconsumed)
<1> DEFINE D == DOMAIN graph
           f == [op \in D |-> Outputs(op)]
           T == {Outputs(op) : op \in D}
<1>1. D \subseteq Op /\ IsFiniteSet(D)
  BY DEF IInv, TypeOK, MapsComplete
<1>2. IsFiniteSet(T)
  <2>1. f \in Surjection(D, T)
    BY DEF Surjection
  <2> HIDE DEF f, T, D
  <2> QED BY <1>1, <2>1, FS_Surjection
<1>3. \A t \in T : Countable(t)
  BY <1>1, Discloses
<1> HIDE DEF T
<1>4. IsFiniteSet(UNION T) /\ Unconsumed \in SUBSET UNION T
  BY <1>2, <1>3, FS_UNION DEF Countable, Unconsumed, T
<1>5. IsFiniteSet(Unconsumed)
  BY <1>4, FS_Subset
<1> QED BY <1>3, <1>4, <1>5 DEF Countable

\* What a set of operations declares as burned.
BurnedBy(ops, kind) == MapThenSumSet(LAMBDA op : Operation[op].meta[kind],
                                     {op \in ops : Operation[op].type = "burn"})
Burns(ops) == {op \in ops : Operation[op].type = "burn"}
Declared(kind) == [op \in Op |-> Operation[op].meta[kind]]

LEMMA BurnedIsCounted ==
    ASSUME NEW kind \in {"asset", "inflation"}, NEW ops \in SUBSET Op, IsFiniteSet(ops)
    PROVE  BurnedBy(ops, kind) = Cardinality(Units(Declared(kind), Burns(ops)))
<1> DEFINE S == Burns(ops)
           Step(it) == [s \in SUBSET S |->
                          IF s = {} THEN 0
                          ELSE Operation[CHOOSE x \in s : TRUE].meta[kind]
                                   + it[s \ {CHOOSE x \in s : TRUE}]]
           chosen == CHOOSE it : it = Step(it)
<1>1. BurnedBy(ops, kind) = chosen[S]
  BY DEF BurnedBy, MapThenSumSet, MapThenFoldSet, Burns
<1>2. IsFiniteSet(S) /\ \A x \in S : Declared(kind)[x] \in Nat
  <2>1. \A op \in Op : Operation[op].meta[kind] \in Nat
    BY Discloses, SchemaAssumption DEF MetaAmounts, Amount
  <2> QED BY <2>1, FS_Subset DEF Burns, Declared
<1>3. \A it : it = Step(it) <=> Summing(it, Declared(kind), S)
  <2>1. \A s \in SUBSET S : s # {} => Operation[CHOOSE x \in s : TRUE].meta[kind]
                                          = Declared(kind)[CHOOSE x \in s : TRUE]
    BY DEF Declared, Burns
  <2> QED BY <2>1 DEF Summing
<1>4. \E it : Summing(it, Declared(kind), S)
  BY <1>2, UnitsSum
<1>5. Summing(chosen, Declared(kind), S)
  <2>1. \E it : it = Step(it)
    <3> HIDE DEF Step
    <3>1. PICK it : Summing(it, Declared(kind), S)
      BY <1>4
    <3>2. it = Step(it)
      BY <1>3, <3>1
    <3> QED BY <3>2
  <2>2. chosen = Step(chosen)
    <3> HIDE DEF Step
    <3> QED BY <2>1
  <2> QED BY <1>3, <2>2
<1> HIDE DEF chosen
<1> QED BY <1>1, <1>2, <1>5, SumIsCounted

LEMMA BurnedMore ==
    ASSUME NEW kind \in {"asset", "inflation"}, NEW ops \in SUBSET Op, IsFiniteSet(ops),
           NEW op \in Op, op \notin ops
    PROVE  /\ BurnedBy(ops \cup {op}, kind) =
                  BurnedBy(ops, kind)
                      + IF Operation[op].type = "burn" THEN Operation[op].meta[kind] ELSE 0
           /\ BurnedBy(ops, kind) \in Nat
           /\ Operation[op].meta[kind] \in Nat
<1> DEFINE W == Declared(kind)
           S == Burns(ops)
<1>1. \A x \in Op : W[x] \in Nat /\ W[x] = Operation[x].meta[kind]
  BY Discloses, SchemaAssumption DEF MetaAmounts, Amount, Declared
<1>2. IsFiniteSet(ops \cup {op}) /\ IsFiniteSet(S) /\ S \subseteq Op /\ op \notin S
      /\ IsFiniteSet({op})
  BY FS_AddElement, FS_Subset, FS_Singleton DEF Burns
<1>3. Burns(ops \cup {op}) = IF Operation[op].type = "burn" THEN S \cup {op} ELSE S
  BY DEF Burns
<1>4. /\ BurnedBy(ops, kind) = Cardinality(Units(W, S))
      /\ BurnedBy(ops \cup {op}, kind) = Cardinality(Units(W, Burns(ops \cup {op})))
  BY <1>2, BurnedIsCounted
<1> HIDE DEF W, S
<1>5. Cardinality(Units(W, S)) \in Nat
  BY <1>1, <1>2, UnitsFinite, FS_CardinalityType
<1>6. Cardinality(Units(W, S \cup {op})) = Cardinality(Units(W, S)) + W[op]
  <2>1. S \cap {op} = {} /\ \A x \in S \cup {op} : W[x] \in Nat
    BY <1>1, <1>2
  <2>2. Cardinality(Units(W, S \cup {op}))
            = Cardinality(Units(W, S)) + Cardinality(Units(W, {op}))
    BY <1>2, <2>1, UnitsAdd
  <2>3. Cardinality(Units(W, {op})) = W[op]
    BY <1>1, UnitsOfOne
  <2> QED BY <2>2, <2>3
<1> QED BY <1>1, <1>3, <1>4, <1>5, <1>6

LEMMA BurnedNone ==
    ASSUME NEW kind \in {"asset", "inflation"}, NEW ops \in SUBSET Op, IsFiniteSet(ops),
           Burns(ops) = {}
    PROVE  BurnedBy(ops, kind) = 0
BY BurnedIsCounted, UnitsNone

-------------------------------------------------------------------------------
(***************************************************************************)
(* Refinement: an applied transition is a step or a stutter of the promise.*)
(***************************************************************************)
LEMMA StartIssues ==
    ASSUME NEW m \in Mode, Start(m)
    PROVE  ContractSupply!Issue
<1> DEFINE units == TotalOf("asset", Outputs(Genesis))
           rights == TotalOf("inflation", Outputs(Genesis))
<1>1. units \in Amount /\ rights \in Amount
  BY GenesisAssumption DEF GenesisOK, Totals, Side, TotalsOf
<1>2. DOMAIN graph' = {Genesis} /\ consumed' = {} /\ graph' # <<>>
  BY DEF Start
<1>3. Unconsumed' = Outputs(Genesis)
  BY <1>2 DEF Unconsumed
<1>4. \A kind \in {"asset", "inflation"} : Burned(kind)' = 0
  <2> SUFFICES ASSUME NEW kind \in {"asset", "inflation"} PROVE Burned(kind)' = 0
    OBVIOUS
  <2>1. Burned(kind)' = BurnedBy({Genesis}, kind)
    BY <1>2 DEF Burned, BurnedBy, MapThenSumSet, MapThenFoldSet
  <2>2. Burns({Genesis}) = {} /\ Genesis \in Op /\ IsFiniteSet({Genesis})
    BY Assumed, Discloses, FS_Singleton DEF Burns
  <2> QED BY <2>1, <2>2, BurnedNone
<1> QED BY <1>1, <1>2, <1>3, <1>4 DEF ContractSupply!Issue

LEMMA AppliedSupply ==
    ASSUME IInv, MapsComplete, ApplyTransition,
           NEW kind \in {"asset", "inflation"}
    PROVE  /\ TotalOf(kind, Unconsumed)' = TotalOf(kind, Unconsumed)
                  - TotalOf(kind, Inputs(Current)) + TotalOf(kind, Outputs(Current))
           /\ TotalOf(kind, Inputs(Current)) <= TotalOf(kind, Unconsumed)
           /\ TotalOf(kind, Unconsumed) \in Nat
           /\ Burned(kind)' = Burned(kind) + IF Operation[Current].type = "burn"
                                             THEN Operation[Current].meta[kind] ELSE 0
           /\ Burned(kind) \in Nat
<1>1. pc = "transition" /\ unchecked = {}
  BY DEF ApplyTransition
<1>2. /\ Current \in Op \ {Genesis}
      /\ Inputs(Current) \subseteq DOMAIN states
      /\ Inputs(Current) \cap consumed = {}
      /\ \A r \in Inputs(Current) : r.op \in DOMAIN graph /\ r \in Outputs(r.op)
      /\ Current \notin DOMAIN graph
  BY <1>1, Applicable
<1>3. /\ DOMAIN graph' = DOMAIN graph \cup {Current}
      /\ consumed' = consumed \cup Inputs(Current)
  BY AppliedMaps
<1>4. DOMAIN graph \subseteq Op /\ IsFiniteSet(DOMAIN graph)
  BY DEF IInv, TypeOK, MapsComplete
<1>5. /\ Inputs(Current) \subseteq Unconsumed
      /\ Outputs(Current) \cap Unconsumed = {}
      /\ Unconsumed' = (Unconsumed \ Inputs(Current)) \cup Outputs(Current)
  <2>1. \A r \in consumed \cup Inputs(Current) : r.op \in DOMAIN graph
    BY <1>2 DEF IInv, Bookkeeping
  <2>2. \A r \in Outputs(Current) : r.op = Current
    BY OutputsMadeBy
  <2>3. \A r \in Unconsumed : r.op \in DOMAIN graph
    BY OutputsMadeBy DEF Unconsumed
  <2>4. Inputs(Current) \subseteq Unconsumed
    BY <1>2 DEF Unconsumed
  <2>5. Unconsumed' = ((UNION {Outputs(op) : op \in DOMAIN graph}) \cup Outputs(Current))
                          \ (consumed \cup Inputs(Current))
    BY <1>3 DEF Unconsumed
  <2> QED BY <1>2, <2>1, <2>2, <2>3, <2>4, <2>5 DEF Unconsumed
<1>6. Countable(Unconsumed) /\ Countable(Outputs(Current))
  BY <1>2, UnconsumedCounts, Discloses
<1>7. TotalOf(kind, Unconsumed)' = TotalOf(kind, Unconsumed')
  BY DEF TotalOf, MapThenSumSet, MapThenFoldSet
<1>8. /\ Burned(kind) = BurnedBy(DOMAIN graph, kind)
      /\ Burned(kind)' = BurnedBy(DOMAIN graph', kind)
  BY DEF Burned, BurnedBy, MapThenSumSet, MapThenFoldSet
<1>9. /\ TotalOf(kind, (Unconsumed \ Inputs(Current)) \cup Outputs(Current))
            = TotalOf(kind, Unconsumed) - TotalOf(kind, Inputs(Current))
                  + TotalOf(kind, Outputs(Current))
      /\ TotalOf(kind, Inputs(Current)) <= TotalOf(kind, Unconsumed)
      /\ TotalOf(kind, Unconsumed) \in Nat
  <2> DEFINE a == Unconsumed
             in == Inputs(Current)
             new == Outputs(Current)
  <2>1. Countable(a) /\ Countable(new) /\ in \subseteq a /\ new \cap a = {}
    BY <1>5, <1>6
  <2> HIDE DEF a, in, new
  <2>2. /\ TotalOf(kind, (a \ in) \cup new)
            = TotalOf(kind, a) - TotalOf(kind, in) + TotalOf(kind, new)
        /\ TotalOf(kind, in) <= TotalOf(kind, a)
        /\ TotalOf(kind, a) \in Nat
    BY <2>1, TotalAfter
  <2> QED BY <2>2 DEF a, in, new
<1>10. /\ BurnedBy(DOMAIN graph \cup {Current}, kind) =
              BurnedBy(DOMAIN graph, kind) + IF Operation[Current].type = "burn"
                                             THEN Operation[Current].meta[kind] ELSE 0
       /\ BurnedBy(DOMAIN graph, kind) \in Nat
  BY <1>2, <1>4, BurnedMore
<1>11. Burned(kind)' = BurnedBy(DOMAIN graph \cup {Current}, kind)
  BY <1>3, <1>8
<1>12. TotalOf(kind, Unconsumed)' =
           TotalOf(kind, (Unconsumed \ Inputs(Current)) \cup Outputs(Current))
  BY <1>5, <1>7
<1> QED BY <1>8, <1>9, <1>10, <1>11, <1>12

LEMMA ApplyTransitionSupplies ==
    ASSUME IInv, MapsComplete, ApplyTransition
    PROVE  [ContractSupply!Next]_(ContractSupply!promiseVars)
<1> DEFINE type == Operation[Current].type
           in   == TotalsOf(Inputs(Current))
           out  == TotalsOf(Outputs(Current))
           meta == Operation[Current].meta
           asset     == TotalOf("asset", Unconsumed)
           allowance == TotalOf("inflation", Unconsumed)
<1>1. /\ Current \in Op \ {Genesis} /\ TransitionValid(Current)
      /\ meta \in MetaAmounts
  <2>1. pc = "transition" /\ unchecked = {} /\ TransitionValid(Current)
    BY DEF ApplyTransition
  <2> QED BY <2>1, Applicable, Discloses
<1>2. /\ in \in Totals /\ out \in Totals
      /\ \/ /\ type = "transfer"
            /\ in.asset = out.asset
            /\ in.inflation = out.inflation
         \/ /\ type = "inflate"
            /\ in.asset = 0
            /\ in.inflation = out.inflation + out.asset
         \/ /\ type = "burn"
            /\ in.asset = out.asset + meta.asset
            /\ in.inflation = out.inflation + meta.inflation
  <2>1. ScriptOK(type, in, out, meta, Operation[Current].signed)
    BY <1>1 DEF TransitionValid
  <2> HIDE DEF type, in, out, meta
  <2> QED BY <1>1, <2>1, Effect
<1>3. /\ in.asset = TotalOf("asset", Inputs(Current))
      /\ in.inflation = TotalOf("inflation", Inputs(Current))
      /\ out.asset = TotalOf("asset", Outputs(Current))
      /\ out.inflation = TotalOf("inflation", Outputs(Current))
  BY DEF TotalsOf
<1>4. /\ asset' = asset - in.asset + out.asset
      /\ in.asset <= asset /\ asset \in Nat
      /\ Burned("asset")' = Burned("asset") + IF type = "burn" THEN meta.asset ELSE 0
      /\ Burned("asset") \in Nat
  BY <1>3, AppliedSupply
<1>5. /\ allowance' = allowance - in.inflation + out.inflation
      /\ in.inflation <= allowance /\ allowance \in Nat
      /\ Burned("inflation")' = Burned("inflation")
                                    + IF type = "burn" THEN meta.inflation ELSE 0
      /\ Burned("inflation") \in Nat
  BY <1>3, AppliedSupply
<1>6. UNCHANGED IF graph = <<>> THEN 0
                ELSE TotalOf("asset", Outputs(Genesis))
                         + TotalOf("inflation", Outputs(Genesis))
  <2>1. graph # <<>> /\ graph' # <<>>
    BY AppliedMaps DEF IInv, Bookkeeping, ApplyTransition
  <2> QED BY <2>1
<1>7. /\ in.asset \in Nat /\ in.inflation \in Nat /\ out.asset \in Nat /\ out.inflation \in Nat
      /\ meta.asset \in Nat /\ meta.inflation \in Nat
  BY <1>1, <1>2, TotalsAreNat, MetaAmountsAreNat
<1> HIDE DEF type, in, out, meta, asset, allowance
<1>8. CASE /\ type = "transfer"
           /\ in.asset = out.asset
           /\ in.inflation = out.inflation
  <2>1. /\ asset' = asset /\ allowance' = allowance
        /\ UNCHANGED <<Burned("asset"), Burned("inflation")>>
    BY <1>4, <1>5, <1>7, <1>8
  <2> QED BY <1>6, <2>1 DEF ContractSupply!promiseVars, asset, allowance
<1>9. CASE /\ type = "inflate"
           /\ in.asset = 0
           /\ in.inflation = out.inflation + out.asset
  <2>1. /\ out.asset \in 0 .. allowance
        /\ asset' = asset + out.asset /\ allowance' = allowance - out.asset
        /\ UNCHANGED <<Burned("asset"), Burned("inflation")>>
    BY <1>4, <1>5, <1>7, <1>9
  <2> QED BY <1>6, <2>1 DEF ContractSupply!Next, ContractSupply!Inflate, asset, allowance
<1>10. CASE /\ type = "burn"
            /\ in.asset = out.asset + meta.asset
            /\ in.inflation = out.inflation + meta.inflation
  <2>1. /\ meta.asset \in 0 .. asset /\ meta.inflation \in 0 .. allowance
        /\ asset' = asset - meta.asset
        /\ allowance' = allowance - meta.inflation
        /\ Burned("asset")' = Burned("asset") + meta.asset
        /\ Burned("inflation")' = Burned("inflation") + meta.inflation
    BY <1>4, <1>5, <1>7, <1>10
  <2> QED BY <1>6, <2>1 DEF ContractSupply!Next, ContractSupply!Burn, asset, allowance
<1> QED BY <1>2, <1>8, <1>9, <1>10

LEMMA StepKeepsSupply ==
    IInv /\ MapsComplete /\ [Next]_vars => [ContractSupply!Next]_(ContractSupply!promiseVars)
<1> SUFFICES ASSUME IInv, MapsComplete, [Next]_vars
             PROVE  [ContractSupply!Next]_(ContractSupply!promiseVars)
  OBVIOUS
<1>1. CASE Call
  BY <1>1, StartIssues DEF Call, ContractSupply!Next
<1>2. CASE ApplyTransition
  BY <1>2, ApplyTransitionSupplies
<1>3. CASE UNCHANGED <<graph, consumed>>
  <2>1. Unconsumed' = Unconsumed
    BY <1>3 DEF Unconsumed
  <2>2. \A kind : TotalOf(kind, Unconsumed)' = TotalOf(kind, Unconsumed)
    BY <2>1 DEF TotalOf, MapThenSumSet, MapThenFoldSet
  <2>3. \A kind : Burned(kind)' = Burned(kind)
    BY <1>3 DEF Burned, MapThenSumSet, MapThenFoldSet
  <2> QED BY <1>3, <2>2, <2>3 DEF ContractSupply!promiseVars
<1> QED BY <1>1, <1>2, <1>3 DEF Next, Validate, ResolveBundle, CheckInput, RefuseTransition,
           FinishBundles, ProjectState, Accept, ChainGrows, ChainReorganises, vars, working

\* The validator keeps the supply promise to the holders: for every contract,
\* consignment and word size, what validated operations leave unconsumed,
\* revealed or not, is what genesis created less what was declared burned
\* (validator.go:185-239, schemas/transition.go).
THEOREM ValidatorKeepsPromise == Spec => SupplySpec
<1>1. Init => ContractSupply!Init
  <2> SUFFICES ASSUME Init PROVE ContractSupply!Init
    OBVIOUS
  <2>1. graph = <<>> /\ DOMAIN graph = {} /\ Unconsumed = {}
    BY DEF Init, Unconsumed
  <2>2. \A kind \in {"asset", "inflation"} : Burned(kind) = 0
    <3>1. \A kind : Burned(kind) = BurnedBy({}, kind)
      BY <2>1 DEF Burned, BurnedBy, MapThenSumSet, MapThenFoldSet
    <3>2. Burns({}) = {} /\ IsFiniteSet({})
      BY FS_EmptySet DEF Burns
    <3> QED BY <3>1, <3>2, BurnedNone
  <2> QED BY <2>1, <2>2, TotalOfNone DEF ContractSupply!Init
<1>2. ReportInv => MapsComplete
  BY DEF ReportInv
<1> QED BY <1>1, <1>2, ReportAlways, StepKeepsSupply, PTL DEF Spec, SupplySpec, ContractSupply!Spec
===============================================================================
