------------------------------ MODULE Validator ------------------------------
(***************************************************************************)
(* Client-side validation of a consignment (consignment/validator.go,      *)
(* consignment/history_report.go), one call after another on the same      *)
(* container, while Bitcoin moves between any two resolver queries.        *)
(*                                                                         *)
(* A step of the model runs from one query to the next.  The five public   *)
(* entry points are five modes of the one loop.                            *)
(***************************************************************************)
EXTENDS Consignment, BitcoinFacts

CONSTANT Containers   \* the consignments that may be presented

ASSUME ContainersAssumption == Containers \subseteq Container

VARIABLES
    container,    \* the container under validation
    mode,         \* the entry point of the running call
    pc,           \* idle, bundle, transition, project or returned
    err,          \* the error of the last call, or "none"
    at, step,     \* position: witness bundle, and known transition in it
    evidence,     \* state of the current bundle's witness, as resolved
    unchecked,    \* inputs of the current transition still to be checked
    states,       \* revealed, unconsumed outputs: ref -> where it is, who made it
    consumed,     \* inputs consumed so far
    graph,        \* validated operations: opid -> bundle, parents
    prepared,     \* witnesses that are embedded and not on the chain
    complete,     \* every bundle disclosed all operations it commits to
    edges,        \* what the history report collector recorded
    historical,   \* operations whose spent outputs may be left out
    pending,      \* states still to be projected
    current,      \* report.CurrentStates
    verdict,      \* report.ConsensusValid, report.PreparedValid
    history,      \* the material of a HistoryReport
    consensusValid,  \* the flag of the container itself
    disturbed     \* (history variable) what Bitcoin did since the call began

resolution == <<at, step, evidence, unchecked>>
working    == <<states, consumed, graph, prepared, complete, edges>>
report     == <<historical, pending, current, verdict, history>>
vars == <<container, mode, pc, err, resolution, working, report,
          consensusValid, disturbed, chain>>

Mode == {"Validate", "ValidatePrepared", "ValidateHistory",
         "HistoryReport", "PreparedHistoryReport"}
AllowPrepared == mode \in {"ValidatePrepared", "PreparedHistoryReport"}
Collecting    == mode \in {"HistoryReport", "PreparedHistoryReport"}
HistoryOnly   == mode = "ValidateHistory" \/ Collecting

Bundles == container.bundles
Bundle  == Bundles[at]
Current == Bundle.known[step]        \* the transition being validated

NoReport == [consumers |-> {}, states |-> {}, prepared |-> {}]

TypeOK ==
    /\ ChainTypeOK
    /\ container \in Containers
    /\ mode \in Mode
    /\ pc \in {"idle", "bundle", "transition", "project", "returned"}
    /\ at \in Nat /\ step \in Nat
    /\ evidence \in {"none", "tentative", "mined", "prepared"}
    /\ unchecked \subseteq Ref
    /\ DOMAIN states \subseteq Ref
    /\ \A r \in DOMAIN states : states[r] \in [outpoint : Outpoint, witness : Tx \cup {NoTx}]
    /\ consumed \subseteq Ref
    /\ DOMAIN graph \subseteq Op
    /\ \A op \in DOMAIN graph :
           graph[op] \in [bundle : BundleId \cup {NoBundle}, parents : SUBSET Op]
    /\ prepared \subseteq Tx
    /\ complete \in BOOLEAN
    /\ historical \subseteq Op
    /\ pending \subseteq DOMAIN states
    /\ current \subseteq DOMAIN states
    /\ verdict \in [consensus : BOOLEAN, prepared : BOOLEAN]
    /\ consensusValid \in BOOLEAN
    /\ disturbed \in {"no", "grown", "reorganised"}

-------------------------------------------------------------------------------
Init ==
    /\ ChainInit
    /\ container \in Containers
    /\ mode = "Validate" /\ pc = "idle" /\ err = "none"
    /\ at = 0 /\ step = 0 /\ evidence = "none" /\ unchecked = {}
    /\ states = <<>> /\ consumed = {} /\ graph = <<>> /\ prepared = {}
    /\ complete = TRUE /\ edges = {}
    /\ historical = {} /\ pending = {} /\ current = {}
    /\ verdict = [consensus |-> FALSE, prepared |-> FALSE]
    /\ history = NoReport
    /\ consensusValid = FALSE
    /\ disturbed = "no"

\* registerOutputs: the revealed outputs of an operation become live states.
Registered(op, witness) ==
    [r \in RevealedOutputs(container, op) |->
        [outpoint |-> OutpointOf(r, witness), witness |-> witness]]

\* The working states after an operation consumed and created some.
Register(live, op, witness) ==
    LET new == Registered(op, witness)
    IN  [r \in DOMAIN live \cup DOMAIN new |->
            IF r \in DOMAIN new THEN new[r] ELSE live[r]]

Without(f, keys) == [x \in DOMAIN f \ keys |-> f[x]]

Fail(e) ==
    /\ pc' = "returned"
    /\ err' = e

\* A call begins: fresh maps holding genesis, which decoding has validated.
Start(m) ==
    /\ pc \in {"idle", "returned"}
    /\ mode' = m /\ pc' = "bundle" /\ err' = "none"
    /\ at' = 1 /\ step' = 0 /\ evidence' = "none" /\ unchecked' = {}
    /\ states' = Registered(Genesis, NoTx)
    /\ consumed' = {}
    /\ graph' = [op \in {Genesis} |-> [bundle |-> NoBundle, parents |-> {}]]
    /\ prepared' = {} /\ complete' = TRUE /\ edges' = {}
    /\ historical' = {} /\ pending' = {} /\ current' = {}
    /\ verdict' = [consensus |-> FALSE, prepared |-> FALSE]
    /\ history' = NoReport
    /\ disturbed' = "no"
    /\ UNCHANGED <<container, consensusValid, chain>>

-------------------------------------------------------------------------------
\* A witness the resolver does not know: still to be sent, if it is embedded.
Unsent(w) == IF AllowPrepared /\ w.embedded THEN "prepared" ELSE "unresolved"

\* Mutant of Resolve: the mempool does not count.
ResolveMined(w, answer) ==
    IF answer.failed \/ answer.state \in {"unknown", "tentative"} THEN Unsent(w)
    ELSE IF answer.raw = "own" THEN answer.state ELSE "unresolved"

\* Mutant of Resolve: an archived witness passes for a tentative one.
ResolveArchived(w, answer) ==
    IF answer.failed \/ answer.state = "unknown" THEN Unsent(w)
    ELSE IF answer.state = "archived" THEN "tentative"
    ELSE IF answer.raw = "own" THEN answer.state ELSE "unresolved"

(***************************************************************************)
(* bitcoin.go resolveWitnessWithMode: what the validator makes of the      *)
(* resolver's answer for a public witness.                                 *)
(***************************************************************************)
Resolve(w, answer) ==
    IF answer.failed                  THEN Unsent(w)
    ELSE IF answer.state = "archived" THEN "archived"
    ELSE IF answer.raw = "garbled"    THEN "unresolved"
    ELSE IF answer.raw = "other"      THEN "mismatch"
    ELSE IF answer.state = "unknown"  THEN Unsent(w)
    ELSE IF answer.raw = "none"       THEN "unresolved"
    ELSE answer.state

ResolutionError(w, resolved) ==
    IF ~BundleWellFormed(w)                   THEN "ErrInvalidBundle"
    ELSE IF resolved = "archived"             THEN "ErrWitnessArchived"
    ELSE IF resolved = "unresolved"           THEN "ErrWitnessUnresolved"
    ELSE IF resolved = "mismatch"             THEN "ErrWitnessMismatch"
    ELSE IF Transaction[w.tx].commits # w.id  THEN "ErrBundleAnchor"   \* verifyDBC
    ELSE "none"

\* The next witness bundle: its commitment, its witness and its anchor.
ResolveBundle ==
    /\ pc = "bundle"
    /\ at <= Len(Bundles)
    /\ \E answer \in WitnessAnswers(Bundle.tx) :
         LET resolved == Resolve(Bundle, answer)
             e        == ResolutionError(Bundle, resolved)
         IN  \/ /\ e # "none"
                /\ Fail(e)
                /\ UNCHANGED <<resolution, prepared>>
             \/ /\ e = "none"
                /\ pc' = "transition"
                /\ evidence' = resolved
                /\ step' = 1
                /\ unchecked' = Inputs(Bundle.known[1])
                /\ prepared' = prepared \cup {tx \in {Bundle.tx} : resolved = "prepared"}
                /\ UNCHANGED <<at, err>>
    /\ UNCHANGED <<container, mode, states, consumed, graph, complete, edges,
                   report, consensusValid, disturbed, chain>>

\* Mutant of PreparedInputError: spent by nobody in particular passes.
PreparedInputUnattributed(answer) ==
    IF ~answer.known \/ ~answer.exists                    THEN "ErrOutpointUnknown"
    ELSE IF answer.spent /\ answer.by \notin {{}, {Bundle.tx}} THEN "ErrOutpointSpend"
    ELSE "none"

\* verifyPreparedInputOutpoint
PreparedInputError(answer) ==
    IF ~answer.known \/ ~answer.exists                    THEN "ErrOutpointUnknown"
    ELSE IF answer.spent /\ Bundle.tx \notin answer.by    THEN "ErrOutpointSpend"
    ELSE "none"

\* Mutant of InputError: that the witness closes the seal is not checked.
InputUnclosed(r) ==
    IF ~InputMapCommits(Bundle.id, r, Current)             THEN "ErrInputMapMismatch"
    ELSE IF r \in consumed                                 THEN "ErrDuplicateStateSpend"
    ELSE IF r \notin DOMAIN states                         THEN "ErrInputUnresolved"
    ELSE "none"

\* Mutant of InputError: that the bundle commits the input is not checked.
InputUncommitted(r) ==
    IF r \in consumed                                      THEN "ErrDuplicateStateSpend"
    ELSE IF r \notin DOMAIN states                         THEN "ErrInputUnresolved"
    ELSE IF ~Spends(Bundle.tx, states[r].outpoint)         THEN "ErrSealNotClosed"
    ELSE "none"

InputError(r) ==
    IF ~InputMapCommits(Bundle.id, r, Current)             THEN "ErrInputMapMismatch"
    ELSE IF r \in consumed                                 THEN "ErrDuplicateStateSpend"
    ELSE IF r \notin DOMAIN states                         THEN "ErrInputUnresolved"
    ELSE IF ~Spends(Bundle.tx, states[r].outpoint)         THEN "ErrSealNotClosed"
    ELSE "none"

\* One input of the current transition: committed, unconsumed, known and
\* closed by the witness.  (The code takes the inputs in the order of their
\* encodings; any order is allowed here.)
CheckInput ==
    /\ pc = "transition"
    /\ \E r \in unchecked :
         \/ /\ InputError(r) # "none"
            /\ Fail(InputError(r))
            /\ UNCHANGED unchecked
         \/ /\ InputError(r) = "none"
            /\ evidence # "prepared" \/ Collecting
            /\ unchecked' = unchecked \ {r}
            /\ UNCHANGED <<pc, err>>
         \/ /\ InputError(r) = "none"
            /\ evidence = "prepared" /\ ~Collecting
            /\ \E answer \in OutpointAnswers(states[r].outpoint) :
                 \/ /\ PreparedInputError(answer) # "none"
                    /\ Fail(PreparedInputError(answer))
                    /\ UNCHANGED unchecked
                 \/ /\ PreparedInputError(answer) = "none"
                    /\ unchecked' = unchecked \ {r}
                    /\ UNCHANGED <<pc, err>>
    /\ UNCHANGED <<container, mode, at, step, evidence, working, report,
                   consensusValid, disturbed, chain>>

\* Mutant of Retired: the loop that retires the inputs is missing.
RetiredNone(op) == {}

\* What an applied transition marks as consumed and deletes from the states.
Retired(op) == Inputs(op)

\* historyReportCollector.recordConsumption
Consumption(r) == [input |-> r, consumer |-> Current, bundle |-> Bundle.id,
                   witness |-> Bundle.tx, state |-> evidence]

\* Every input passed: the schema decides (ErrSchema stands for each error of
\* ValidateTransition), then the transition is applied and
\* the loop moves to the next transition or the next bundle.
ApplyTransition ==
    /\ pc = "transition"
    /\ unchecked = {}
    /\ TransitionValid(Current)
    /\ edges' = edges \cup {Consumption(r) : r \in {i \in Inputs(Current) : Collecting}}
    /\ consumed' = consumed \cup Retired(Current)
    /\ states' = Register(Without(states, Retired(Current)), Current, Bundle.tx)
    /\ graph' = [op \in DOMAIN graph \cup {Current} |->
                    IF op = Current
                    THEN [bundle |-> Bundle.id, parents |-> {r.op : r \in Inputs(Current)}]
                    ELSE graph[op]]
    /\ \/ /\ step < Len(Bundle.known)
          /\ step' = step + 1
          /\ unchecked' = Inputs(Bundle.known[step + 1])
          /\ UNCHANGED <<pc, at, complete>>
       \/ /\ step = Len(Bundle.known)
          /\ pc' = "bundle"
          /\ at' = at + 1
          /\ complete' = (complete /\ {Bundle.known[k] : k \in DOMAIN Bundle.known}
                                          = InputOperations(Bundle.id))
          /\ UNCHANGED <<step, unchecked>>
    /\ UNCHANGED <<container, mode, err, evidence, prepared, report,
                   consensusValid, disturbed, chain>>

RefuseTransition ==
    /\ pc = "transition"
    /\ unchecked = {}
    /\ ~TransitionValid(Current)
    /\ Fail("ErrSchema")
    /\ UNCHANGED <<container, mode, resolution, working, report,
                   consensusValid, disturbed, chain>>

-------------------------------------------------------------------------------
(***************************************************************************)
(* historicalSideOpsWithReport.  A transfer protects its receiving bundles:*)
(* the terminals it names or, without any, the bundle of the only          *)
(* operation nothing descends from, if the whole graph is disclosed.       *)
(***************************************************************************)
BundleOps(id) == {op \in DOMAIN graph \ {Genesis} : graph[op].bundle = id}

Tips == DOMAIN graph \ UNION {graph[op].parents : op \in DOMAIN graph}

\* Mutant of Protected: the only tip is protected in a partial graph, too.
ProtectedPartial ==
    IF container.terminals # {} THEN container.terminals
    ELSE {graph[tip].bundle : tip \in {t \in Tips \ {Genesis} : Tips = {t}}}

Protected ==
    IF container.terminals # {} THEN container.terminals
    ELSE {graph[tip].bundle : tip \in
             {t \in Tips \ {Genesis} : complete /\ Tips = {t}}}

ParentsOf(ops) == UNION {graph[op].parents : op \in ops \cap DOMAIN graph}

ProtectedOps == UNION {BundleOps(id) : id \in Protected}

\* The worklist: the parents of the protected operations, then their parents.
Worklist[n \in Nat] ==
    IF n = 0 THEN ParentsOf(ProtectedOps)
    ELSE Worklist[n - 1] \cup ParentsOf(Worklist[n - 1])

Reached == Worklist[Cardinality(DOMAIN graph)]

\* Mutant of HistoricalError: the graph does not start with genesis.
HistoricalWithoutGenesis ==
    IF container.transfer /\ \E id \in container.terminals : BundleOps(id) = {}
    THEN "ErrInvalidBundle"
    ELSE IF container.transfer /\ ~(Reached \subseteq DOMAIN graph \ {Genesis})
    THEN "ErrInputUnresolved"
    ELSE "none"

HistoricalError ==
    IF container.transfer /\ \E id \in container.terminals : BundleOps(id) = {}
    THEN "ErrInvalidBundle"
    ELSE IF container.transfer /\ ~(Reached \subseteq DOMAIN graph)
    THEN "ErrInputUnresolved"
    ELSE "none"

\* Mutant of HistoricalOps: receiving bundles may be history as well.
HistoricalUnprotected == {op \in Reached : container.transfer}

HistoricalOps ==
    {op \in Reached : container.transfer /\ graph[op].bundle \notin Protected}

\* The operations whose allocations a history report describes.
SelectedOps == IF container.transfer THEN ProtectedOps \cup Reached ELSE DOMAIN graph

(***************************************************************************)
(* historyReportCollector.finish.                                          *)
(***************************************************************************)
SelectedStates == {r \in DOMAIN states : r.op \in SelectedOps}

OnPrepared(r) == states[r].outpoint.tx \in prepared
OutOfRange(r) == states[r].outpoint.vout >= Transaction[states[r].outpoint.tx].outs

\* Mutant of Material: the state that was consumed is forgotten.
MaterialResidual ==
    [consumers |-> edges,
     states    |-> {r \in SelectedStates : complete},
     prepared  |-> {r \in SelectedStates : OnPrepared(r)}]

Material ==
    [consumers |-> edges,
     states    |-> {r \in {e.input : e \in {x \in edges : x.consumer \in SelectedOps}}
                          \cup SelectedStates : complete},
     prepared  |-> {r \in SelectedStates : OnPrepared(r)}]

FinishError ==
    IF HistoricalError # "none" THEN HistoricalError
    ELSE IF Collecting /\ \E r \in SelectedStates : OnPrepared(r) /\ OutOfRange(r)
    THEN "ErrOutpointUnknown"
    ELSE "none"

\* The bundles are done: a history call returns, the others project.
FinishBundles ==
    /\ pc = "bundle"
    /\ at > Len(Bundles)
    /\ \/ /\ FinishError # "none"
          /\ Fail(FinishError)
          /\ UNCHANGED report
       \/ /\ FinishError = "none" /\ HistoryOnly
          /\ pc' = "returned"
          /\ history' = IF Collecting THEN Material ELSE NoReport
          /\ UNCHANGED <<err, historical, pending, current, verdict>>
       \/ /\ FinishError = "none" /\ ~HistoryOnly
          /\ pc' = "project"
          /\ historical' = HistoricalOps
          /\ pending' = DOMAIN states
          /\ UNCHANGED <<err, current, verdict, history>>
    /\ UNCHANGED <<container, mode, resolution, working, consensusValid,
                   disturbed, chain>>

-------------------------------------------------------------------------------
\* A contract without bundles keeps its genesis after issuance was spent.
GenesisOnly == ~container.transfer /\ Bundles = <<>> /\ container.terminals = {}

MayOmit(r) == r.op \in historical \/ (GenesisOnly /\ r.op = Genesis)

\* Mutant of ProjectionError: no answer is taken for a good answer.
ProjectionUnanswered(r, answer) ==
    IF answer.spent /\ ~MayOmit(r) THEN "ErrOutpointSpend" ELSE "none"

\* Mutant of ProjectionError: spent state is left out, whatever it is.
ProjectionSkipsSpent(r, answer) ==
    IF ~answer.known \/ ~answer.exists THEN "ErrOutpointUnknown" ELSE "none"

\* verifyProjectedOutpoint
ProjectionError(r, answer) ==
    IF ~answer.known \/ ~answer.exists      THEN "ErrOutpointUnknown"
    ELSE IF answer.spent /\ ~MayOmit(r)     THEN "ErrOutpointSpend"
    ELSE "none"

\* One residual state is projected.  Go ranges over a map: any order.
ProjectState ==
    /\ pc = "project"
    /\ \E r \in pending :
         \/ /\ OnPrepared(r)
            /\ IF OutOfRange(r)
               THEN Fail("ErrOutpointUnknown") /\ UNCHANGED <<pending, current>>
               ELSE /\ pending' = pending \ {r}
                    /\ current' = current \cup {r}
                    /\ UNCHANGED <<pc, err>>
         \/ /\ ~OnPrepared(r)
            /\ \E answer \in OutpointAnswers(states[r].outpoint) :
                 IF ProjectionError(r, answer) # "none"
                 THEN Fail(ProjectionError(r, answer)) /\ UNCHANGED <<pending, current>>
                 ELSE /\ pending' = pending \ {r}
                      /\ current' = current \cup {x \in {r} : ~answer.spent}
                      /\ UNCHANGED <<pc, err>>
    /\ UNCHANGED <<container, mode, resolution, working, historical, verdict,
                   history, consensusValid, disturbed, chain>>

\* Mutant of Verdict: prepared material counts as consensus-valid too.
VerdictAlways == [consensus |-> TRUE, prepared |-> prepared # {}]

Verdict == [consensus |-> prepared = {}, prepared |-> prepared # {}]

\* Everything is projected: the verdict, and the container's own flag, which
\* is only ever set.
Accept ==
    /\ pc = "project"
    /\ pending = {}
    /\ pc' = "returned"
    /\ verdict' = Verdict
    /\ consensusValid' = (consensusValid \/ Verdict.consensus)
    /\ UNCHANGED <<container, mode, err, resolution, working, historical,
                   pending, current, history, disturbed, chain>>

-------------------------------------------------------------------------------
\* Bitcoin moves; disturbed remembers it until the next call begins.
Running == pc \notin {"idle", "returned"}

ChainGrows ==
    /\ Grow
    /\ disturbed' = IF pc # "idle" /\ disturbed = "no" THEN "grown" ELSE disturbed
    /\ UNCHANGED <<container, mode, pc, err, resolution, working, report, consensusValid>>

ChainReorganises ==
    /\ Reorganise
    /\ disturbed' = IF pc # "idle" THEN "reorganised" ELSE disturbed
    /\ UNCHANGED <<container, mode, pc, err, resolution, working, report, consensusValid>>

Validate == \/ ResolveBundle \/ CheckInput \/ ApplyTransition \/ RefuseTransition
            \/ FinishBundles \/ ProjectState \/ Accept

Call == \E m \in Mode : Start(m)

Next == Call \/ Validate \/ ChainGrows \/ ChainReorganises

Spec == Init /\ [][Next]_vars

\* A call runs to its end on its own goroutine: validation steps are not
\* postponed for ever.  Nothing forces a call or a chain event to happen.
FairSpec == Spec /\ WF_vars(Validate)

-------------------------------------------------------------------------------
(***************************************************************************)
(* Safety.                                                                 *)
(***************************************************************************)
Returned == pc = "returned"
Accepted == Returned /\ err = "none"
Projected == Accepted /\ ~HistoryOnly

(***************************************************************************)
(* At no time do two validated operations consume the same state, whatever *)
(* the consignment lists, repeats or reorders (validator.go:202,           *)
(* ErrDuplicateStateSpend).                                                *)
(***************************************************************************)
NoDoubleSpend ==
    \A o1, o2 \in DOMAIN graph : o1 # o2 => Inputs(o1) \cap Inputs(o2) = {}

(***************************************************************************)
(* The maps of the loop agree with one another: what was consumed is what  *)
(* the validated operations consume, what is live was created by one of    *)
(* them and not consumed, the inputs that were checked are still live when *)
(* their transition is applied, and nothing is projected before every      *)
(* bundle is done (validator.go:120-127, 198-239).                         *)
(***************************************************************************)
Bookkeeping ==
    /\ pc # "idle" => Genesis \in DOMAIN graph
    /\ consumed = UNION {Inputs(op) : op \in DOMAIN graph}
    /\ \A r \in consumed : r.op \in DOMAIN graph
    /\ \A r \in DOMAIN states :
           r \notin consumed /\ r.op \in DOMAIN graph /\ r \in Outputs(r.op)
    /\ pc \in {"bundle", "transition"} => at # 0 /\ pending = {} /\ current = {}
    /\ pc = "transition" =>
           /\ at \in DOMAIN Bundles
           /\ step \in DOMAIN Bundle.known
           /\ unchecked \subseteq Inputs(Current)
           /\ Inputs(Current) \ unchecked \subseteq DOMAIN states

(***************************************************************************)
(* Every input of a validated operation was created by a validated         *)
(* operation, and the witness of a bundle that commits it to this          *)
(* operation spends the output where its seal is (validator.go:198-211).   *)
(***************************************************************************)
SealsClosed ==
    \A op \in DOMAIN graph \ {Genesis} :
        \E p \in Positions(container) :
            /\ At(container, p) = op
            /\ container.bundles[p[1]].id = graph[op].bundle
            /\ Transaction[WitnessAt(container, p)].commits = graph[op].bundle
            /\ \A r \in Inputs(op) : /\ r.op \in DOMAIN graph
                                     /\ InputMapCommits(graph[op].bundle, r, op)
                                     /\ MadeAndClosed(container, r, p)

(***************************************************************************)
(* A call that returns without an error, of any mode and whatever Bitcoin  *)
(* did meanwhile, was given a good history.                                *)
(***************************************************************************)
AcceptedIsGood == Accepted => HistoryGood(container)

(***************************************************************************)
(* The strict ancestors of a set of operations of the container, as the    *)
(* smallest set closed under makers of inputs rather than as a worklist.   *)
(***************************************************************************)
AncestorsOf(ops) ==
    {a \in OpsOf(container) :
        \A s \in SUBSET OpsOf(container) :
            Makers(ops) \cup Makers(s) \subseteq s => a \in s}

(***************************************************************************)
(* State that is history: made by a strict ancestor of what the container  *)
(* delivers, and not delivered, or by the genesis of a bare contract       *)
(* (validator.go:751-753).                                                 *)
(***************************************************************************)
IsHistory(r) == \/ GenesisOnly /\ r.op = Genesis
                \/ r.op \in AncestorsOf(Receiving(container)) \ Receiving(container)

(***************************************************************************)
(* Nothing good is refused: with a reliable resolver, an undisturbed chain *)
(* that holds every witness, and terminals the consignment contains, a     *)
(* good history passes the history calls, and the projecting calls refuse  *)
(* it only for a residual state whose output is gone, or is spent and not  *)
(* history.                                                                *)
(***************************************************************************)
GoodIsAccepted ==
    /\ Returned /\ disturbed = "no" /\ Faults = {}
    /\ HistoryGood(container)
    /\ \A i \in DOMAIN Bundles : Live(Bundles[i].tx)
    /\ container.terminals \subseteq {Bundles[i].id : i \in DOMAIN Bundles}
    => \/ err = "none"
       \/ /\ ~HistoryOnly
          /\ \E r \in DOMAIN states :
                 \/ err = "ErrOutpointUnknown" /\ ~Exists(states[r].outpoint)
                 \/ err = "ErrOutpointSpend" /\ Spenders(states[r].outpoint) # {}
                                            /\ ~IsHistory(r)

(***************************************************************************)
(* A projection leaves out a spent output only if it is history.           *)
(***************************************************************************)
OnlyHistoryOmitted == Projected => \A r \in DOMAIN states \ current : IsHistory(r)

(***************************************************************************)
(* Receiving outputs stay fail-closed: an accepted projection contains     *)
(* every revealed unconsumed output of what the container delivers.        *)
(***************************************************************************)
ReceivingKept ==
    Projected =>
        \A op \in Receiving(container) :
            RevealedOutputs(container, op) \ consumed \subseteq current

(***************************************************************************)
(* If no transaction left the chain during the call, the witnesses that    *)
(* made the container consensus-valid are on the chain together: all live, *)
(* no two of them spending the same output.                                *)
(***************************************************************************)
WitnessesAgree ==
    Projected /\ verdict.consensus /\ disturbed # "reorganised" =>
        \A i, j \in DOMAIN Bundles :
            /\ Live(Bundles[i].tx)
            /\ Bundles[i].tx # Bundles[j].tx =>
                   Transaction[Bundles[i].tx].spends
                       \cap Transaction[Bundles[j].tx].spends = {}

(***************************************************************************)
(* If Bitcoin did not move during the call, what is projected is unspent   *)
(* now, on the chain or in an embedded witness that is still to be sent.   *)
(***************************************************************************)
ProjectionIsCurrent ==
    Projected /\ disturbed = "no" =>
        \A r \in current : \/ OnPrepared(r) /\ ~OutOfRange(r)
                          \/ /\ Exists(states[r].outpoint)
                             /\ Spenders(states[r].outpoint) = {}

(***************************************************************************)
(* A prepared verdict means that the embedded witnesses can still be sent: *)
(* no output that one of them spends as a seal was spent by another        *)
(* transaction, if Bitcoin did not move during the call (validator.go:93). *)
(***************************************************************************)
PreparedStillPossible ==
    Projected /\ verdict.prepared /\ disturbed = "no" =>
        \A p \in Positions(container) :
            WitnessAt(container, p) \in prepared =>
                \A r \in Inputs(At(container, p)) :
                    \E o \in Transaction[WitnessAt(container, p)].spends :
                        /\ \E w \in Tx \cup {NoTx} : o = OutpointOf(r, w)
                        /\ Spenders(o) \subseteq {WitnessAt(container, p)}

(***************************************************************************)
(* Only a projecting call whose witnesses are all on the chain marks the   *)
(* container (validator.go:84-87, ValidateHistory "does not mark the       *)
(* container ConsensusValid").                                             *)
(***************************************************************************)
OnlyChainEvidenceMarks ==
    [][consensusValid' # consensusValid =>
           /\ ~HistoryOnly
           /\ HistoryGood(container)
           /\ prepared = {} /\ verdict'.consensus]_vars

(***************************************************************************)
(* The material of a report explains itself: with a complete disclosure,   *)
(* every input of every reported operation is a reported state, and every  *)
(* reported state was made by a reported operation.                        *)
(***************************************************************************)
MaterialClosed ==
    Accepted /\ Collecting /\ complete =>
        LET ops == {r.op : r \in history.states}
        IN  /\ \A op \in SelectedOps : Inputs(op) \subseteq history.states
            /\ ops \subseteq SelectedOps
            /\ \A e \in history.consumers : e.input \in Inputs(e.consumer)

(***************************************************************************)
(* Refinement.  The loop implements the single-use ledger, and implements  *)
(* the supply promise on the unconsumed outputs of validated               *)
(* operations, revealed or not.                                            *)
(***************************************************************************)
Ledger == INSTANCE ContractLedger WITH
              applied <- DOMAIN graph, used <- consumed, owned <- current
LedgerSpec == Ledger!Spec

Unconsumed == (UNION {Outputs(op) : op \in DOMAIN graph}) \ consumed
Burned(kind) == MapThenSumSet(LAMBDA op : Operation[op].meta[kind],
                              {op \in DOMAIN graph : Operation[op].type = "burn"})

ContractSupply == INSTANCE SupplyPromise WITH
    asset     <- TotalOf("asset", Unconsumed),
    allowance <- TotalOf("inflation", Unconsumed),
    burned    <- Burned("asset"),
    forgone   <- Burned("inflation"),
    maximum   <- IF graph = <<>> THEN 0
                 ELSE TotalOf("asset", Outputs(Genesis))
                          + TotalOf("inflation", Outputs(Genesis))
SupplySpec == ContractSupply!Spec

(***************************************************************************)
(* ValidatePrepared is documented never to accept a txid-only witness      *)
(* (validator.go:94).                                                      *)
(***************************************************************************)
PreparedRefusesTxid ==
    Accepted /\ mode = "ValidatePrepared" =>
        \A i \in DOMAIN Bundles : Bundles[i].embedded

(***************************************************************************)
(* A history call on a good history that is buried in the chain comes back *)
(* with success, however long Bitcoin keeps moving around it.              *)
(***************************************************************************)
BuriedIsAccepted ==
    /\ Running /\ HistoryOnly /\ HistoryGood(container)
    /\ \A i \in DOMAIN Bundles : Bundles[i].tx \in Buried
    /\ container.terminals \subseteq {Bundles[i].id : i \in DOMAIN Bundles}
    ~> Accepted
===============================================================================
