# TLA+ models of rgb11

This directory holds TLA+ models of `github.com/sat20-labs/rgb11`, the Go implementation of RGB 0.11.1, the TLC
configurations that check them on small instances, and proofs that TLAPS checks for every instance.

RGB keeps the state of a contract (who owns how many units) off the chain. State is assigned to Bitcoin outputs, called
seals. An operation consumes some state and creates other state; the Bitcoin transaction that spends the seals of what is
consumed, the *witness*, commits to a bundle of operations. A receiver is given a *consignment*: the operations back to
genesis, each with the witness it is anchored to. Everything the library promises rests on the receiver's own validation of
that consignment against Bitcoin. That validation is the core of this project.

## 1. Inventory

| Component | State it keeps | Operations | Models |
| --- | --- | --- | --- |
| consignment validation (`consignment/validator.go`, `bitcoin.go`) | per call: live states, consumed inputs, operation graph, prepared witnesses, position in the bundles; per container: `ConsensusValid` | `Validate`, `ValidateHistory`, `ValidatePrepared` | `Validator`, `Consignment`, `Transactions`, `BitcoinFacts` |
| history report (`consignment/history_report.go`) | recorded consumptions, selected operations | `ValidateHistoryReport`, `ValidatePreparedHistoryReport` | `Validator` |
| schema rules (`schemas/validate.go`, `transition.go`, `outputs.go`) | none | `ValidateGenesis`, `ValidateTransition`, `RevealedOutputs` | `Schemas`, `Supply` |
| commitments (`operations/`) | none | `CommitGenesis`, `CommitTransition`, `CommitBundle`, `EncodeDisclose` | rules in `Consignment`, ids in `TransitionBuilder` |
| anchors (`anchors/`) | none | `NewMPCProof`, `ConvolveMPC`, opret and tapret | `Anchors`; in `Consignment` one committed bundle per transaction |
| seals (`seals/`) | none | conceal, encode | outpoints in `Consignment`, numbers with a concealed form in `Seals` |
| wallet receive engine (`wallet/`) | receive requests in a store | `CreateReceive`, `LoadReceive`, `MarkRelay…` | `WalletReceive` |
| transactional store (`storage/`) | a map under a lock, buffered writes per transaction | `Get`, `Begin`, `Put`, `Delete`, `Commit`, `Rollback` | `MemoryStore`, `AtomicStore`; one-key transactions in `WalletReceive` |
| merge, build, reveal (`consignment/merge.go`, `builder.go`, `reveal.go`) | the container | `MergeHistories`, `BuildTransfer`, `RevealGraphSeals` | `Histories` |
| operation DAG, reject list (`consignment/dag.go`, `rejectlist/`) | the parsed list | `OperationDAG`, `Parse`, `RejectedAncestor`, `Fetch` | `RejectList` (without `Fetch`) |
| relay records (`relay/`) | records published elsewhere | sign, verify, read, renew, acknowledge | `RelayRecords`, `Delivery` |
| wallet head (`sync/`) | records published elsewhere | `Validate`, `ValidateSuccessor`, `SelectLatest` | `WalletHeads`, `Devices` |
| issuance (`issuance/`) | none | `Issue` | `Issuance`, `ContractLife` |
| transition and bundle builder (`operations/builder.go`) | none | `BuildTransition`, `BuildBundle`, `BuildOpretWitnessBundle…` | `TransitionBuilder`, `ContractLife` |
| invoices, PSBT keys, text formats, strict encoding and types, container files, command-line tools | none | parsing and formatting | not modelled: serialisation without state |

**Interactions.** The validator decodes nothing itself: it is given a container whose structure and genesis are already
checked. It calls `operations` for ids, `anchors` for the commitment of a bundle, `schemas` for each transition, and the
`BitcoinResolver` of the host for every Bitcoin fact: once per witness, once per input of a prepared witness, once per
residual state. The history report is a collector that the same loop fills. The wallet engine shares only the store with
its concurrent callers. Relay records, acknowledgements and wallet heads travel through a record service outside the
repository (DKVS), which may answer late, with an old version, or not at all. `Issue` reads back the text it has encoded
and so runs the validator's genesis rules on its own result; what `BuildTransition` returns is judged by the same rules in
another wallet. The repository has no host program: who calls the engine, the records, the store and the builder, and in
which order, is modelled from what these packages ask of their callers, and marked external in `PROJECT.json`.

**What is hard.** (a) A validation makes many queries and Bitcoin moves between any two of them; a query may fail or answer
in part. (b) A consignment may list any bundles in any order, repeat them, disclose parts, and reveal any seals; three maps
of the loop must agree whatever it does. (c) Which spent outputs may be left out of a projection depends on the shape of the
disclosed graph. (d) Amounts are 64-bit words that wrap. (e) Receive requests are loaded, checked and committed in separate
steps by concurrent callers, and the host may stop anywhere. (f) Containers are merged, extended and enriched, again and
again, from a copy that carries the validator's mark. (g) The policy search walks a graph from which concealed outputs are
missing, and shields paths as it goes. (h) A relay record is renewed while its recipient fetches, decides, stops and
answers; each answer binds the hash of the version it saw. (i) Devices build on the same head, publish both, and a third
one is served any of them in any order. (j) A store commits key by key under a lock that readers share. (k) An operation
built again after a crash must have the same id, although nothing keeps the order of what was collected. The hazards are listed one by one, each at its line, in
`PROJECT.json`.

**What makes each component correct.**

- *Validation*: no state is consumed twice; every consumed state was made by a validated operation, and closed by the
  witness of the bundle that commits to the consumer; nothing bad is accepted, nothing good refused; a projection omits
  only spent history and keeps what is received; verdicts mean what they say about Bitcoin.
- *Schema rules*: units appear only where inflation rights disappear, and disappear only when declared burned.
- *Receive engine*: an invoice that was shown can be recovered; a decision is final.
- *Merge, build, reveal*: a merge is the union of its parts; merging good histories gives a good history, in ancestry order;
  a container that is marked valid holds a good history.
- *Reject list*: what is named is a rejected, unshielded ancestor, and no such ancestor is missed.
- *Relay*: verified answers of a recipient never contradict each other or the decision on its record; nothing is broadcast
  that a recipient has not acknowledged; no order of expiry, renewal, crash and answer is a dead end.
- *Head*: a selected head is the latest of those seen; a conflict is reported only where there is one.
- *Store*: a transaction takes effect as a whole, once, and reads see whole transactions.
- *Issuance*: what the issuer's checks let through is what the validator's checks accept.
- *Builder*: what is built from amounts that add up is accepted; ids depend neither on order nor on what is revealed,
  disclosure hashes only on what is revealed.
- *Anchors*: a witness opens for one message of a protocol at most.

## 2. Modules

- `Schemas` — the amount rules as operators on totals per assignment type. `MaxAmount` is the largest machine word; a sum
  that the code does not guard wraps (`Plus`). `Occurrences` is the tables of how often each assignment type may be listed, as the
  schemas in `issuance/templates` carry them; there is none of the permissioned schema in the repository, which is taken
  to be like the other schemas of one type. The owner right 4013 of the inflatable schema is left out (the transition
  type that would use it is refused), and so is the unique-asset schema.
- `Supply` — arbitrary sequences of operations that the rules accept, on totals. `SupplyPromise` is what holders are
  promised, without operations or words: genesis, inflation, burning. `Supply` implements it.
- `Transactions` — what a txid fixes: inputs, outputs, the bundle committed to. A transaction spends no output of itself.
- `BitcoinFacts` — the chain as seen through a resolver (external: the repository has only the interface).
  `Faults` selects the bad answers a resolver may give: a failed or unknown query (`error`), a known witness without its
  raw transaction (`noRaw`), or with bytes that do not parse or are another transaction (`badRaw`), a spent output without
  the spender (`noSpender`).
- `Consignment` — the data: operations, bundles, seals, containers. Hashes are abstracted to injectivity, which is what
  the code relies on, and what an id does *not* fix is left to the container: which bundles it lists in which order, which
  transitions of a bundle it discloses, which seals it reveals, whether a witness is embedded. `HistoryGood` says what a
  good history is, and `Receiving` what a transfer delivers, without the validation loop. `GenesisAssumption` is the check that decoding makes. `ConsignmentAssumption`
  holds what decoding and the ids guarantee: an operation has counted inputs and outputs (lists of at most 2^16 items),
  amounts and declared amounts are machine words, every operation but genesis consumes something, genesis is not of a
  transition type, and its seals cannot point at a witness. Of Bitcoin, `BitcoinAssumption` asks that what is buried does not
  conflict: it is part of one chain.
- `Validator` — the loop of `validateWithHistoryReport` with its five entry points as modes, one call after another on the
  same container. A step runs from one resolver query to the next:

  | Action | Code |
  | --- | --- |
  | `Start` | fresh maps, genesis outputs registered (104–131) |
  | `ResolveBundle` | bundle commitment, witness query, anchor (137–188) |
  | `CheckInput` | one input: committed, unconsumed, known, closed, and the query for a prepared witness (198–217) |
  | `ApplyTransition`, `RefuseTransition` | the schema's decision, then every map update up to the next transition or bundle (218–256) |
  | `FinishBundles` | historical side operations, end of the history calls (259–270) |
  | `ProjectState` | one residual state: prepared, or asked about (278–307) |
  | `Accept` | the verdict and the container's flag (308–314) |
  | `ChainGrows`, `ChainReorganises` | Bitcoin, between any two steps |

  `disturbed` is a history variable: what Bitcoin did since the call began. Errors are kept as the code's error values,
  except that all errors of `ValidateTransition` are one. The inputs of a transition and the residual states are taken in
  any order: the code's order of inputs is that of their encodings, and of residual states that of a Go map.
- `ContractLedger` — the abstract single-use ledger that `Validator` implements, with
  `applied <- DOMAIN graph, used <- consumed, owned <- current`.
- `WalletReceive` — receive requests, their concurrent callers, and the store: an operation that changes a request is two
  steps, everything up to `putReceive`, and the commit. `Restart(C)` stops the host of some callers and drops what they had
  not committed. A record keeps its status, the object it names and the size of its script; the size of the rest of it
  depends on the first two (`Overhead`), since a decision writes a status, a transfer, a witness or a failure into it.
- `Histories` — the containers a wallet keeps in its slots: the validator's `Mark` (possible only on a good history, which is
  what `AcceptedIsGood` checks of `Validator`), `RevealGraphSeals` in place, `BuildTransfer` and `MergeHistories` into a slot.
  A merge is a loop: `StartMerge` (copy, duplicates, static fields), `MergeBundle` once per bundle of the candidate
  (refused, shared and enriched, or appended), `FinishMerge`. Merging more than two containers is merging two, and the result
  with the next. What is disclosed is kept per operation, so a container that lists an operation in two bundles discloses
  the same in both; the code keeps it per listing. `MaxBundles` is the length a list can have (2^32 - 1 in the code).
- `RejectList` — `ParseLine` per line, then `Check` of one allocation after another, `Visit` per turn of the search. `Lineage`
  is the policy's reference: the least set that contains the allocation and the inputs of whatever in it is not shielded,
  by the operations themselves and not by the disclosed graph.
- `AtomicStore` — what `storage/store.go` promises: writes of a transaction take effect together. `MemoryStore` — the
  transactions of `storage/memory.go`: `Commit` is `Lock`, one `Apply` per key in any order, `Unlock`; `Get` needs the lock
  free. `KeepsContract` maps one to the other: a commit takes effect when it gets the lock (`Settled`), since nobody can look
  before it is done. Each transaction is used by one goroutine: its buffer has no lock of its own.
- `WalletHeads` — the operators of `sync/head.go` on heads whose sequence number is a word that wraps (`MaxSeq`), with version,
  wallet id and operation id as one flag (`wellFormed`): validation, succession, and one step of `SelectLatest`. `Devices` — sessions that read the head in the store and write its successor,
  snapshots and deletions included, without holding anything in between (so that they fork); `Publish`; and a restoring
  device: `StartSelection`, `Consider` one candidate after another, in any order and repeated, `Selected` or a refusal.
- `RelayRecords` — the records of `relay/records.go`: fields, signatures, hashes, payloads, renewal and immutability.
  A signature is the set of what was signed by whom; the hash of a record covers its signature, as in the code.
  `Delivery` — the batch of a sender to several recipients, over `WalletReceive` (whose actions it takes as they are: `Invite`
  is `Create`, `Decide` is `Mark`, `Conclude` is `Commit`, `Crash` includes `Restart`): `Post`, `Renew`, `Fetch`, `Reply`,
  `Take`, `Send`, and the clock. A crash loses the verified record and the uncommitted call.
- `Seals`, `Issuance`, `TransitionBuilder`, `Anchors` — the pure parts of making a contract and an operation. In `Issuance`
  the two sums of a specification fit in a word each, their sum may wrap. `TransitionBuilder` has the canonical lists
  (inputs by `CompareOpout`, outputs by their encodings), what the builder refuses, and the ids as what is hashed:
  `CommitTransition` conceals every revealed seal, `EncodeDisclose` adds what is revealed. `Anchors` computes in words of `Word`
  values, where the width less the cofactor may wrap; hashes are tuples. `TreeCommitment` and `PathTo` are other software's
  trees, which the repository only reads. `sort.Slice` is *an* order of the list in which nothing comes after what it is
  before (`Sorted`): the code promises no more of equal elements, and refuses them.
- `ContractLife` — these four composed with `Supply`: a wallet encodes a genesis and reads it back (`EncodeContract`,
  `DecodeContract`), builds an operation on what it holds from any request whose amounts add up (`Build`), builds it
  again in another order (`Rebuild`), reveals a seal in place (`Reveal`), and anchors it in its own or another's tree
  (`AnchorOwn`, `AnchorTogether`), which a validator opens (`Open`). `Others` are all other wallets, within the rules. The
  wallet does one of these at a time and is not interleaved with `Others` while it does: they share no state.
- `MCValidator` and `MCConsignment`, `MCSupply`, `MCHistories`, `MCRejectList`, `MCWalletReceive`, `MCDelivery`, `MCDevices` — instances for TLC.
- `Schemas_proofs` (lemmas on amounts and sums, which the others use), `ContractLife_proofs` (supply, issuing, building,
  anchoring), `Validator_proofs` (the loop and what it accepts), `Reports_proofs` (what it reports), `Histories_proofs`,
  `RejectList_proofs`, `Delivery_proofs` (the receive engine and the relay), `Devices_proofs` (store and heads) — theorems.

The definitions whose comment starts with "Mutant of" are not part of the models: they are plausible bugs, and each checked
property is violated when one of them takes the place of the definition it names.

## 3. Runs

| Run | Question | Checked |
| --- | --- | --- |
| `supply` | From issuing to the witness, with wrapping words: is supply conserved, is what the wallet makes accepted, do ids survive, does a witness open once? | `TypeOK`, `SupplyConserved`, `IssuedIsValid`, `BuiltIsAccepted`, `OneMessagePerProtocol`, `IdSurvives` (action property), refinement `PromiseSpec` |
| `transfers` | Is the loop a single-use ledger that accepts all that is good, omits only what it may, and reports what it must? | `TypeOK`, `NoDoubleSpend`, `GoodIsAccepted`, `OnlyHistoryOmitted`, `ReceivingKept`, `MaterialClosed`, refinement `LedgerSpec` |
| `faults` | Is anything bad accepted, and what do verdicts mean, with a failing resolver and a moving chain? | `SealsClosed`, `AcceptedIsGood`, `WitnessesAgree`, `ProjectionIsCurrent`, `PreparedStillPossible`, `OnlyChainEvidenceMarks` |
| `history_calls` | Does a validated history keep the supply promise, may a spent output be left out of a history disclosed in part, and does a call on a buried one succeed in the end? | refinement `SupplySpec`, `OnlyHistoryOmitted`, `BuriedIsAccepted` (liveness) |
| `histories` | Do merging, building and revealing keep histories good and marks honest? | `TypeOK`, `MarkedIsGood`, `MergeIsUnion`, `MergeKeepsGood`, `RefusedForAReason` |
| `reject_list` | Does the search decide what the policy says? | `TypeOK`, `NamesARejection`, `MissesNoRejection` |
| `receive_own` | Do invoices and decisions survive concurrency and crashes? | `TypeOK`, `ShownIsRecoverable`, `DecisionKept`, `TerminalIsFinal` |
| `delivery` | Do answers stand, is nothing broadcast too early, and is a recipient heard in the end? | `AnswersStand`, `BroadcastIsAcknowledged`, `Heard` (liveness) |
| `devices` | Are transactions atomic, and is the latest head selected or the fork reported? | `SelectedIsLatest`, refinement `KeepsContract` |
| `prepared_txid`, `receive_shared`, `receive_large` | disagreements of code and comments, section 6 | one violated property each |

**Bounds.** The contract of `MCConsignment` has a genesis with two unit allocations and an inflation right, the right and a
unit allocation on the same output; a payment with change, a rival of it, a payment that joins an allocation made by a
transition with one made by genesis, an inflation and a transfer in one bundle, a burn, and a transfer of one
unit into two outputs whose sum is one only if it wraps.
That is the smallest contract in which a bundle holds two operations, an operation has two parents, state is made by genesis
and by witness-relative seals, and two operations conflict. Each run picks the consignments its question needs; every run
takes them with no, only the last, or all witnesses embedded (`history_calls`, where inflation and burning are at issue, takes
those by txid). Histories of up to three bundles are enough for an ancestor of
an ancestor, for a residual state in each position, and for every pair of bundles out of order. The chain of a run has
only the transactions of its consignments, and in `transfers` one ordinary spend, for outputs that are spent behind the
wallet's back. `Buried` is normally the funding transaction only: without it nothing can be broadcast, and everything else may
come and go; `history_calls` also buries the payment, so that there is a buried history with something in it. Calls are
unbounded in number: a new one may start whenever one has returned, on the chain as it then is.

`histories` has two slots, eleven histories that a wallet may receive (with concealed seals, a bundle known in another order,
in half, or by an embedded witness, a history that repeats a bundle, and one that lists a bundle in its two halves), two witness bundles to append, and lists of at most
three bundles, so that the limit is met. Two slots are enough: a merge has two arguments, and its result may replace either.
`reject_list` has a diamond of five operations, the smallest graph in which two paths, one shielded and one not, lead to the
same opout; its lists are all those of up to three lines, so that a decision can be taken back, shield another, or be no opout.

`supply` takes words of 0..4: sums of two amounts wrap, and amounts around the limit exist for every guard. The wallet issues
with up to two allocations and one inflation right, any amounts, among four seals of which one points at its own witness
(and so cannot be allocated); one input or two, in any order and repeated; one or two outputs, or three of which two are
equal but not next to each other, with outputs that have no seal or two, and whose class is not the one of the list. That
meets the refusals of the builder other than empty and overlong lists, and lists that are in order only after sorting.
Trees have up to four leaves (`MaxDepth` 2) in words of eight values, with cofactors below, at and above the width, so that
the difference wraps. The owner's signature is left out or too short: the inflatable schema asks for none. `receive_own`
has two callers, three requests, two objects, scripts that fill the
record to its limit once a transfer is named in it, and empty ones.

`delivery` has two recipients, an object that the sender means and one that it does not, and a clock that stops at 1: a
record can expire once and be renewed to a last version that does not expire within the run. Two recipients are the
smallest batch; one expiry is enough, since a renewal is judged against its predecessor only. `devices` has two sessions, two
states of their own and the zero state, stray heads, one of another wallet and one ill-formed, and sequence numbers that wrap after 2, so that the
successor of the highest number is the forbidden 0. Its constraint `Apart` runs a selection only while the sessions rest: a selection
reads nothing but what was published before it started. Three candidates are the fewest in which a conflict comes before,
between or after a higher head.

`CHECK_DEADLOCK FALSE` in the validator's and the wallet's runs is not needed for the former (a call can always start) but
states that Bitcoin and callers may rest; in `receive_own` and `delivery` all requests may be decided and every answer sent,
in `devices` all sequence numbers may be used up, and `supply` may reach totals no rule applies to.

**Fairness.** `FairSpec` asks weak fairness of `Validate`, the disjunction of the steps of a running call, and nothing of
calls, callers or Bitcoin. A call is a single goroutine that runs until it returns and waits only for its resolver; a
resolver that never answers is outside of the property. Under that assumption `BuriedIsAccepted` also needs the witnesses
to be buried: a call on a history that may be reorganised can rightly fail.

`FairSpec` of `Delivery` is about hosts, which are outside the repository: `Heard` says that *if* they keep going, the records
and the engine put nothing in their way. Of a `Diligent` recipient (one of the two in the run; the other may stop for good at
any point) it asks that its host keeps fetching, deciding, committing and answering, with strong fairness because a crash
undoes the fetch and the call and disables what was enabled; of the sender, that it renews a record once it has expired and
polls for answers, with weak fairness, because neither can be undone. Nothing is asked of the clock or of crashes, which may
go on for ever.

## 4. What is proved

TLAPS proves these for every value of the constants under the named assumptions (`SchemaAssumption`, `BitcoinAssumption`,
`TransactionAssumption`, `ConsignmentAssumption`, `GenesisAssumption`, `ContainersAssumption`, `HistoriesAssumption`,
`RejectListAssumption`, `ReceiveAssumption`, `DeliveryAssumption`, `DeviceAssumption`, `HeadAssumption`, `SealAssumption`,
`AnchorsAssumption`, `LifeAssumption`): any contract, any chain of
transactions, any set of consignments, any of the resolver faults that `BitcoinFacts` knows, any number of callers and requests.

- `Schemas_proofs` has no theorem of its own but what the others count with. `Effect`: what an accepted operation does to the
  totals; the guards of the code imply that the sums they guard did not wrap (`PlusExact`). Sums over finite sets are folds,
  which no induction theorem can reach here; a sum is therefore *counted*: it is the number of units, pairs of an element and
  a number up to its worth (`Units`, `SumIsCounted`), so that it adds over disjoint sets because cardinality does.
  `LeastNatural` is the least number principle, the form of induction used throughout.
- `ContractLife_proofs`, the supply: `TypeCorrect`, `Conservation`, `PromiseKept` (each accepted operation is an inflation, a
  burn, or nothing for the promise), then `IssuesValidContracts`, `LifeFollowsTheRules`, `LifeConserves`. The genesis on the
  desk is one that `Issue` admitted (`Admitted`); the test `maxSupply < issued` implies that the sum did not wrap, hence the
  validator's two equations hold of it. Everything a wallet does besides leaves all totals alone.
- `ContractLife_proofs`, anchoring: `OpensOnce`. `Opened` says that every message that was opened climbs to the commitment of
  the witness by a proof on the desk. `ConvolveMPC` is a recursion up the path; `ClimbExists` shows that its nodes exist, and
  `SameMessage` compares two climbs to one commitment from the root down: the commitment fixes depth and cofactor, these the
  protocol's position, the position the turns, and so every node down to the leaf is the same, and with it the message.
  This holds also where the width less the cofactor wraps.
- `ContractLife_proofs`, building: `BuildsAccepted`, `IdsSurvive`. `Drafted` says that the operation on the desk is what its
  request builds, with some seals revealed in place (`Shown`), and that it passes the rules if its amounts are fungible;
  `Holds`, that a wallet holds finitely many assignments. Sorting is a choice, so the proof starts from the fact that there is
  something to choose (`SortExists`, an element goes to the place that the number of smaller ones gives it), and that
  without repetition the order is the only one (`SortedSame`): two requests that differ in order build the same value
  (`BuiltAgain`). Sums do not depend on order (`SumMoves`, by the bijection of the units), which carries `Balanced`, a fact
  about the request, over to the operation. A revealed seal is committed as the concealed one it replaced (`SameId`), while the
  disclosure tells the places that are revealed, and since `Conceal` is injective, what they reveal (`DiscloseTells`).
- `Validator_proofs`: `TypeCorrect`, `MapsAgree`, `SingleUse`, `ImplementsLedger`, from
  `IInv == TypeOK /\ Bookkeeping /\ NoDoubleSpend`. `NoDoubleSpend` alone is not inductive: that the transition about to be
  applied consumes nothing that a validated one consumed follows from two facts of `Bookkeeping`, that its checked inputs
  are live, and that live states are disjoint from the consumed ones, which are exactly what validated operations consume.
  `Bookkeeping` is proved (`MapsAgree`) and not checked by a run. Lemma `Applicable` states this; with it the refinement of
  the ledger needs one case per action.
- `Validator_proofs`, what is accepted: `SealsAlwaysClosed`, `AcceptsOnlyGood`, `MarksOnlyOnChain`. `HistoryGood` speaks of
  positions in a container and knows no loop, so the invariant `HistoryInv` relates the maps of the loop to the positions
  behind its cursor (`Passed`): a live state is where the listing that made it put it (`StatesPlaced`), an input that was
  checked is committed to and closed (`InputsChecked`), and the listings passed are anchored, valid, supported by earlier
  ones and disjoint (`PassedGood`). At the end of the bundles everything is passed, which is `HistoryGood`.
- `Reports_proofs`: `WitnessesTogether`, `ProjectsUnspent`, `PreparedCanBeSent` from `ReportInv`, which remembers what the
  answers of the resolver meant when they were given, as far as Bitcoin has not moved since (`disturbed`): the witnesses
  resolved so far (`WitnessesSeen`), what they spend (`WitnessesPossible`), the residual states decided (`ProjectionExplained`);
  they are together on the chain because the chain has no conflicts (`ChainAgrees`). `ReceivingOutputsKept`, `OmitsOnlyHistory`
  and `MaterialExplainsItself` need that the maps are complete (`MapsComplete`): every revealed unconsumed output is live, every
  input of a validated operation is recorded. `OmitsOnlyHistory` also compares the worklist of the code, a recursion over rounds, with
  the closure under parents: it stays within every closed set (`WorklistInside`), and a round that adds nothing has reached one.
  Both properties speak of what the container delivers (`Receiving`) and not of what the loop protects: that these are the
  same (`ReceivingIs`, `HistoricalIs`) needs what the loop has learned of the whole container (`Surveyed`), which bundles hide
  an operation and, at the end, every operation there is.
- `Reports_proofs`: `GoodNeverRefused` is the converse of `AcceptsOnlyGood`. Under favourable conditions no step of the loop can
  fail (`GoodBundleResolves`, `GoodInputPasses`, `GoodTransitionPasses`, `GoodFinishes`), except at the projection and there for
  the reasons it may. `ValidatorKeepsPromise` maps the loop to `SupplyPromise`, over the totals of what validated operations
  left unconsumed, revealed or not: the step that applies a transition takes its inputs out and puts its outputs in
  (`UnconsumedCounts`, `AppliedSupply`), and `Effect` says what the schema allowed.
- `Histories_proofs`: `TypeCorrect`, `FlagsHonest`, `MergedIsUnion`, `MergedIsGood`. The loop invariant `Progress` relates
  the base, the candidate, the number of bundles done, and the result: the base's bundles are in their places, every bundle
  done has a counterpart that knows its operations, what it disclosed is disclosed, and, if both arguments are good, every
  transition comes after its parents and its witness closes their seals (`Ancestral`). `ProgressShared` and `ProgressNew` are
  its two steps. That nothing is consumed twice in the result is *not* an invariant of the loop and needs no check in the
  code: of two transitions that consume the same state, the operation that made it would be listed twice before them and
  consume its own inputs twice, and so on down (`TwiceComesFromTwice`); with witnesses that do not conflict there is no
  first such pair (`NothingTwice`).
- `Histories_proofs`: `RefusalsExplained`. The proof corrected the property: it had left out that a good history may list one
  bundle in parts, which a merge refuses as its second argument (section 6). `MCHistories` has such a history since.
- `RejectList_proofs`: `TypeCorrect`, `NamesOnlyRejections`, `MissesNone`. The search keeps what is pending within the lineage, and what
  was visited closed under parents or pending (`InLineage`, `Explored`); the map of decisions agrees with the last line about
  each opout after every line (`DecisionsRead`). That concealed outputs have no entry in the graph loses nothing because a
  good history reveals every state that it consumes.
- `Delivery_proofs`, the receive engine: `TypeCorrect`, `InvoicesRecoverable`, `DecisionsKept`, `DecisionsFinal`. Two conditions on
  the host are hypotheses where they are needed, and the runs of section 6 show that they are: `Fits` (scripts leave room for
  the rest of the record, whatever is decided) for recovery, `Exclusive` (no two callers serve one request) for decisions. The invariant
  `DraftsApply` says that what a caller has read and not yet committed still applies: a request it creates is unknown, a
  request it decides is undecided. A second caller on the same request destroys exactly this. Recovery does not need it: a
  stale write overwrites a request with another readable version of it.
- `Delivery_proofs`, the relay: `RunsTheEngine` (a delivery only takes steps of the receive engine, so that `DecisionsKept` holds of it),
  `AnswersNeverDisagree`, `NothingBroadcastUnacknowledged` (which needs that there is a recipient at all). The invariant `DInv`
  follows an answer back through the messages: a taken answer was published (`TakenReplied`), a published one repeats a
  committed decision (`Backed`, `RepliesAgree`), every version of a relay record names the object of the batch (`Carried`), which
  is where `ValidateRenewal` is needed, and a broadcast was complete (`Complete`).
- `Devices_proofs`: `StoreIsAtomic` and `DevicesKeepContract` (the lock has at most one holder, and what is left to apply is
  part of what it writes), `SelectsLatest` (what a selection holds is at least as high as everything it has seen).

Every safety property that a passing run checks is one of these theorems, and so is every refinement.

## 5. What is only model-checked

Liveness: `BuriedIsAccepted` and `Heard`, which need fairness and `ENABLED`, are checked on the instances above and not proved.
The library's induction theorems take an operator as a parameter, which the installed provers cannot instantiate; where an
induction over numbers is needed it goes through `LeastNatural`, which rests on a well-founded relation, whose theorem
speaks of sets. What the models abstract (section 7) is outside of both.

## 6. Where code and comments disagree

- `prepared_txid`: `ValidatePrepared` is said never to accept a txid-only witness (`consignment/validator.go:94`). It does
  when the chain knows the transaction: only the last witness of a transfer is usually unsent, so the code's behaviour is
  the useful one and the comment is wrong.
- `receive_shared`: a rejection is said to be terminal (`wallet/receive.go:233`). Load, check and commit are not one step, so
  two concurrent decisions on the same request both succeed and the later one stays. With callers that serve different
  requests (`receive_own`) the property holds.
- `receive_large`: the encoder limits the script, the decoder the whole record, to the same size (`wallet/receive_storage.go:42`
  and `:64`). A record between the two limits is committed, its invoice returned, and cannot be loaded again.

Three more that no run is about. A comment says that outputs are sorted by concealed seal (`operations/builder.go:44`); they
are sorted by their encodings, revealed ones first, so that asking for a revealed seal and revealing it afterwards are two
operations with different ids. And an inflatable contract with only allocations, or only rights, passes `validateSpec`
(`issuance/issuance.go:151`), while both lists are written and the encoder refuses an empty one (`Encodable`): such a contract
cannot be issued, and `Issue` says so by an error of the encoder. Third, a history that lists one bundle twice, each time with
other transitions, is accepted by the validator, and so good; `MergeHistories` refuses it: as first
argument by its check for duplicates, as second because each listing after the first is taken for a shared bundle, whose
transitions must be the same (`consignment/merge.go:145`).

## 7. Not modelled

Cryptography and serialisation (hashes, tapret arithmetic, strict encoding and its type library, armor, text formats, PSBT
keys, invoices) are abstracted to equality of ids or left out: recursive transformations of text and bytes, without state,
which differential tests against the Rust implementation cover. Global state is left out of the validator: the only rule
that reads it, the issuer's key of the permissioned schema, is the field `signed`. Carrier bindings and output scripts are
copied data. Expiry of receive requests is checked only on creation, and of the record's witness txid and failure
code only the room they take is kept. The unique-asset schema, whose state is a token, and the right 4013 are left out of the rules and of issuance. Byte limits
of texts in records and specifications are one flag each. `RejectList` leaves out the HTTP client that fetches a list, and the
browser client is a read-only HTTP client whose possible answers are those of `BitcoinFacts`. The command-line tools,
generators and the Rust and JavaScript references are tools for tests.

## 8. Plan

What would come next, in this order:

1. The unique-asset rules and the right 4013 in `Schemas`, and with them unique assets in `Issuance`.
2. A recipient that runs `Validator` on what `Delivery` carries before it decides, in place of a free decision.
3. Global state over a history (`appendOperationGlobals`), for the permissioned schema's key.
