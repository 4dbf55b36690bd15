------------------------- MODULE ContractLife_proofs -------------------------
(***************************************************************************)
(* The schema rules conserve the supply, for every schema and every word   *)
(* size: Supply implements SupplyPromise. What a wallet issues is valid,   *)
(* and a contract that is issued, built on and anchored goes on as the     *)
(* schema rules say: ContractLife implements Supply.  A witness opens for  *)
(* one message of a protocol at most, whoever filled its tree.  What the   *)
(* builder makes of a request that adds up is accepted and keeps its id,   *)
(* in whatever order its lists come and whatever seals are revealed.       *)
(***************************************************************************)
EXTENDS ContractLife, Schemas_proofs

(***************************************************************************)
(* Refinement: every operation is a step or a stutter of the promise.      *)
(***************************************************************************)
LEMMA OperateKeeps ==
    ASSUME TypeOK, NEW in \in Consumable, NEW out \in Totals, NEW meta \in MetaAmounts,
           NEW signed \in BOOLEAN, NEW type \in TransitionType,
           Operate(type, in, out, meta, signed)
    PROVE  [Promise!Next]_supplyVars
<1>1. /\ in \in Totals /\ in.asset <= asset /\ in.inflation <= allowance
  BY DEF Consumable
<1>2. /\ in.asset \in Nat /\ in.inflation \in Nat
      /\ out.asset \in Nat /\ out.inflation \in Nat
      /\ meta.asset \in Nat /\ meta.inflation \in Nat
      /\ asset \in Nat /\ allowance \in Nat /\ burned \in Nat /\ forgone \in Nat
  BY <1>1, TotalsAreNat, MetaAmountsAreNat DEF TypeOK
<1>3. ScriptOK(type, in, out, meta, signed)
  BY DEF Operate
<1>4. CASE /\ type = "transfer"
           /\ in.asset = out.asset
           /\ in.inflation = out.inflation
  BY <1>2, <1>4 DEF Operate, supplyVars
<1>5. CASE /\ type = "inflate"
           /\ in.asset = 0
           /\ in.inflation = out.inflation + out.asset
  <2>1. out.asset \in 0 .. allowance
    BY <1>1, <1>2, <1>5
  <2>2. /\ asset' = asset + out.asset
        /\ allowance' = allowance - out.asset
        /\ UNCHANGED <<burned, forgone, maximum>>
    BY <1>2, <1>5 DEF Operate
  <2> QED BY <2>1, <2>2 DEF Promise!Next, Promise!Inflate
<1>6. CASE /\ type = "burn"
           /\ in.asset = out.asset + meta.asset
           /\ in.inflation = out.inflation + meta.inflation
  <2>1. meta.asset \in 0 .. asset /\ meta.inflation \in 0 .. allowance
    BY <1>1, <1>2, <1>6
  <2>2. /\ asset' = asset - meta.asset
        /\ allowance' = allowance - meta.inflation
        /\ burned' = burned + meta.asset
        /\ forgone' = forgone + meta.inflation
        /\ UNCHANGED maximum
    BY <1>2, <1>6 DEF Operate
  <2> QED BY <2>1, <2>2 DEF Promise!Next, Promise!Burn
<1> QED BY <1>3, <1>4, <1>5, <1>6, Effect

LEMMA StepKeeps == TypeOK /\ [Next]_supplyVars => [Promise!Next]_supplyVars
<1> SUFFICES ASSUME TypeOK, [Next]_supplyVars
             PROVE  [Promise!Next]_supplyVars
  OBVIOUS
<1>1. CASE Next
  <2>1. PICK out \in Totals, meta \in MetaAmounts :
            \/ Issue(out, meta)
            \/ \E in \in Consumable, signed \in BOOLEAN, type \in TransitionType :
                   Operate(type, in, out, meta, signed)
    BY <1>1 DEF Next
  <2>2. CASE Issue(out, meta)
    <3>1. out.asset \in Amount /\ out.inflation \in Amount
      BY TotalsAreNat
    <3> QED BY <2>2, <3>1 DEF Issue, Promise!Next, Promise!Issue
  <2>3. CASE \E in \in Consumable, signed \in BOOLEAN, type \in TransitionType :
                Operate(type, in, out, meta, signed)
    BY <2>3, OperateKeeps
  <2> QED BY <2>1, <2>2, <2>3
<1>2. CASE UNCHANGED supplyVars
  BY <1>2
<1> QED BY <1>1, <1>2

-------------------------------------------------------------------------------
(***************************************************************************)
(* Type correctness and conservation are inductive together, and need only *)
(* that every step is one of the promise.                                  *)
(***************************************************************************)
Inv == TypeOK /\ SupplyConserved

LEMMA InitInv == Init => Inv
BY DEF Init, Inv, TypeOK, SupplyConserved

LEMMA PromiseInv == Inv /\ [Promise!Next]_supplyVars => Inv'
<1> SUFFICES ASSUME Inv, [Promise!Next]_supplyVars
             PROVE  Inv'
  OBVIOUS
<1> USE DEF Inv, TypeOK, SupplyConserved
<1>1. CASE Promise!Issue
  BY <1>1, SchemaAssumption DEF Promise!Issue, Amount
<1>2. CASE Promise!Inflate
  BY <1>2 DEF Promise!Inflate
<1>3. CASE Promise!Burn
  BY <1>3 DEF Promise!Burn
<1>4. CASE UNCHANGED supplyVars
  BY <1>4 DEF supplyVars
<1> QED BY <1>1, <1>2, <1>3, <1>4 DEF Promise!Next

LEMMA NextInv == Inv /\ [Next]_supplyVars => Inv'
BY StepKeeps, PromiseInv DEF Inv

\* The quantities of a contract are natural numbers: no accepted operation
\* takes more than there is (schemas/transition.go ValidateTransition).
THEOREM TypeCorrect == Spec => []TypeOK
<1>1. Inv => TypeOK
  BY DEF Inv
<1> QED BY <1>1, InitInv, NextInv, PTL DEF Spec

\* Nothing is created after genesis and nothing disappears unrecorded, for
\* every schema and every word size (validateTransitionScript).
THEOREM Conservation == Spec => []SupplyConserved
<1>1. Inv => SupplyConserved
  BY DEF Inv
<1> QED BY <1>1, InitInv, NextInv, PTL DEF Spec

\* The schema rules implement the promise to the holders.
THEOREM PromiseKept == Spec => PromiseSpec
<1>1. Init => Promise!Init
  BY DEF Init, Promise!Init
<1>2. TypeOK /\ [Next]_supplyVars => [Promise!Next]_(Promise!promiseVars)
  BY StepKeeps DEF supplyVars, Promise!promiseVars
<1> QED BY <1>1, <1>2, TypeCorrect, PTL DEF Spec, PromiseSpec, Promise!Spec

(***************************************************************************)
(* Issue: a specification that is not refused gives a genesis that the     *)
(* validator accepts.  The maximum did not wrap, because it is not smaller *)
(* than what is issued.                                                    *)
(***************************************************************************)
LEMMA IssuedAccepted ==
    ASSUME NEW spec, CanIssue(spec)
    PROVE  /\ GenesisOK(GenesisTotals(Issued(spec)), GenesisMeta(Issued(spec)))
           /\ GenesisMeta(Issued(spec)) \in MetaAmounts
<1> DEFINE issued    == Sum(spec.allocations)
           inflation == Sum(spec.rights)
           out       == GenesisTotals(Issued(spec))
           meta      == GenesisMeta(Issued(spec))
<1>1. issued \in Amount /\ inflation \in Amount /\ Kind \in {"NIA", "IFA"}
  BY DEF CanIssue, ValidateSpec
<1>2. /\ Issued(spec).globals.issued = issued
      /\ Issued(spec).asset = spec.allocations
      /\ Issued(spec).globals.maximum = IF Kind = "IFA" THEN Plus(issued, inflation) ELSE 0
      /\ Kind = "IFA" => Issued(spec).inflation = spec.rights
  BY DEF Issued, PutGlobals, MaxSupply
<1>3. /\ out.asset = issued
      /\ out.inflation = IF Kind = "IFA" THEN inflation ELSE 0
      /\ meta.asset = issued
      /\ meta.inflation = IF Kind = "IFA" THEN Plus(issued, inflation) ELSE 0
      /\ out = [asset |-> issued, inflation |-> IF Kind = "IFA" THEN inflation ELSE 0,
                listed |-> out.listed]
      /\ out.listed = TypesListed(spec.allocations # {}, Kind = "IFA" /\ spec.rights # {})
      /\ meta = [asset     |-> issued,
                 inflation |-> IF Kind = "IFA" THEN Plus(issued, inflation) ELSE 0]
  BY <1>2 DEF GenesisTotals, GenesisMeta
<1>4. 0 \in Amount /\ Amount \subseteq Nat /\ Amount \subseteq Int
  BY SchemaAssumption DEF Amount
<1>5. Plus(issued, inflation) \in Amount
  BY <1>1, <1>4, SchemaAssumption DEF Plus, Amount
<1>6. out \in Totals /\ meta \in MetaAmounts
  <2>1. meta \in MetaAmounts
    BY <1>1, <1>3, <1>4, <1>5 DEF MetaAmounts
  <2>2. out \in Side
    BY <1>1, <1>3, <1>4 DEF Side, TypesListed
  <2>3. "asset" \in out.listed /\ ("inflation" \in out.listed <=> Kind = "IFA")
    BY <1>3 DEF TypesListed, AssignmentKind, CanIssue, Encodable
  <2> HIDE DEF out, meta
  <2> QED BY <1>3, <2>1, <2>2, <2>3 DEF Totals
<1>7. ASSUME Kind = "IFA"
      PROVE  meta.inflation >= meta.asset /\ out.inflation = meta.inflation - meta.asset
  <2>1. Plus(issued, inflation) >= issued
    BY <1>7 DEF CanIssue, SetGenesisGlobals, MaxSupply
  <2>2. Plus(issued, inflation) = issued + inflation
    BY <1>1, <2>1, PlusExact
  <2>3. meta.asset = issued /\ meta.inflation = issued + inflation /\ out.inflation = inflation
    BY <1>3, <1>7, <2>2
  <2>4. issued \in Nat /\ inflation \in Nat
    BY <1>1, <1>4
  <2> HIDE DEF issued, inflation, out, meta
  <2> QED
    BY <2>3, <2>4
<1>8. GenesisScript(out, meta)
  BY <1>3, <1>7 DEF GenesisScript
<1>9. Occurrences("genesis", {}, out.listed)
  BY <1>3 DEF Occurrences, TypesListed, AssignmentKind, CanIssue, Encodable
<1> QED
  BY <1>6, <1>8, <1>9 DEF GenesisOK

-------------------------------------------------------------------------------
(***************************************************************************)
(* The genesis on the desk is one that Issue's own checks let through.     *)
(***************************************************************************)
Admitted == genesis = NoGenesis \/ \E spec : CanIssue(spec) /\ genesis = Issued(spec)

\* Building, anchoring and opening touch neither the genesis nor a total.
LEMMA DeskKept ==
    ASSUME \/ \E request : Build(request)
           \/ \E p, q : Rebuild(p, q)
           \/ \E t, i, seal : Reveal(t, i, seal)
           \/ \E depth : AnchorOwn(depth)
           \/ \E depth, cofactor, leaves : AnchorTogether(depth, cofactor, leaves)
           \/ \E proof, p, m : Open(proof, p, m)
           \/ Finish
           \/ UNCHANGED lifeVars
    PROVE  UNCHANGED supplyVars /\ genesis' = genesis
<1>1. ASSUME NEW request, Build(request) PROVE UNCHANGED supplyVars /\ genesis' = genesis
  BY <1>1 DEF Build, supplyVars
<1>2. ASSUME NEW p, NEW q, Rebuild(p, q) PROVE UNCHANGED supplyVars /\ genesis' = genesis
  BY <1>2 DEF Rebuild, supplyVars
<1>3. ASSUME NEW t, NEW i, NEW seal, Reveal(t, i, seal)
      PROVE  UNCHANGED supplyVars /\ genesis' = genesis
  BY <1>3 DEF Reveal, supplyVars
<1>4. ASSUME NEW depth, AnchorOwn(depth) PROVE UNCHANGED supplyVars /\ genesis' = genesis
  BY <1>4 DEF AnchorOwn, supplyVars
<1>5. ASSUME NEW depth, NEW cofactor, NEW leaves, AnchorTogether(depth, cofactor, leaves)
      PROVE  UNCHANGED supplyVars /\ genesis' = genesis
  BY <1>5 DEF AnchorTogether, supplyVars
<1>6. ASSUME NEW proof, NEW p, NEW m, Open(proof, p, m)
      PROVE  UNCHANGED supplyVars /\ genesis' = genesis
  BY <1>6 DEF Open, supplyVars
<1>7. ASSUME Finish \/ UNCHANGED lifeVars PROVE UNCHANGED supplyVars /\ genesis' = genesis
  BY <1>7 DEF Finish, lifeVars, supplyVars
<1> QED
  BY <1>1, <1>2, <1>3, <1>4, <1>5, <1>6, <1>7

\* One step of a wallet, sorted by what it does to the genesis.
LEMMA LifeSteps ==
    ASSUME [LifeNext]_lifeVars
    PROVE  \/ \E spec \in Specs : EncodeContract(spec)
           \/ DecodeContract
           \/ Others
           \/ StartWitness
           \/ UNCHANGED supplyVars /\ genesis' = genesis
<1>1. CASE LifeNext
  BY <1>1, DeskKept DEF LifeNext
<1>2. CASE UNCHANGED lifeVars
  BY <1>2, DeskKept
<1> QED
  BY <1>1, <1>2

LEMMA AdmittedStep == ASSUME Admitted, [LifeNext]_lifeVars PROVE Admitted'
<1>1. CASE \E spec \in Specs : EncodeContract(spec)
  BY <1>1 DEF EncodeContract, Admitted
<1>2. CASE genesis' \in {genesis, NoGenesis}
  BY <1>2 DEF Admitted
<1>3. DecodeContract \/ Others \/ StartWitness => genesis' \in {genesis, NoGenesis}
  BY DEF DecodeContract, Others, StartWitness
<1> QED
  BY <1>1, <1>2, <1>3, LifeSteps

LEMMA AdmittedIsValid ==
    ASSUME Admitted
    PROVE  IssuedIsValid /\ GenesisMeta(genesis) \in MetaAmounts
<1>1. CASE genesis = NoGenesis
  <2>1. GenesisMeta(genesis) = [asset |-> 0, inflation |-> 0]
    BY <1>1 DEF GenesisMeta, NoGenesis
  <2>2. 0 \in Amount
    BY SchemaAssumption DEF Amount
  <2> QED
    BY <1>1, <2>1, <2>2 DEF IssuedIsValid, MetaAmounts
<1>2. ASSUME NEW spec, CanIssue(spec), genesis = Issued(spec)
      PROVE  IssuedIsValid /\ GenesisMeta(genesis) \in MetaAmounts
  BY <1>2, IssuedAccepted DEF IssuedIsValid
<1> QED
  BY <1>1, <1>2 DEF Admitted

-------------------------------------------------------------------------------
(***************************************************************************)
(* What Issue's own checks let through is never refused when it is read    *)
(* back (issuance.go:119, schemas/validate.go:55).                         *)
(***************************************************************************)
THEOREM IssuesValidContracts == LifeSpec => []IssuedIsValid
<1>1. LifeInit => Admitted
  BY DEF LifeInit, Admitted
<1>2. Admitted /\ [LifeNext]_lifeVars => Admitted'
  BY AdmittedStep
<1>3. Admitted => IssuedIsValid
  BY AdmittedIsValid
<1> QED
  BY <1>1, <1>2, <1>3, PTL DEF LifeSpec

(***************************************************************************)
(* The life of a contract is a behaviour of Supply: what the wallet issues *)
(* is one of the contracts the rules admit, and making an operation or a   *)
(* witness changes no total.                                               *)
(***************************************************************************)
THEOREM LifeFollowsTheRules == LifeSpec => Spec
<1>1. LifeInit => Init /\ Admitted
  BY DEF LifeInit, Admitted
<1>2. Admitted /\ [LifeNext]_lifeVars => Admitted'
  BY AdmittedStep
<1>3. Admitted /\ [LifeNext]_lifeVars => [Next]_supplyVars
  <2> SUFFICES ASSUME Admitted, [LifeNext]_lifeVars
               PROVE  [Next]_supplyVars
    OBVIOUS
  <2>1. ASSUME NEW spec \in Specs, EncodeContract(spec) PROVE UNCHANGED supplyVars
    BY <2>1 DEF EncodeContract
  <2>2. CASE DecodeContract
    <3> DEFINE out  == GenesisTotals(genesis)
               meta == GenesisMeta(genesis)
    <3>1. CASE GenesisOK(out, meta)
      <4>1. Issue(out, meta)
        BY <2>2, <3>1 DEF DecodeContract
      <4>2. out \in Totals
        BY <3>1 DEF GenesisOK
      <4>3. meta \in MetaAmounts
        BY AdmittedIsValid
      <4> HIDE DEF out, meta
      <4> QED
        BY <4>1, <4>2, <4>3 DEF Next
    <3>2. CASE ~GenesisOK(out, meta)
      BY <2>2, <3>2 DEF DecodeContract
    <3> QED
      BY <3>1, <3>2
  <2>3. CASE StartWitness
    BY <2>3 DEF StartWitness
  <2>4. CASE Others
    BY <2>4 DEF Others
  <2> QED
    BY <2>1, <2>2, <2>3, <2>4, LifeSteps
<1> QED
  BY <1>1, <1>2, <1>3, PTL DEF LifeSpec, Spec

(***************************************************************************)
(* So supply is conserved, and every accepted step keeps the promise of    *)
(* SupplyPromise, also with a wallet that issues, builds and anchors       *)
(* (schemas/transition.go, validateTransitionScript).                      *)
(***************************************************************************)
THEOREM LifeConserves == LifeSpec => []TypeOK /\ []SupplyConserved /\ PromiseSpec
  BY LifeFollowsTheRules, TypeCorrect, Conservation, PromiseKept, PTL

--------------------------------------------------------------------------------
(***************************************************************************)
(* A witness opens for one message.  The nodes from a leaf to the root are *)
(* defined by recursion up the path of the proof: Climb is that equation.  *)
(***************************************************************************)
Climb(proof, protocol, message, node) ==
    node = [index \in 0 .. Len(proof.path) |->
               IF index = Len(proof.path) THEN Leaf(protocol, message)
               ELSE IF IsLeft(proof.position, Len(proof.path) - 1 - index)
                    THEN Branch(index, 2 ^ Len(proof.path), node[index + 1], proof.path[index + 1])
                    ELSE Branch(index, 2 ^ Len(proof.path), proof.path[index + 1], node[index + 1])]

\* Tuples are equal only if their parts are: hashes lose nothing.
LEMMA SameCommitment ==
    ASSUME NEW a, NEW b, NEW c, NEW d, NEW e, NEW f,
           <<"commitment", a, b, c>> = <<"commitment", d, e, f>>
    PROVE  a = d /\ b = e /\ c = f
OBVIOUS

LEMMA SameBranch ==
    ASSUME NEW i, NEW w, NEW a, NEW b, NEW c, NEW d,
           Branch(i, w, a, b) = Branch(i, w, c, d)
    PROVE  a = c /\ b = d
BY DEF Branch

\* The equation has a solution: the nodes of the k lowest levels can be
\* named for every k.
LEMMA ClimbExists ==
    ASSUME NEW proof, NEW protocol, NEW message, Len(proof.path) \in Nat
    PROVE  \E node : Climb(proof, protocol, message, node)
<1> DEFINE d == Len(proof.path)
           Up(i, below) == IF IsLeft(proof.position, d - 1 - i)
                           THEN Branch(i, 2 ^ d, below, proof.path[i + 1])
                           ELSE Branch(i, 2 ^ d, proof.path[i + 1], below)
           Lowest(k, f) == f = [i \in d - k .. d |-> IF i = d THEN Leaf(protocol, message)
                                                     ELSE Up(i, f[i + 1])]
           Named(k) == \E f : Lowest(k, f)
           Bad == {k \in 0 .. d : ~Named(k)}
<1> HIDE DEF Up
<1>1. d \in Nat
  OBVIOUS
<1> HIDE DEF d, Named
<1>2. Bad = {}
  <2> SUFFICES ASSUME Bad # {} PROVE FALSE
    OBVIOUS
  <2>1. PICK k \in Bad : \A l \in Bad : k <= l
    <3>1. Bad \in SUBSET Nat
      BY <1>1
    <3> HIDE DEF Bad
    <3> QED BY <3>1, LeastNatural
  <2>2. k \in 0 .. d
    BY <2>1
  <2>3. CASE k = 0
    <3> DEFINE f == [i \in d - k .. d |-> Leaf(protocol, message)]
    <3>1. Lowest(k, f)
      BY <1>1, <2>3
    <3> QED BY <2>1, <3>1 DEF Named
  <2>4. CASE k # 0
    <3>1. k - 1 \in 0 .. d /\ k - 1 \notin Bad
      BY <1>1, <2>1, <2>2, <2>4
    <3>2. PICK f : Lowest(k - 1, f)
      <4>1. Named(k - 1)
        BY <3>1
      <4> QED BY <4>1 DEF Named
    <3> DEFINE top == d - k
               g == [i \in d - k .. d |-> IF i = top THEN Up(i, f[i + 1]) ELSE f[i]]
    <3>3. \A i \in d - (k - 1) .. d : f[i] = IF i = d THEN Leaf(protocol, message)
                                           ELSE Up(i, f[i + 1])
      BY <3>2
    <3>4. \A i \in d - k .. d : g[i] = IF i = d THEN Leaf(protocol, message)
                                         ELSE Up(i, g[i + 1])
      <4> SUFFICES ASSUME NEW i \in d - k .. d
                   PROVE  g[i] = IF i = d THEN Leaf(protocol, message) ELSE Up(i, g[i + 1])
        OBVIOUS
      <4>1. i \in Int /\ (i # d => i + 1 \in d - k .. d /\ i + 1 # top)
        BY <1>1, <2>2
      <4>2. i # top => i \in d - (k - 1) .. d
        BY <1>1, <2>2
      <4>3. top # d
        BY <1>1, <2>2, <2>4
      <4> QED BY <3>3, <4>1, <4>2, <4>3
    <3>5. Lowest(k, g)
      <4>1. g = [i \in d - k .. d |-> g[i]]
        OBVIOUS
      <4> HIDE DEF g
      <4> QED BY <3>4, <4>1
    <3> QED BY <2>1, <3>5 DEF Named
  <2> QED BY <2>3, <2>4
<1>3. PICK f : Lowest(d, f)
  <2>1. Named(d)
    BY <1>1, <1>2
  <2> QED BY <2>1 DEF Named
<1>4. f = [i \in 0 .. d |-> IF i = d THEN Leaf(protocol, message) ELSE Up(i, f[i + 1])]
  <2>1. d - d = 0
    BY <1>1
  <2> QED BY <1>3, <2>1
<1> QED BY <1>4 DEF Climb, Up, d

LEMMA Convolved ==
    ASSUME NEW proof, NEW protocol, NEW message, Len(proof.path) \in Nat
    PROVE  \E node : /\ Climb(proof, protocol, message, node)
                     /\ ConvolveMPC(proof, protocol, message) =
                            <<"commitment", Len(proof.path), proof.cofactor, node[0]>>
<1> DEFINE chosen == CHOOSE node : Climb(proof, protocol, message, node)
<1>1. Climb(proof, protocol, message, chosen)
  BY ClimbExists
<1>2. ConvolveMPC(proof, protocol, message) =
          <<"commitment", Len(proof.path), proof.cofactor, chosen[0]>>
  BY DEF ConvolveMPC, Climb
<1> HIDE DEF chosen
<1> QED BY <1>1, <1>2

(***************************************************************************)
(* Two openings of one commitment under one protocol are at one position,  *)
(* whatever their paths say: depth and cofactor are part of the            *)
(* commitment, and fix the width, wrapped or not.  So the paths turn the   *)
(* same way at every level, and meet at the same leaf.                     *)
(***************************************************************************)
LEMMA SameMessage ==
    ASSUME NEW p1, NEW p2, Len(p1.path) \in Nat, Len(p2.path) \in Nat,
           NEW protocol, NEW m1, NEW m2,
           CanConvolve(p1, protocol), CanConvolve(p2, protocol),
           ConvolveMPC(p1, protocol, m1) = ConvolveMPC(p2, protocol, m2)
    PROVE  m1 = m2
<1>1. PICK f : /\ Climb(p1, protocol, m1, f)
               /\ ConvolveMPC(p1, protocol, m1) =
                      <<"commitment", Len(p1.path), p1.cofactor, f[0]>>
  BY Convolved
<1>2. PICK g : /\ Climb(p2, protocol, m2, g)
               /\ ConvolveMPC(p2, protocol, m2) =
                      <<"commitment", Len(p2.path), p2.cofactor, g[0]>>
  BY Convolved
<1>3. Len(p1.path) = Len(p2.path) /\ p1.cofactor = p2.cofactor /\ f[0] = g[0]
  <2>1. <<"commitment", Len(p1.path), p1.cofactor, f[0]>>
            = <<"commitment", Len(p2.path), p2.cofactor, g[0]>>
    BY <1>1, <1>2
  <2> QED BY <2>1, SameCommitment
<1>4. p1.position = p2.position
  BY <1>3 DEF CanConvolve, PositionFits, FactoredWidth
<1> DEFINE d == Len(p1.path)
           Left(i) == IsLeft(p1.position, d - 1 - i)
<1>5. d \in Nat
  OBVIOUS
<1>6. \A i \in 0 .. d : i # d =>
          /\ f[i] = IF Left(i) THEN Branch(i, 2 ^ d, f[i + 1], p1.path[i + 1])
                    ELSE Branch(i, 2 ^ d, p1.path[i + 1], f[i + 1])
          /\ g[i] = IF Left(i) THEN Branch(i, 2 ^ d, g[i + 1], p2.path[i + 1])
                    ELSE Branch(i, 2 ^ d, p2.path[i + 1], g[i + 1])
  BY <1>1, <1>2, <1>3, <1>4 DEF Climb
<1>7. f[d] = Leaf(protocol, m1) /\ g[d] = Leaf(protocol, m2)
  <2>1. d \in 0 .. d
    OBVIOUS
  <2> QED BY <1>1, <1>2, <1>3, <2>1 DEF Climb
<1> HIDE DEF d, Left
<1>8. \A i \in 0 .. d : i # d /\ f[i] = g[i] => f[i + 1] = g[i + 1]
  <2> SUFFICES ASSUME NEW i \in 0 .. d, i # d, f[i] = g[i]
               PROVE  f[i + 1] = g[i + 1]
    OBVIOUS
  <2>1. CASE Left(i)
    <3>1. Branch(i, 2 ^ d, f[i + 1], p1.path[i + 1]) = Branch(i, 2 ^ d, g[i + 1], p2.path[i + 1])
      BY <1>6, <2>1
    <3> QED BY <3>1, SameBranch
  <2>2. CASE ~Left(i)
    <3>1. Branch(i, 2 ^ d, p1.path[i + 1], f[i + 1]) = Branch(i, 2 ^ d, p2.path[i + 1], g[i + 1])
      BY <1>6, <2>2
    <3> QED BY <3>1, SameBranch
  <2> QED BY <2>1, <2>2
<1>9. \A i \in 0 .. d : f[i] = g[i]
  <2> DEFINE Bad == {i \in 0 .. d : f[i] # g[i]}
  <2> SUFFICES ASSUME Bad # {} PROVE FALSE
    OBVIOUS
  <2>1. PICK i \in Bad : \A j \in Bad : i <= j
    <3>1. Bad \in SUBSET Nat
      BY <1>5
    <3> HIDE DEF Bad
    <3> QED BY <3>1, LeastNatural
  <2>2. i \in 1 .. d /\ f[i] # g[i]
    BY <1>3, <1>5, <2>1
  <2>3. i - 1 \in 0 .. d /\ i - 1 # d /\ (i - 1) + 1 = i /\ ~(i <= i - 1)
    BY <1>5, <2>2
  <2>4. f[i - 1] = g[i - 1]
    BY <2>1, <2>3
  <2>5. f[(i - 1) + 1] = g[(i - 1) + 1]
    BY <1>8, <2>3, <2>4
  <2> QED BY <2>2, <2>3, <2>5
<1>10. f[d] = g[d]
  <2>1. d \in 0 .. d
    BY <1>5
  <2> QED BY <1>9, <2>1
<1> QED BY <1>7, <1>10 DEF Leaf

(***************************************************************************)
(* Whatever a validator opened, a proof in the wallet's hands opens it for *)
(* the commitment of the witness.                                          *)
(***************************************************************************)
Opened ==
    making.phase = "witness" =>
        /\ making = Witness(making.commitment, making.proofs, making.opened)
        /\ \A proof \in making.proofs : Len(proof.path) \in Nat
        /\ \A a \in making.opened : \E proof \in making.proofs :
               /\ CanConvolve(proof, a[1])
               /\ ConvolveMPC(proof, a[1], a[2]) = making.commitment

LEMMA LengthOf ==
    ASSUME NEW n \in Nat, NEW path, DOMAIN path = 1 .. n, path = [i \in DOMAIN path |-> path[i]]
    PROVE  Len(path) \in Nat
<1> DEFINE S == {path[i] : i \in 1 .. n}
<1>1. path \in [1 .. n -> S]
  OBVIOUS
<1> HIDE DEF S
<1>2. path \in Seq(S)
  BY <1>1
<1> QED BY <1>2

LEMMA OpenedInit == LifeInit => Opened
  BY DEF LifeInit, Opened, Nothing

LEMMA OpenedNext == Opened /\ [LifeNext]_lifeVars => Opened'
<1> SUFFICES ASSUME Opened, [LifeNext]_lifeVars PROVE Opened'
  OBVIOUS
<1>1. CASE making' = making
  BY <1>1 DEF Opened
<1>2. CASE making'.phase # "witness"
  BY <1>2 DEF Opened
<1>3. CASE StartWitness
  BY <1>3 DEF StartWitness, Opened, Witness
<1>4. ASSUME NEW depth \in 0 .. MaxDepth, AnchorOwn(depth) PROVE Opened'
  <2> DEFINE proof == NewMPCProof(Contract, depth, 0)
  <2>1. Len(proof.path) \in Nat
    <3>1. depth \in Nat
      BY AnchorsAssumption
    <3> QED BY <3>1, LengthOf DEF NewMPCProof
  <2>2. making' = Witness(ConvolveMPC(proof, Contract, "ours"), {proof}, {})
    BY <1>4 DEF AnchorOwn
  <2> HIDE DEF proof
  <2> QED BY <2>1, <2>2 DEF Opened, Witness
<1>5. ASSUME NEW depth \in 0 .. MaxDepth, NEW cofactor \in Cofactors, NEW leaves,
             AnchorTogether(depth, cofactor, leaves)
      PROVE  Opened'
  <2> DEFINE proofs == {[position |-> k, cofactor |-> c, path |-> PathTo(leaves, depth, k)] :
                           k \in 0 .. 2 ^ depth - 1, c \in {0, cofactor}}
  <2>1. \A k : Len(PathTo(leaves, depth, k)) \in Nat
    <3>1. depth \in Nat
      BY AnchorsAssumption
    <3> QED BY <3>1, LengthOf DEF PathTo
  <2>2. \A proof \in proofs : Len(proof.path) \in Nat
    BY <2>1
  <2>3. making' = Witness(TreeCommitment(leaves, depth, cofactor), proofs, {})
    BY <1>5 DEF AnchorTogether
  <2> HIDE DEF proofs
  <2> QED BY <2>2, <2>3 DEF Opened, Witness
<1>6. ASSUME making.phase = "witness", NEW proof \in making.proofs, NEW p, NEW m, Open(proof, p, m)
      PROVE  Opened'
  <2>1. /\ CanConvolve(proof, p) /\ ConvolveMPC(proof, p, m) = making.commitment
        /\ making' = [making EXCEPT !.opened = @ \cup {<<p, m>>}]
    BY <1>6 DEF Open
  <2>2. making = Witness(making.commitment, making.proofs, making.opened)
    BY <1>6 DEF Opened
  <2>3. making' = Witness(making.commitment, making.proofs, making.opened \cup {<<p, m>>})
    BY <2>1, <2>2 DEF Witness
  <2>4. /\ making'.commitment = making.commitment /\ making'.proofs = making.proofs
        /\ making'.opened = making.opened \cup {<<p, m>>}
    BY <2>3 DEF Witness
  <2>5. ASSUME NEW a \in making.opened \cup {<<p, m>>}
        PROVE  \E q \in making.proofs : /\ CanConvolve(q, a[1])
                                        /\ ConvolveMPC(q, a[1], a[2]) = making.commitment
    <3>1. CASE a \in making.opened
      BY <1>6, <3>1 DEF Opened
    <3>2. CASE a = <<p, m>>
      BY <1>6, <2>1, <3>2
    <3> QED BY <3>1, <3>2
  <2>6. \A q \in making.proofs : Len(q.path) \in Nat
    BY <1>6 DEF Opened
  <2>7. making' = Witness(making'.commitment, making'.proofs, making'.opened)
    BY <2>3, <2>4
  <2>8. \A q \in making'.proofs : Len(q.path) \in Nat
    BY <2>4, <2>6
  <2>9. \A a \in making'.opened : \E q \in making'.proofs :
            CanConvolve(q, a[1]) /\ ConvolveMPC(q, a[1], a[2]) = making'.commitment
    BY <2>4, <2>5
  <2> QED BY <2>7, <2>8, <2>9 DEF Opened, Witness
<1>7. ASSUME NEW spec, EncodeContract(spec) PROVE Opened'
  BY <1>2, <1>7 DEF EncodeContract, Armor
<1>8. CASE DecodeContract \/ Finish
  BY <1>2, <1>8 DEF DecodeContract, Finish, Nothing
<1>9. CASE Others \/ UNCHANGED lifeVars
  BY <1>1, <1>9 DEF Others, lifeVars
<1>10. ASSUME NEW request, Build(request) PROVE Opened'
  BY <1>2, <1>10 DEF Build, Draft
<1>11. ASSUME NEW p, NEW q, Rebuild(p, q) PROVE Opened'
  BY <1>2, <1>11 DEF Rebuild, Draft
<1>12. ASSUME NEW t, NEW i, NEW seal, Reveal(t, i, seal) PROVE Opened'
  BY <1>2, <1>12 DEF Reveal, Draft
<1> QED BY <1>3, <1>4, <1>5, <1>6, <1>7, <1>8, <1>9, <1>10, <1>11, <1>12 DEF LifeNext

LEMMA OpenedOnce == Opened => OneMessagePerProtocol
<1> SUFFICES ASSUME Opened, making.phase = "witness",
                    NEW a \in making.opened, NEW b \in making.opened, a[1] = b[1]
             PROVE  a[2] = b[2]
  BY DEF OneMessagePerProtocol
<1>1. PICK p1 \in making.proofs : /\ CanConvolve(p1, a[1]) /\ Len(p1.path) \in Nat
                                  /\ ConvolveMPC(p1, a[1], a[2]) = making.commitment
  BY DEF Opened
<1>2. PICK p2 \in making.proofs : /\ CanConvolve(p2, a[1]) /\ Len(p2.path) \in Nat
                                  /\ ConvolveMPC(p2, a[1], b[2]) = making.commitment
  BY DEF Opened
<1> QED BY <1>1, <1>2, SameMessage

\* Whoever filled the tree, whatever its depth, cofactor and leaves, and in
\* words of any size: a witness opens for one message of a protocol at most
\* (anchors/mpc.go:58-62).
THEOREM OpensOnce == LifeSpec => []OneMessagePerProtocol
  BY OpenedInit, OpenedNext, OpenedOnce, PTL DEF LifeSpec

-------------------------------------------------------------------------------
(***************************************************************************)
(* Sorting.  An order on a set of values is a set of pairs, so that it can *)
(* be named in a lemma.                                                    *)
(***************************************************************************)
Ordered(R, V) ==
    /\ \A x \in V : <<x, x>> \notin R
    /\ \A x, y, z \in V : <<x, y>> \in R /\ <<y, z>> \in R => <<x, z>> \in R
    /\ \A x, y \in V : <<x, y>> \in R \/ <<y, x>> \in R \/ x = y

\* p puts the values of a list in order.
Sorts(p, list, R) ==
    LET n == Cardinality(DOMAIN list)
    IN  /\ p \in [1 .. n -> DOMAIN list]
        /\ \A i, j \in 1 .. n : i < j => p[i] # p[j] /\ <<list[p[j]], list[p[i]]>> \notin R

\* The places of a list that come no later than place i, ties by place.
UpTo(list, R, i) ==
    {j \in DOMAIN list : <<list[j], list[i]>> \in R \/ (list[j] = list[i] /\ j <= i)}

LEMMA UpToGrows ==
    ASSUME NEW V, NEW R, Ordered(R, V), NEW D \in SUBSET Nat, IsFiniteSet(D),
           NEW list \in [D -> V], NEW i \in D, NEW j \in D, i # j
    PROVE  \/ Cardinality(UpTo(list, R, i)) < Cardinality(UpTo(list, R, j))
           \/ Cardinality(UpTo(list, R, j)) < Cardinality(UpTo(list, R, i))
<1>1. ASSUME NEW a \in D, NEW b \in D, a # b,
             <<list[a], list[b]>> \in R \/ (list[a] = list[b] /\ a <= b)
      PROVE  Cardinality(UpTo(list, R, a)) < Cardinality(UpTo(list, R, b))
  <2> DEFINE A == UpTo(list, R, a)
             B == UpTo(list, R, b)
  <2>1. A \subseteq B
    <3> SUFFICES ASSUME NEW k \in A PROVE k \in B
      OBVIOUS
    <3>1. /\ k \in D /\ k \in Nat /\ a \in Nat /\ b \in Nat
          /\ list[k] \in V /\ list[a] \in V /\ list[b] \in V
          /\ <<list[k], list[a]>> \in R \/ (list[k] = list[a] /\ k <= a)
      BY DEF UpTo
    <3>2. <<list[k], list[b]>> \in R \/ (list[k] = list[b] /\ k <= b)
      BY <1>1, <3>1 DEF Ordered
    <3> QED BY <3>1, <3>2 DEF UpTo
  <2>2. b \in B
    BY DEF UpTo
  <2>3. b \notin A
    <3>1. /\ list[a] \in V /\ list[b] \in V /\ a \in Nat /\ b \in Nat
          /\ <<list[b], list[b]>> \notin R
      BY DEF Ordered
    <3>2. ~(<<list[b], list[a]>> \in R \/ (list[b] = list[a] /\ b <= a))
      BY <1>1, <3>1 DEF Ordered
    <3> QED BY <3>2 DEF UpTo
  <2>4. IsFiniteSet(B)
    BY FS_Subset DEF UpTo
  <2> HIDE DEF A, B
  <2>5. IsFiniteSet(A) /\ Cardinality(A) <= Cardinality(B) /\ Cardinality(A) # Cardinality(B)
    BY <2>1, <2>2, <2>3, <2>4, FS_Subset
  <2>6. Cardinality(A) \in Nat /\ Cardinality(B) \in Nat
    BY <2>4, <2>5, FS_CardinalityType
  <2>7. Cardinality(A) < Cardinality(B)
    BY <2>5, <2>6
  <2> QED BY <2>7 DEF A, B
<1>2. \/ <<list[i], list[j]>> \in R \/ (list[i] = list[j] /\ i <= j)
      \/ <<list[j], list[i]>> \in R \/ (list[j] = list[i] /\ j <= i)
  <2>1. list[i] \in V /\ list[j] \in V /\ i \in Nat /\ j \in Nat
    OBVIOUS
  <2> QED BY <2>1 DEF Ordered
<1> QED BY <1>1, <1>2

\* Every finite list can be sorted: each place goes to its rank.
LEMMA SortExists ==
    ASSUME NEW V, NEW R, Ordered(R, V), NEW D \in SUBSET Nat, IsFiniteSet(D),
           NEW list \in [D -> V]
    PROVE  \E p : Sorts(p, list, R)
<1> DEFINE n == Cardinality(D)
           C(i) == Cardinality(UpTo(list, R, i))
           rank == [i \in D |-> C(i)]
           p == [k \in 1 .. n |-> CHOOSE i \in D : rank[i] = k]
<1>1. n \in Nat /\ IsFiniteSet(1 .. n) /\ Cardinality(1 .. n) = n
  <2>1. n \in Nat
    BY FS_CardinalityType
  <2> HIDE DEF n
  <2> QED BY <2>1, FS_Interval
<1>2. \A i \in D : C(i) \in 1 .. n
  <2> SUFFICES ASSUME NEW i \in D PROVE C(i) \in 1 .. n
    OBVIOUS
  <2>1. UpTo(list, R, i) \in SUBSET D /\ i \in UpTo(list, R, i)
    BY DEF UpTo
  <2>2. IsFiniteSet(UpTo(list, R, i)) /\ C(i) <= n
    BY <2>1, FS_Subset
  <2>3. C(i) \in Nat /\ C(i) # 0
    BY <2>1, <2>2, FS_CardinalityType, FS_EmptySet
  <2> HIDE DEF C, n
  <2> QED BY <1>1, <2>2, <2>3
<1>3. \A i, j \in D : i # j => C(i) # C(j)
  <2> SUFFICES ASSUME NEW i \in D, NEW j \in D, i # j PROVE C(i) # C(j)
    OBVIOUS
  <2>1. C(i) < C(j) \/ C(j) < C(i)
    BY UpToGrows
  <2>2. C(i) \in Nat /\ C(j) \in Nat
    BY <1>1, <1>2
  <2> HIDE DEF C
  <2> QED BY <2>1, <2>2
<1>4. rank \in Injection(D, 1 .. n)
  BY <1>2, <1>3 DEF Injection, IsInjective
<1>5. rank \in Surjection(D, 1 .. n)
  <2> HIDE DEF rank, n
  <2>1. Cardinality(D) = Cardinality(1 .. n)
    BY <1>1 DEF n
  <2> QED BY <1>1, <1>4, <2>1, FS_Injection
<1>6. \A k \in 1 .. n : p[k] \in D /\ rank[p[k]] = k
  BY <1>5 DEF Surjection
<1>7. ASSUME NEW i \in 1 .. n, NEW j \in 1 .. n, i < j
      PROVE  p[i] # p[j] /\ <<list[p[j]], list[p[i]]>> \notin R
  <2>1. p[i] \in D /\ p[j] \in D /\ C(p[i]) = i /\ C(p[j]) = j
    BY <1>6
  <2> HIDE DEF p, rank
  <2>2. p[i] # p[j]
    BY <1>1, <1>7, <2>1
  <2>3. ASSUME <<list[p[j]], list[p[i]]>> \in R PROVE FALSE
    <3>1. UpTo(list, R, p[j]) \subseteq UpTo(list, R, p[i])
      <4> SUFFICES ASSUME NEW k \in UpTo(list, R, p[j]) PROVE k \in UpTo(list, R, p[i])
        OBVIOUS
      <4>1. /\ k \in D /\ list[k] \in V /\ list[p[i]] \in V /\ list[p[j]] \in V
            /\ <<list[k], list[p[j]]>> \in R \/ list[k] = list[p[j]]
        BY <2>1 DEF UpTo
      <4>2. <<list[k], list[p[i]]>> \in R
        BY <2>3, <4>1 DEF Ordered
      <4> QED BY <4>1, <4>2 DEF UpTo
    <3>2. IsFiniteSet(UpTo(list, R, p[i]))
      BY FS_Subset DEF UpTo
    <3>3. C(p[j]) <= C(p[i])
      BY <3>1, <3>2, FS_Subset
    <3> QED BY <1>1, <1>7, <2>1, <3>3
  <2> QED BY <2>2, <2>3
<1>8. p \in [1 .. n -> D]
  BY <1>6
<1>9. Sorts(p, list, R)
  <2> HIDE DEF p, rank
  <2> QED BY <1>7, <1>8 DEF Sorts
<1> QED BY <1>9

\* What sorts a list reaches every place once.
LEMMA SortsAll ==
    ASSUME NEW R, NEW list, NEW p, IsFiniteSet(DOMAIN list), Sorts(p, list, R)
    PROVE  /\ Cardinality(DOMAIN list) \in Nat
           /\ p \in Bijection(1 .. Cardinality(DOMAIN list), DOMAIN list)
<1> DEFINE n == Cardinality(DOMAIN list)
<1>1. n \in Nat /\ IsFiniteSet(1 .. n) /\ Cardinality(1 .. n) = n
  <2>1. n \in Nat
    BY FS_CardinalityType
  <2> HIDE DEF n
  <2> QED BY <2>1, FS_Interval
<1>2. p \in [1 .. n -> DOMAIN list] /\ \A i, j \in 1 .. n : i < j => p[i] # p[j]
  BY DEF Sorts
<1>3. \A i, j \in 1 .. n : p[i] = p[j] => i = j
  <2> HIDE DEF n
  <2> SUFFICES ASSUME NEW i \in 1 .. n, NEW j \in 1 .. n, p[i] = p[j], i # j PROVE FALSE
    OBVIOUS
  <2>1. i < j \/ j < i
    BY <1>1
  <2> QED BY <1>2, <2>1
<1>4. p \in Injection(1 .. n, DOMAIN list)
  BY <1>2, <1>3 DEF Injection, IsInjective
<1>5. p \in Surjection(1 .. n, DOMAIN list)
  BY <1>1, <1>4, FS_Injection
<1> QED BY <1>1, <1>4, <1>5 DEF Bijection

\* Two lists that ascend strictly and have the same values are the same.
LEMMA SortedSame ==
    ASSUME NEW V, NEW R, Ordered(R, V), NEW n \in Nat, NEW m \in Nat,
           NEW s \in [1 .. n -> V], NEW t \in [1 .. m -> V],
           \A i, j \in 1 .. n : i < j => <<s[i], s[j]>> \in R,
           \A i, j \in 1 .. m : i < j => <<t[i], t[j]>> \in R,
           {s[i] : i \in 1 .. n} = {t[i] : i \in 1 .. m}
    PROVE  s = t
<1>1. ASSUME NEW k \in Nat, NEW u \in [1 .. k -> V],
             \A i, j \in 1 .. k : i < j => <<u[i], u[j]>> \in R
      PROVE  Cardinality({u[i] : i \in 1 .. k}) = k
  <2> DEFINE T == {u[i] : i \in 1 .. k}
  <2>1. \A i, j \in 1 .. k : u[i] = u[j] => i = j
    <3> SUFFICES ASSUME NEW i \in 1 .. k, NEW j \in 1 .. k, u[i] = u[j], i # j PROVE FALSE
      OBVIOUS
    <3>1. i < j \/ j < i
      OBVIOUS
    <3>2. <<u[i], u[j]>> \in R \/ <<u[j], u[i]>> \in R
      BY <1>1, <3>1
    <3> QED BY <3>2 DEF Ordered
  <2>2. u \in [1 .. k -> T] /\ \A x \in T : \E i \in 1 .. k : u[i] = x
    OBVIOUS
  <2> HIDE DEF T
  <2>3. u \in Bijection(1 .. k, T)
    BY <2>1, <2>2 DEF Bijection, Injection, IsInjective, Surjection
  <2>4. ExistsBijection(1 .. k, T)
    BY <2>3 DEF ExistsBijection
  <2>5. Cardinality(T) = k
    BY <2>4, FS_CountingElements
  <2> QED BY <2>5 DEF T
<1>2. n = m
  <2>1. Cardinality({s[i] : i \in 1 .. n}) = n
    BY <1>1
  <2>2. Cardinality({t[i] : i \in 1 .. m}) = m
    BY <1>1
  <2> QED BY <2>1, <2>2
<1> DEFINE Bad == {k \in 1 .. n : s[k] # t[k]}
<1>3. ASSUME NEW k \in Bad, \A b \in Bad : k <= b PROVE FALSE
  <2>1. k \in 1 .. n /\ s[k] # t[k] /\ \A a \in 1 .. n : a < k => s[a] = t[a]
    BY <1>3
  <2>2. PICK a \in 1 .. n : s[k] = t[a]
    BY <1>2, <2>1
  <2>3. PICK b \in 1 .. n : t[k] = s[b]
    BY <1>2, <2>1
  <2>4. ~(a < k) /\ a # k
    <3>1. ASSUME a < k PROVE FALSE
      <4>1. s[a] = s[k] /\ <<s[a], s[k]>> \in R
        BY <2>1, <2>2, <3>1
      <4> QED BY <2>1, <4>1 DEF Ordered
    <3> QED BY <2>1, <2>2, <3>1
  <2>5. ~(b < k) /\ b # k
    <3>1. ASSUME b < k PROVE FALSE
      <4>1. t[b] = t[k] /\ <<t[b], t[k]>> \in R
        BY <1>2, <2>1, <2>3, <3>1
      <4> QED BY <1>2, <2>1, <4>1 DEF Ordered
    <3> QED BY <2>1, <2>3, <3>1
  <2>6. k < a /\ k < b
    BY <2>1, <2>4, <2>5
  <2>7. <<t[k], s[k]>> \in R /\ <<s[k], t[k]>> \in R
    BY <1>2, <2>1, <2>2, <2>3, <2>6
  <2>8. s[k] \in V /\ t[k] \in V
    BY <1>2, <2>1
  <2> QED BY <2>7, <2>8 DEF Ordered
<1>4. Bad = {}
  <2> SUFFICES ASSUME Bad # {} PROVE FALSE
    OBVIOUS
  <2>1. Bad \in SUBSET Nat
    OBVIOUS
  <2> HIDE DEF Bad
  <2>2. PICK k \in Bad : \A b \in Bad : k <= b
    BY <2>1, LeastNatural
  <2> QED BY <1>3, <2>2
<1> QED BY <1>2, <1>4

-------------------------------------------------------------------------------
(***************************************************************************)
(* The two orders of the builder.                                          *)
(***************************************************************************)
Opout == [op : Nat, type : Nat, no : Nat]
InputOrder == {x \in Opout \X Opout : CompareOpout(x[1], x[2])}

Encoding == ({0} \X GraphSeal \X Int) \cup ({1} \X Nat \X Int)
OutputOrder == {x \in Encoding \X Encoding : EncodedBefore(x[1], x[2])}

LEMMA InputsOrdered == Ordered(InputOrder, Opout)
<1>1. \A r, s \in Opout : <<r, s>> \in InputOrder <=> CompareOpout(r, s)
  BY DEF InputOrder
<1>2. \A r \in Opout : r.op \in Nat /\ r.type \in Nat /\ r.no \in Nat
  BY DEF Opout
<1>3. \A r, s \in Opout : r.op = s.op /\ r.type = s.type /\ r.no = s.no => r = s
  BY DEF Opout
<1>4. \A r \in Opout : ~CompareOpout(r, r)
  BY <1>2 DEF CompareOpout
<1>5. \A r, s, t \in Opout : CompareOpout(r, s) /\ CompareOpout(s, t) => CompareOpout(r, t)
  BY <1>2 DEF CompareOpout
<1>6. \A r, s \in Opout : CompareOpout(r, s) \/ CompareOpout(s, r) \/ r = s
  BY <1>2, <1>3 DEF CompareOpout
<1> QED BY <1>1, <1>4, <1>5, <1>6 DEF Ordered

LEMMA OutputsOrdered == Ordered(OutputOrder, Encoding)
<1>1. \A x, y \in Encoding : <<x, y>> \in OutputOrder <=> EncodedBefore(x, y)
  BY DEF OutputOrder
<1>2. \A x \in Encoding : x[1] \in Int /\ x[2] \in Int /\ x[3] \in Int
  <2>1. \A seal \in GraphSeal : seal \in Int
    BY SealAssumption
  <2>2. \A x \in {0} \X GraphSeal \X Int : x[1] \in Int /\ x[2] \in Int /\ x[3] \in Int
    BY <2>1
  <2>3. \A x \in {1} \X Nat \X Int : x[1] \in Int /\ x[2] \in Int /\ x[3] \in Int
    OBVIOUS
  <2> QED BY <2>2, <2>3 DEF Encoding
<1>3. \A x, y \in Encoding : x[1] = y[1] /\ x[2] = y[2] /\ x[3] = y[3] => x = y
  BY DEF Encoding
<1>4. \A x \in Encoding : ~EncodedBefore(x, x)
  BY <1>2 DEF EncodedBefore
<1>5. \A x, y, z \in Encoding : EncodedBefore(x, y) /\ EncodedBefore(y, z) => EncodedBefore(x, z)
  BY <1>2 DEF EncodedBefore
<1>6. \A x, y \in Encoding : EncodedBefore(x, y) \/ EncodedBefore(y, x) \/ x = y
  BY <1>2, <1>3 DEF EncodedBefore
<1> QED BY <1>1, <1>4, <1>5, <1>6 DEF Ordered

FiniteList(list, V) ==
    DOMAIN list \in SUBSET Nat /\ IsFiniteSet(DOMAIN list) /\ list \in [DOMAIN list -> V]

\* A sorted list: the values of another, in order.
SortOf(s, list, R) ==
    \E p : Sorts(p, list, R) /\ s = [i \in 1 .. Cardinality(DOMAIN list) |-> list[p[i]]]

LEMMA InputsSorted ==
    ASSUME NEW list, FiniteList(list, Opout)
    PROVE  SortOf(SortedInputs(list), list, InputOrder)
<1> DEFINE n == Cardinality(DOMAIN list)
           Puts(p) == \A i, j \in 1 .. n :
                          i < j => p[i] # p[j] /\ ~CompareOpout(list[p[j]], list[p[i]])
           p == CHOOSE p \in [1 .. n -> DOMAIN list] : Puts(p)
<1>0. DOMAIN list \in SUBSET Nat /\ IsFiniteSet(DOMAIN list) /\ list \in [DOMAIN list -> Opout]
  BY DEF FiniteList
<1>1. \A q \in [1 .. n -> DOMAIN list] : Puts(q) <=> Sorts(q, list, InputOrder)
  <2> SUFFICES ASSUME NEW q \in [1 .. n -> DOMAIN list]
               PROVE  Puts(q) <=> Sorts(q, list, InputOrder)
    OBVIOUS
  <2>1. \A i \in 1 .. n : list[q[i]] \in Opout
    BY <1>0
  <2>2. \A i, j \in 1 .. n : CompareOpout(list[q[j]], list[q[i]])
                                 <=> <<list[q[j]], list[q[i]]>> \in InputOrder
    BY <2>1 DEF InputOrder
  <2> QED BY <2>2 DEF Sorts
<1>2. \E q \in [1 .. n -> DOMAIN list] : Puts(q)
  <2>1. PICK q : Sorts(q, list, InputOrder)
    BY <1>0, SortExists, InputsOrdered
  <2>2. q \in [1 .. n -> DOMAIN list]
    BY <2>1 DEF Sorts
  <2> HIDE DEF Puts, n
  <2> QED BY <1>1, <2>1, <2>2
<1>3. SortedInputs(list) = [i \in 1 .. n |-> list[p[i]]]
  BY DEF SortedInputs, Sorted
<1>4. p \in [1 .. n -> DOMAIN list] /\ Puts(p)
  <2> HIDE DEF Puts, n
  <2> QED BY <1>2
<1>5. Sorts(p, list, InputOrder)
  <2> HIDE DEF Puts, n, p
  <2> QED BY <1>1, <1>4
<1> HIDE DEF p
<1> QED BY <1>3, <1>5 DEF SortOf

LEMMA OutputsSorted ==
    ASSUME NEW request, NEW type, FiniteList(Group(request, type), Encoding)
    PROVE  SortOf(SortedGroup(request, type), Group(request, type), OutputOrder)
<1> DEFINE list == Group(request, type)
           n == Cardinality(DOMAIN list)
           Puts(p) == \A i, j \in 1 .. n :
                          i < j => p[i] # p[j] /\ ~EncodedBefore(list[p[j]], list[p[i]])
           p == CHOOSE p \in [1 .. n -> DOMAIN list] : Puts(p)
<1>1. SortedGroup(request, type) = [i \in 1 .. n |-> list[p[i]]]
  BY DEF SortedGroup, Sorted
<1> HIDE DEF list
<1>2. DOMAIN list \in SUBSET Nat /\ IsFiniteSet(DOMAIN list) /\ list \in [DOMAIN list -> Encoding]
  BY DEF list, FiniteList
<1>3. \A q \in [1 .. n -> DOMAIN list] : Puts(q) <=> Sorts(q, list, OutputOrder)
  <2> SUFFICES ASSUME NEW q \in [1 .. n -> DOMAIN list]
               PROVE  Puts(q) <=> Sorts(q, list, OutputOrder)
    OBVIOUS
  <2>1. \A i \in 1 .. n : list[q[i]] \in Encoding
    BY <1>2
  <2>2. \A i, j \in 1 .. n : EncodedBefore(list[q[j]], list[q[i]])
                                 <=> <<list[q[j]], list[q[i]]>> \in OutputOrder
    BY <2>1 DEF OutputOrder
  <2> QED BY <2>2 DEF Sorts
<1>4. \E q \in [1 .. n -> DOMAIN list] : Puts(q)
  <2>1. PICK q : Sorts(q, list, OutputOrder)
    BY <1>2, SortExists, OutputsOrdered
  <2>2. q \in [1 .. n -> DOMAIN list]
    BY <2>1 DEF Sorts
  <2> HIDE DEF Puts, n
  <2> QED BY <1>3, <2>1, <2>2
<1>5. p \in [1 .. n -> DOMAIN list] /\ Puts(p)
  <2> HIDE DEF Puts, n
  <2> QED BY <1>4
<1>6. Sorts(p, list, OutputOrder)
  <2> HIDE DEF Puts, n, p
  <2> QED BY <1>3, <1>5
<1> HIDE DEF p
<1> QED BY <1>1, <1>6 DEF SortOf, list

Ascending(s, list, V, R) ==
    LET n == Cardinality(DOMAIN list)
    IN  /\ n \in Nat /\ s \in [1 .. n -> V]
        /\ \A i, j \in 1 .. n : i < j => <<s[i], s[j]>> \in R
        /\ {s[i] : i \in DOMAIN s} = {list[i] : i \in DOMAIN list}

\* Without repeats, a sorted list ascends and has the values of the other.
LEMMA Ascends ==
    ASSUME NEW V, NEW R, Ordered(R, V), NEW list, FiniteList(list, V),
           NEW s, SortOf(s, list, R), NoRepeat(s)
    PROVE  Ascending(s, list, V, R)
<1> DEFINE D == DOMAIN list
           n == Cardinality(D)
<1>0. D \in SUBSET Nat /\ IsFiniteSet(D) /\ list \in [D -> V]
  BY DEF FiniteList
<1>1. PICK p : Sorts(p, list, R) /\ s = [i \in 1 .. n |-> list[p[i]]]
  BY DEF SortOf
<1>2. n \in Nat /\ p \in Bijection(1 .. n, D)
  BY <1>0, <1>1, SortsAll
<1>3. \A i, j \in 1 .. n : i < j => <<list[p[j]], list[p[i]]>> \notin R
  BY <1>1 DEF Sorts
<1> HIDE DEF n, D
<1>4. p \in [1 .. n -> D] /\ \A x \in D : \E i \in 1 .. n : p[i] = x
  BY <1>2 DEF Bijection, Injection, Surjection
<1>5. s \in [1 .. n -> V]
  BY <1>0, <1>1, <1>4
<1>6. {s[i] : i \in DOMAIN s} = {list[i] : i \in D}
  BY <1>1, <1>4
<1>7. \A i, j \in 1 .. n : i < j => <<s[j], s[i]>> \notin R
  BY <1>1, <1>3
<1>8. ASSUME NEW i \in 1 .. n, NEW j \in 1 .. n, i < j PROVE <<s[i], s[j]>> \in R
  <2>1. s[i] \in V /\ s[j] \in V
    BY <1>5
  <2>2. ASSUME s[i] = s[j] PROVE FALSE
    <3>1. i + 1 \in 1 .. n /\ i < i + 1 /\ (i + 1 = j \/ i + 1 < j)
      BY <1>2, <1>8
    <3>2. s[i + 1] # s[i]
      <4>1. i + 1 \in DOMAIN s /\ i + 1 > 1 /\ (i + 1) - 1 = i
        BY <1>2, <1>5, <3>1
      <4> QED BY <4>1 DEF NoRepeat
    <3>3. s[i + 1] \in V /\ <<s[i + 1], s[i]>> \notin R
      BY <1>5, <1>7, <3>1
    <3>4. <<s[i], s[i + 1]>> \in R
      BY <2>1, <3>2, <3>3 DEF Ordered
    <3>5. i + 1 < j
      BY <2>2, <3>1, <3>2
    <3>6. <<s[j], s[i + 1]>> \notin R
      BY <1>7, <3>1, <3>5
    <3> QED BY <2>2, <3>4, <3>6
  <2> QED BY <1>7, <1>8, <2>1, <2>2 DEF Ordered
<1> QED BY <1>2, <1>5, <1>6, <1>8 DEF n, D, Ascending

\* Lists of the same values, without repeats, are the same when sorted.
LEMMA SameSorted ==
    ASSUME NEW V, NEW R, Ordered(R, V),
           NEW a, FiniteList(a, V), NEW s, SortOf(s, a, R), NoRepeat(s),
           NEW b, FiniteList(b, V), NEW t, SortOf(t, b, R), NoRepeat(t),
           {a[i] : i \in DOMAIN a} = {b[i] : i \in DOMAIN b}
    PROVE  s = t
<1>1. Ascending(s, a, V, R) /\ Ascending(t, b, V, R)
  BY Ascends
<1> DEFINE n == Cardinality(DOMAIN a)
           m == Cardinality(DOMAIN b)
<1>2. /\ n \in Nat /\ s \in [1 .. n -> V]
      /\ m \in Nat /\ t \in [1 .. m -> V]
      /\ \A i, j \in 1 .. n : i < j => <<s[i], s[j]>> \in R
      /\ \A i, j \in 1 .. m : i < j => <<t[i], t[j]>> \in R
      /\ {s[i] : i \in DOMAIN s} = {t[i] : i \in DOMAIN t}
  BY <1>1 DEF Ascending
<1> HIDE DEF n, m
<1>3. {s[i] : i \in 1 .. n} = {t[i] : i \in 1 .. m}
  BY <1>2
<1> QED BY <1>2, <1>3, SortedSame

-------------------------------------------------------------------------------
(***************************************************************************)
(* Sums over the places of a list do not depend on the order.              *)
(***************************************************************************)
LEMMA SumIsUnits ==
    ASSUME NEW f, IsFiniteSet(DOMAIN f), \A i \in DOMAIN f : f[i] \in Nat
    PROVE  SumOf(f) = Cardinality(Units(f, DOMAIN f))
<1> DEFINE S == DOMAIN f
           Step(it) == [s \in SUBSET S |->
                          IF s = {} THEN 0
                          ELSE f[CHOOSE x \in s : TRUE] + it[s \ {CHOOSE x \in s : TRUE}]]
           chosen == CHOOSE it : it = Step(it)
<1>1. SumOf(f) = chosen[S]
  BY DEF SumOf, MapThenSumSet, MapThenFoldSet
<1>2. \A it : it = Step(it) <=> Summing(it, f, S)
  BY DEF Summing
<1>3. \E it : it = Step(it)
  <2> HIDE DEF Step
  <2>1. \E it : Summing(it, f, S)
    BY UnitsSum
  <2> QED BY <1>2, <2>1
<1>4. Summing(chosen, f, S)
  <2>1. chosen = Step(chosen)
    <3> HIDE DEF Step
    <3> QED BY <1>3
  <2> QED BY <1>2, <2>1
<1> HIDE DEF chosen
<1> QED BY <1>1, <1>4, SumIsCounted

LEMMA SumMoves ==
    ASSUME NEW f, IsFiniteSet(DOMAIN f), \A i \in DOMAIN f : f[i] \in Nat,
           NEW g, IsFiniteSet(DOMAIN g), NEW h \in Bijection(DOMAIN g, DOMAIN f),
           \A i \in DOMAIN g : g[i] = f[h[i]]
    PROVE  SumOf(g) = SumOf(f)
<1> DEFINE A == Units(g, DOMAIN g)
           B == Units(f, DOMAIN f)
           move == [u \in A |-> <<h[u[1]], u[2]>>]
<1>1. /\ h \in [DOMAIN g -> DOMAIN f]
      /\ \A i, j \in DOMAIN g : h[i] = h[j] => i = j
      /\ \A x \in DOMAIN f : \E i \in DOMAIN g : h[i] = x
  BY DEF Bijection, Injection, IsInjective, Surjection
<1>2. \A i \in DOMAIN g : g[i] \in Nat
  BY <1>1
<1>3. \A u \in A : u = <<u[1], u[2]>> /\ u[1] \in DOMAIN g /\ u[2] \in Nat /\ u[2] \in 1 .. g[u[1]]
  BY DEF Units
<1>4. move \in [A -> B]
  <2> SUFFICES ASSUME NEW u \in A PROVE <<h[u[1]], u[2]>> \in B
    OBVIOUS
  <2>1. h[u[1]] \in DOMAIN f /\ u[2] \in Nat /\ u[2] \in 1 .. f[h[u[1]]]
    BY <1>1, <1>3
  <2> QED BY <2>1 DEF Units
<1>5. \A u, v \in A : move[u] = move[v] => u = v
  BY <1>1, <1>3
<1>6. \A w \in B : \E u \in A : move[u] = w
  <2> SUFFICES ASSUME NEW w \in B PROVE \E u \in A : move[u] = w
    OBVIOUS
  <2>1. w = <<w[1], w[2]>> /\ w[1] \in DOMAIN f /\ w[2] \in Nat /\ w[2] \in 1 .. f[w[1]]
    BY DEF Units
  <2>2. PICK i \in DOMAIN g : h[i] = w[1]
    BY <1>1, <2>1
  <2>3. <<i, w[2]>> \in A
    BY <2>1, <2>2 DEF Units
  <2>4. move[<<i, w[2]>>] = w
    BY <2>1, <2>2, <2>3
  <2> QED BY <2>3, <2>4
<1>7. IsFiniteSet(A)
  BY <1>2, UnitsFinite
<1> HIDE DEF A, B, move
<1>8. ExistsBijection(A, B)
  <2>1. move \in Bijection(A, B)
    BY <1>4, <1>5, <1>6 DEF Bijection, Injection, IsInjective, Surjection
  <2> QED BY <2>1 DEF ExistsBijection
<1>9. Cardinality(A) = Cardinality(B)
  BY <1>7, <1>8, FS_Bijection
<1>10. SumOf(f) = Cardinality(B)
  BY SumIsUnits DEF B
<1>11. SumOf(g) = Cardinality(A)
  BY <1>2, SumIsUnits DEF A
<1> QED BY <1>9, <1>10, <1>11

\* What a sorted list of inputs consumes is what the list consumes.
\* A sorted list has the values of the other, and no more.
LEMMA SortedHasAll ==
    ASSUME NEW list, IsFiniteSet(DOMAIN list), NEW R, NEW s, SortOf(s, list, R)
    PROVE  /\ \A k \in DOMAIN s : \E i \in DOMAIN list : s[k] = list[i]
           /\ \A i \in DOMAIN list : \E k \in DOMAIN s : s[k] = list[i]
<1> DEFINE n == Cardinality(DOMAIN list)
<1>1. PICK p : Sorts(p, list, R) /\ s = [i \in 1 .. n |-> list[p[i]]]
  BY DEF SortOf
<1>2. n \in Nat /\ p \in Bijection(1 .. n, DOMAIN list)
  BY <1>1, SortsAll
<1> HIDE DEF n
<1>3. \A i \in DOMAIN list : \E k \in 1 .. n : p[k] = i
  BY <1>2 DEF Bijection, Surjection
<1>4. \A k \in 1 .. n : p[k] \in DOMAIN list
  BY <1>2 DEF Bijection, Injection
<1> QED BY <1>1, <1>3, <1>4

LEMMA InputsWorthTheSame ==
    ASSUME NEW list, FiniteList(list, Opout), NEW type,
           \A i \in DOMAIN list : AmountOf(list[i]) \in Nat,
           NEW s, SortOf(s, list, InputOrder)
    PROVE  InputSum(s, type) = InputSum(list, type)
<1> DEFINE n == Cardinality(DOMAIN list)
           f == [i \in OfType(list, type) |-> AmountOf(list[i])]
           g == [i \in OfType(s, type) |-> AmountOf(s[i])]
<1>1. IsFiniteSet(DOMAIN list)
  BY DEF FiniteList
<1>2. PICK p : Sorts(p, list, InputOrder) /\ s = [i \in 1 .. n |-> list[p[i]]]
  BY DEF SortOf
<1>3. n \in Nat /\ p \in Bijection(1 .. n, DOMAIN list)
  BY <1>1, <1>2, SortsAll
<1> HIDE DEF n
<1>4. /\ p \in [1 .. n -> DOMAIN list]
      /\ \A i, j \in 1 .. n : p[i] = p[j] => i = j
      /\ \A x \in DOMAIN list : \E i \in 1 .. n : p[i] = x
  BY <1>3 DEF Bijection, Injection, IsInjective, Surjection
<1> DEFINE h == [i \in OfType(s, type) |-> p[i]]
<1>5. h \in [OfType(s, type) -> OfType(list, type)]
  BY <1>2, <1>4 DEF OfType
<1>6. \A i, j \in OfType(s, type) : h[i] = h[j] => i = j
  BY <1>2, <1>4 DEF OfType
<1>7. \A x \in OfType(list, type) : \E i \in OfType(s, type) : h[i] = x
  BY <1>2, <1>4 DEF OfType
<1>8. h \in Bijection(OfType(s, type), OfType(list, type))
  <2> HIDE DEF h
  <2> QED BY <1>5, <1>6, <1>7 DEF Bijection, Injection, IsInjective, Surjection
<1>9. IsFiniteSet(OfType(list, type)) /\ IsFiniteSet(OfType(s, type))
  <2>1. IsFiniteSet(1 .. n)
    BY <1>3, FS_Interval
  <2>2. OfType(s, type) \in SUBSET (1 .. n) /\ OfType(list, type) \in SUBSET (DOMAIN list)
    BY <1>2 DEF OfType
  <2> QED BY <1>1, <2>1, <2>2, FS_Subset
<1>10. \A i \in OfType(s, type) : g[i] = f[h[i]]
  BY <1>2, <1>4, <1>5 DEF OfType
<1>11. /\ DOMAIN f = OfType(list, type) /\ DOMAIN g = OfType(s, type)
       /\ \A i \in DOMAIN f : f[i] \in Nat
  BY DEF OfType
<1> HIDE DEF f, g, h
<1>12. SumOf(g) = SumOf(f)
  BY <1>8, <1>9, <1>10, <1>11, SumMoves
<1> QED BY <1>12 DEF InputSum, f, g

\* Encoding keeps amounts, and sorting keeps their sum.
LEMMA OutputsWorthTheSame ==
    ASSUME NEW request, NEW type, FiniteList(Group(request, type), Encoding),
           \A i \in OfType(request.outputs, type) :
               /\ request.outputs[i].amount \in Nat
               /\ request.outputs[i].class = "fungible"
    PROVE  EncodedSum(SortedGroup(request, type)) = OutputSum(request.outputs, type)
<1> DEFINE list == Group(request, type)
           own == OfType(request.outputs, type)
           s == SortedGroup(request, type)
           n == Cardinality(DOMAIN list)
           f == [i \in own |-> request.outputs[i].amount]
           g == [i \in DOMAIN s |-> s[i][3]]
<1>1. IsFiniteSet(DOMAIN list)
  BY DEF FiniteList
<1>2. DOMAIN list = own /\ \A i \in own : list[i][3] = request.outputs[i].amount
  BY DEF Group, EncodeOutput, State
<1>3. SortOf(s, list, OutputOrder)
  BY OutputsSorted
<1> HIDE DEF list, s
<1>4. PICK p : Sorts(p, list, OutputOrder) /\ s = [i \in 1 .. n |-> list[p[i]]]
  BY <1>3 DEF SortOf
<1>5. n \in Nat /\ p \in Bijection(1 .. n, own)
  BY <1>1, <1>2, <1>4, SortsAll
<1> HIDE DEF n, own
<1>6. DOMAIN s = 1 .. n /\ p \in [1 .. n -> own]
  BY <1>4, <1>5 DEF Bijection, Injection
<1>7. DOMAIN f = own /\ DOMAIN g = 1 .. n
  BY <1>6
<1>8. \A i \in DOMAIN g : g[i] = f[p[i]]
  BY <1>2, <1>4, <1>6
<1>9. \A i \in DOMAIN f : f[i] \in Nat
  BY DEF own
<1>10. IsFiniteSet(1 .. n) /\ IsFiniteSet(own)
  BY <1>1, <1>2, <1>5, FS_Interval
<1> HIDE DEF f, g
<1>11. SumOf(g) = SumOf(f)
  BY <1>5, <1>7, <1>8, <1>9, <1>10, SumMoves
<1> QED BY <1>11 DEF EncodedSum, OutputSum, f, g, s, own

-------------------------------------------------------------------------------
(***************************************************************************)
(* What is on the desk while an operation is made.                         *)
(***************************************************************************)
\* What the wallet holds is a finite set of assignments.
Holds == /\ genesis.asset \in SUBSET Allocation /\ IsFiniteSet(genesis.asset)
         /\ genesis.inflation \in SUBSET Allocation /\ IsFiniteSet(genesis.inflation)

LEMMA HoldsInit == LifeInit => Holds
  BY FS_EmptySet DEF LifeInit, Holds, NoGenesis

LEMMA HoldsNext == ASSUME Holds, [LifeNext]_lifeVars PROVE Holds'
<1>1. ASSUME NEW spec \in Specs, EncodeContract(spec) PROVE Holds'
  <2>1. spec \in IssueSpec /\ IsFiniteSet(spec.allocations) /\ IsFiniteSet(spec.rights)
    BY LifeAssumption
  <2>2. spec.allocations \in SUBSET Allocation /\ spec.rights \in SUBSET Allocation
    BY <2>1 DEF IssueSpec
  <2>3. genesis' = Issued(spec)
    BY <1>1 DEF EncodeContract
  <2> QED BY <2>1, <2>2, <2>3, FS_EmptySet DEF Holds, Issued
<1>2. CASE genesis' = NoGenesis
  BY <1>2, FS_EmptySet DEF Holds, NoGenesis
<1>3. CASE genesis' = genesis
  BY <1>3 DEF Holds
<1>4. DecodeContract \/ Others \/ StartWitness => genesis' \in {genesis, NoGenesis}
  BY DEF DecodeContract, Others, StartWitness
<1> QED BY <1>1, <1>2, <1>3, <1>4, LifeSteps

LEMMA HeldTyped ==
    ASSUME Holds, NEW r \in Held
    PROVE  r \in Opout /\ AmountOf(r) \in Nat
<1>1. \A list, a : list \in {genesis.asset, genesis.inflation} => IndexOf(list, a) \in Nat
  <2> SUFFICES ASSUME NEW list \in {genesis.asset, genesis.inflation}, NEW a
               PROVE  IndexOf(list, a) \in Nat
    OBVIOUS
  <2> DEFINE B == {b \in list : Conceal[b.seal] < Conceal[a.seal]}
  <2>1. B \in SUBSET list /\ IsFiniteSet(list)
    BY DEF Holds
  <2> HIDE DEF B
  <2>2. IsFiniteSet(B)
    BY <2>1, FS_Subset
  <2>3. Cardinality(B) \in Nat
    BY <2>2, FS_CardinalityType
  <2> QED BY <2>3 DEF B, IndexOf
<1>2. PICK type \in AssignmentTypes : \E a \in ListOf(type) : r = RefOf(type, a)
  BY DEF Held, ListOf, AssignmentTypes, Asset, Inflation
<1>3. ListOf(type) \in {genesis.asset, genesis.inflation} /\ type \in Nat
  BY DEF ListOf, AssignmentTypes, Asset, Inflation
<1>4. r \in Opout /\ r.type = type
  BY <1>1, <1>2, <1>3 DEF RefOf, Opout
<1> DEFINE b == CHOOSE b \in ListOf(type) : RefOf(type, b) = r
<1>5. b \in ListOf(type)
  BY <1>2
<1>6. AmountOf(r) = b.amount
  BY <1>4 DEF AmountOf
<1>7. b \in Allocation
  BY <1>3, <1>5 DEF Holds
<1>8. b.amount \in Nat
  BY <1>7, SchemaAssumption DEF Allocation, Amount
<1> QED BY <1>4, <1>6, <1>8

\* A request with the fields and the lists that the wallet gives it.
Asked(r) ==
    /\ r = [type |-> r.type, inputs |-> r.inputs, outputs |-> r.outputs,
            signature |-> r.signature, fits |-> r.fits,
            globals |-> r.globals, metadata |-> r.metadata]
    /\ r.inputs \in Seq(Held)
    /\ r.outputs \in Seq(OutputSpec)

LEMMA RequestsAsked == ASSUME NEW r \in Requests PROVE Asked(r)
<1>1. PICK type \in TransitionType, in \in InputLists, out \in OutputLists,
           signature \in Signature, fits \in BOOLEAN :
        r = [type |-> type, inputs |-> in, outputs |-> out, signature |-> signature,
             fits |-> fits,
             globals  |-> DeclaredGlobals(type, RequestTotals(out)),
             metadata |-> DeclaredMetadata(type, InputTotals(in), RequestTotals(out))]
  BY DEF Requests
<1>2. in \in Seq(Held)
  <2>1. PICK n \in 1 .. 2 : in \in [1 .. n -> Held]
    BY DEF InputLists
  <2> QED BY <2>1
<1>3. out \in Seq(OutputSpec)
  BY LifeAssumption
<1> QED BY <1>1, <1>2, <1>3 DEF Asked

LEMMA InputsFinite ==
    ASSUME Holds, NEW r, Asked(r)
    PROVE  /\ FiniteList(r.inputs, Opout)
           /\ \A i \in DOMAIN r.inputs : AmountOf(r.inputs[i]) \in Nat
<1>1. r.inputs \in Seq(Held)
  BY DEF Asked
<1>2. DOMAIN r.inputs = 1 .. Len(r.inputs) /\ Len(r.inputs) \in Nat
  BY <1>1
<1>3. IsFiniteSet(DOMAIN r.inputs)
  BY <1>2, FS_Interval
<1>4. \A i \in DOMAIN r.inputs : r.inputs[i] \in Held
  BY <1>1
<1>5. \A i \in DOMAIN r.inputs : r.inputs[i] \in Opout /\ AmountOf(r.inputs[i]) \in Nat
  BY <1>4, HeldTyped
<1>6. r.inputs \in [DOMAIN r.inputs -> Opout]
  BY <1>1, <1>5
<1> QED BY <1>2, <1>3, <1>5, <1>6 DEF FiniteList

LEMMA OutputsTyped ==
    ASSUME NEW r, Asked(r)
    PROVE  /\ DOMAIN r.outputs \in SUBSET Nat /\ IsFiniteSet(DOMAIN r.outputs)
           /\ \A i \in DOMAIN r.outputs : r.outputs[i] \in OutputSpec
<1>1. r.outputs \in Seq(OutputSpec)
  BY DEF Asked
<1>2. DOMAIN r.outputs = 1 .. Len(r.outputs) /\ Len(r.outputs) \in Nat
  BY <1>1
<1>3. IsFiniteSet(DOMAIN r.outputs)
  BY <1>2, FS_Interval
<1> QED BY <1>1, <1>2, <1>3

LEMMA EncodingTyped == ASSUME NEW o \in OutputSpec PROVE EncodeOutput(o) \in Encoding
<1>1. o.amount \in Int /\ o.secret \in Nat /\ o.revealed \in GraphSeal \cup {0}
  BY SchemaAssumption DEF OutputSpec, Amount
<1>2. State(o) \in Int
  BY <1>1 DEF State, Void
<1> QED BY <1>1, <1>2 DEF EncodeOutput, Encoding

LEMMA GroupFinite ==
    ASSUME NEW r, Asked(r), NEW t
    PROVE  FiniteList(Group(r, t), Encoding)
<1> DEFINE own == OfType(r.outputs, t)
<1>1. own \in SUBSET (DOMAIN r.outputs) /\ own \in SUBSET Nat /\ IsFiniteSet(own)
  <2>1. own \in SUBSET (DOMAIN r.outputs)
    BY DEF OfType
  <2> HIDE DEF own
  <2> QED BY <2>1, OutputsTyped, FS_Subset
<1>2. \A i \in own : EncodeOutput(r.outputs[i]) \in Encoding
  BY <1>1, OutputsTyped, EncodingTyped
<1> HIDE DEF own
<1>3. DOMAIN [i \in own |-> EncodeOutput(r.outputs[i])] = own
  OBVIOUS
<1>4. [i \in own |-> EncodeOutput(r.outputs[i])] \in [own -> Encoding]
  BY <1>2
<1>5. FiniteList([i \in own |-> EncodeOutput(r.outputs[i])], Encoding)
  BY <1>1, <1>3, <1>4 DEF FiniteList
<1> QED BY <1>5 DEF Group, own

\* The canonical lists of an operation that can be built.
LEMMA Canonical ==
    ASSUME Holds, NEW r, Asked(r), CanBuild(r)
    PROVE  /\ SortOf(SortedInputs(r.inputs), r.inputs, InputOrder)
           /\ NoRepeat(SortedInputs(r.inputs))
           /\ \A t \in AssignmentTypes :
                  /\ SortOf(SortedGroup(r, t), Group(r, t), OutputOrder)
                  /\ NoRepeat(SortedGroup(r, t))
<1>1. NoRepeat(SortedInputs(r.inputs)) /\ \A t \in AssignmentTypes : NoRepeat(SortedGroup(r, t))
  BY DEF CanBuild, InputsDistinct
<1>2. SortOf(SortedInputs(r.inputs), r.inputs, InputOrder)
  BY InputsFinite, InputsSorted
<1>3. ASSUME NEW t \in AssignmentTypes PROVE SortOf(SortedGroup(r, t), Group(r, t), OutputOrder)
  BY GroupFinite, OutputsSorted
<1> QED BY <1>1, <1>2, <1>3

\* Requests that differ in the order of their lists build one operation.
LEMMA BuiltAgain ==
    ASSUME Holds, NEW r, Asked(r), CanBuild(r), NEW a, Asked(a), CanBuild(a),
           a.type = r.type, a.metadata = r.metadata, a.globals = r.globals,
           a.signature = r.signature,
           {a.inputs[i] : i \in DOMAIN a.inputs} = {r.inputs[i] : i \in DOMAIN r.inputs},
           {a.outputs[i] : i \in DOMAIN a.outputs} = {r.outputs[i] : i \in DOMAIN r.outputs}
    PROVE  BuildTransition(a) = BuildTransition(r)
<1>1. SortedInputs(a.inputs) = SortedInputs(r.inputs)
  <2>1. FiniteList(a.inputs, Opout) /\ FiniteList(r.inputs, Opout)
    BY InputsFinite
  <2>2. /\ SortOf(SortedInputs(a.inputs), a.inputs, InputOrder)
        /\ NoRepeat(SortedInputs(a.inputs))
        /\ SortOf(SortedInputs(r.inputs), r.inputs, InputOrder)
        /\ NoRepeat(SortedInputs(r.inputs))
    BY Canonical
  <2> QED BY <2>1, <2>2, InputsOrdered, SameSorted
<1>2. ASSUME NEW t \in AssignmentTypes PROVE SortedGroup(a, t) = SortedGroup(r, t)
  <2>1. FiniteList(Group(a, t), Encoding) /\ FiniteList(Group(r, t), Encoding)
    BY GroupFinite
  <2>2. /\ SortOf(SortedGroup(a, t), Group(a, t), OutputOrder)
        /\ NoRepeat(SortedGroup(a, t))
        /\ SortOf(SortedGroup(r, t), Group(r, t), OutputOrder)
        /\ NoRepeat(SortedGroup(r, t))
    BY Canonical
  <2> DEFINE Values(x) == {x.outputs[i] : i \in DOMAIN x.outputs}
             Encoded(S) == {EncodeOutput(o) : o \in {u \in S : u.type = t}}
  <2>3. ASSUME NEW x
        PROVE  {Group(x, t)[i] : i \in DOMAIN Group(x, t)} = Encoded(Values(x))
    <3>1. {Group(x, t)[i] : i \in DOMAIN Group(x, t)}
              = {EncodeOutput(x.outputs[i]) : i \in OfType(x.outputs, t)}
      BY DEF Group
    <3>2. {EncodeOutput(x.outputs[i]) : i \in OfType(x.outputs, t)} \subseteq Encoded(Values(x))
      BY DEF OfType
    <3>3. Encoded(Values(x)) \subseteq {EncodeOutput(x.outputs[i]) : i \in OfType(x.outputs, t)}
      BY DEF OfType
    <3> QED BY <3>1, <3>2, <3>3
  <2>4. Values(a) = Values(r)
    OBVIOUS
  <2> HIDE DEF Values, Encoded
  <2>5. {Group(a, t)[i] : i \in DOMAIN Group(a, t)} = {Group(r, t)[i] : i \in DOMAIN Group(r, t)}
    <3>1. {Group(a, t)[i] : i \in DOMAIN Group(a, t)} = Encoded(Values(a))
      BY <2>3
    <3>2. {Group(r, t)[i] : i \in DOMAIN Group(r, t)} = Encoded(Values(r))
      BY <2>3
    <3> QED BY <2>4, <3>1, <3>2
  <2> QED BY <2>1, <2>2, <2>5, OutputsOrdered, SameSorted
<1>3. ASSUME NEW t \in AssignmentTypes PROVE ClassOf(a, t) = ClassOf(r, t)
  <2>1. \A x : ClassOf(x, t)
                   = {o.class : o \in {u \in {x.outputs[i] : i \in DOMAIN x.outputs} : u.type = t}}
    BY DEF ClassOf, OfType
  <2> QED BY <2>1
<1> QED BY <1>1, <1>2, <1>3 DEF BuildTransition

-------------------------------------------------------------------------------
(***************************************************************************)
(* The operation c with some of its seals revealed.                        *)
(***************************************************************************)
RevealedOf(e, d) ==
    \/ e = d
    \/ \E seal \in GraphSeal : d = <<1, Conceal[seal], d[3]>> /\ e = <<0, seal, d[3]>>

Shown(op, c) ==
    /\ op = [type |-> c.type, metadata |-> c.metadata, globals |-> c.globals,
             inputs |-> c.inputs, outputs |-> op.outputs, class |-> c.class,
             signature |-> c.signature]
    /\ op.outputs = [t \in AssignmentTypes |-> [i \in DOMAIN c.outputs[t] |-> op.outputs[t][i]]]
    /\ \A t \in AssignmentTypes : \A i \in DOMAIN c.outputs[t] :
           RevealedOf(op.outputs[t][i], c.outputs[t][i])

\* What BuildTransition returns.
Canon(c) ==
    /\ c = [type |-> c.type, metadata |-> c.metadata, globals |-> c.globals,
            inputs |-> c.inputs, outputs |-> c.outputs, class |-> c.class,
            signature |-> c.signature]
    /\ c.outputs = [t \in AssignmentTypes |-> [i \in DOMAIN c.outputs[t] |-> c.outputs[t][i]]]
    /\ \A t \in AssignmentTypes : \A i \in DOMAIN c.outputs[t] : c.outputs[t][i] \in Encoding

LEMMA BuiltCanon ==
    ASSUME Holds, NEW r, Asked(r), CanBuild(r)
    PROVE  Canon(BuildTransition(r))
<1> DEFINE c == BuildTransition(r)
<1>1. /\ c = [type |-> c.type, metadata |-> c.metadata, globals |-> c.globals,
              inputs |-> c.inputs, outputs |-> c.outputs, class |-> c.class,
              signature |-> c.signature]
      /\ c.outputs = [t \in AssignmentTypes |-> SortedGroup(r, t)]
  BY DEF BuildTransition
<1> HIDE DEF c
<1>2. ASSUME NEW t \in AssignmentTypes
      PROVE  /\ SortedGroup(r, t) = [i \in DOMAIN SortedGroup(r, t) |-> SortedGroup(r, t)[i]]
             /\ \A i \in DOMAIN SortedGroup(r, t) : SortedGroup(r, t)[i] \in Encoding
  <2>1. Ascending(SortedGroup(r, t), Group(r, t), Encoding, OutputOrder)
    <3>1. FiniteList(Group(r, t), Encoding)
      BY GroupFinite
    <3>2. SortOf(SortedGroup(r, t), Group(r, t), OutputOrder) /\ NoRepeat(SortedGroup(r, t))
      BY Canonical
    <3> QED BY <3>1, <3>2, OutputsOrdered, Ascends
  <2>2. SortedGroup(r, t) \in [1 .. Cardinality(DOMAIN Group(r, t)) -> Encoding]
    BY <2>1 DEF Ascending
  <2> QED BY <2>2
<1>3. \A t \in AssignmentTypes : c.outputs[t] = SortedGroup(r, t)
  BY <1>1
<1>4. c.outputs = [t \in AssignmentTypes |-> [i \in DOMAIN c.outputs[t] |-> c.outputs[t][i]]]
  BY <1>1, <1>2, <1>3
<1> QED BY <1>1, <1>2, <1>3, <1>4 DEF Canon, c

LEMMA CanonShown == ASSUME NEW c, Canon(c) PROVE Shown(c, c)
  BY DEF Canon, Shown, RevealedOf

\* A revealed output has the amount and the concealed seal of the other.
LEMMA RevealedKeeps ==
    ASSUME NEW e, NEW d \in Encoding, RevealedOf(e, d)
    PROVE  /\ e[3] = d[3] /\ AssignmentSecret(e) = AssignmentSecret(d)
           /\ e \in Encoding
<1>1. d[3] \in Int
  BY DEF Encoding
<1>2. CASE e = d
  BY <1>2
<1>3. ASSUME NEW seal \in GraphSeal, d = <<1, Conceal[seal], d[3]>>, e = <<0, seal, d[3]>>
      PROVE  /\ e[3] = d[3] /\ AssignmentSecret(e) = AssignmentSecret(d)
             /\ e \in Encoding
  <2>1. e[1] = 0 /\ e[2] = seal /\ e[3] = d[3] /\ d[1] = 1 /\ d[2] = Conceal[seal]
    BY <1>3
  <2>2. e \in {0} \X GraphSeal \X Int
    BY <1>1, <1>3
  <2> QED BY <2>1, <2>2 DEF AssignmentSecret, Encoding
<1> QED BY <1>2, <1>3 DEF RevealedOf

LEMMA ShownParts ==
    ASSUME NEW c, Canon(c), NEW op, Shown(op, c)
    PROVE  /\ op.type = c.type /\ op.metadata = c.metadata /\ op.globals = c.globals
           /\ op.inputs = c.inputs /\ op.class = c.class /\ op.signature = c.signature
           /\ DOMAIN op.outputs = AssignmentTypes
           /\ \A t \in AssignmentTypes :
                  /\ DOMAIN op.outputs[t] = DOMAIN c.outputs[t]
                  /\ \A i \in DOMAIN c.outputs[t] :
                         /\ op.outputs[t][i][3] = c.outputs[t][i][3]
                         /\ AssignmentSecret(op.outputs[t][i]) = AssignmentSecret(c.outputs[t][i])
                         /\ op.outputs[t][i] \in Encoding
<1>1. /\ op.type = c.type /\ op.metadata = c.metadata /\ op.globals = c.globals
      /\ op.inputs = c.inputs /\ op.class = c.class /\ op.signature = c.signature
  BY DEF Shown
<1>2. /\ DOMAIN op.outputs = AssignmentTypes
      /\ \A t \in AssignmentTypes : DOMAIN op.outputs[t] = DOMAIN c.outputs[t]
  BY DEF Shown
<1>3. ASSUME NEW t \in AssignmentTypes, NEW i \in DOMAIN c.outputs[t]
      PROVE  /\ op.outputs[t][i][3] = c.outputs[t][i][3]
             /\ AssignmentSecret(op.outputs[t][i]) = AssignmentSecret(c.outputs[t][i])
             /\ op.outputs[t][i] \in Encoding
  <2>1. c.outputs[t][i] \in Encoding
    BY DEF Canon
  <2>2. RevealedOf(op.outputs[t][i], c.outputs[t][i])
    BY DEF Shown
  <2> QED BY <2>1, <2>2, RevealedKeeps
<1> QED BY <1>1, <1>2, <1>3

\* Revealing changes no id.
LEMMA SameId ==
    ASSUME NEW c, Canon(c), NEW op, Shown(op, c)
    PROVE  CommitTransition(op) = CommitTransition(c)
<1>1. CommitGlobals(op) = CommitGlobals(c)
  BY ShownParts DEF CommitGlobals
<1>2. CommitAssignments(op) = CommitAssignments(c)
  <2>1. ASSUME NEW t \in AssignmentTypes
        PROVE  [i \in DOMAIN op.outputs[t] |->
                   <<op.outputs[t][i][3], AssignmentSecret(op.outputs[t][i])>>]
             = [i \in DOMAIN c.outputs[t] |->
                   <<c.outputs[t][i][3], AssignmentSecret(c.outputs[t][i])>>]
    <3>1. DOMAIN op.outputs[t] = DOMAIN c.outputs[t]
      BY ShownParts
    <3>2. \A i \in DOMAIN c.outputs[t] :
              /\ op.outputs[t][i][3] = c.outputs[t][i][3]
              /\ AssignmentSecret(op.outputs[t][i]) = AssignmentSecret(c.outputs[t][i])
      BY ShownParts
    <3> QED BY <3>1, <3>2
  <2> QED BY <2>1 DEF CommitAssignments
<1>3. op.type = c.type /\ op.metadata = c.metadata /\ op.inputs = c.inputs
  BY ShownParts
<1> QED BY <1>1, <1>2, <1>3 DEF CommitTransition

\* The amounts stay, and the sums of what is revealed are those of c.
LEMMA SameTotals ==
    ASSUME NEW c, Canon(c), NEW op, Shown(op, c)
    PROVE  OutputTotals(op) = OutputTotals(c)
<1>1. ASSUME NEW t \in AssignmentTypes
      PROVE  EncodedSum(op.outputs[t]) = EncodedSum(c.outputs[t])
  <2>1. DOMAIN op.outputs[t] = DOMAIN c.outputs[t]
    BY ShownParts
  <2>2. \A i \in DOMAIN c.outputs[t] : op.outputs[t][i][3] = c.outputs[t][i][3]
    BY ShownParts
  <2>3. [i \in DOMAIN op.outputs[t] |-> op.outputs[t][i][3]]
            = [i \in DOMAIN c.outputs[t] |-> c.outputs[t][i][3]]
    BY <2>1, <2>2
  <2> QED BY <2>3 DEF EncodedSum
<1>2. \A t \in AssignmentTypes : DOMAIN op.outputs[t] = DOMAIN c.outputs[t]
  BY ShownParts
<1> QED BY <1>1, <1>2 DEF OutputTotals, AssignmentTypes

\* Disclosure hashes tell exactly the revealed forms of an operation apart.
LEMMA DiscloseTells ==
    ASSUME NEW c, Canon(c), NEW a, Shown(a, c), NEW b, Shown(b, c)
    PROVE  EncodeDisclose(a) = EncodeDisclose(b) <=> a.outputs = b.outputs
<1>1. ASSUME a.outputs = b.outputs PROVE EncodeDisclose(a) = EncodeDisclose(b)
  <2>1. a = b
    BY <1>1 DEF Shown
  <2> QED BY <2>1
<1>2. ASSUME EncodeDisclose(a) = EncodeDisclose(b) PROVE a.outputs = b.outputs
  <2>1. {<<p, AssignmentSecret(At(a, p))>> : p \in {q \in Places(a) : At(a, q)[1] = 0}}
            = {<<p, AssignmentSecret(At(b, p))>> : p \in {q \in Places(b) : At(b, q)[1] = 0}}
    BY <1>2 DEF EncodeDisclose
  <2>2. Places(a) = Places(c) /\ Places(b) = Places(c)
    BY ShownParts DEF Places
  <2>3. ASSUME NEW x, NEW y,
               {<<p, AssignmentSecret(At(x, p))>> : p \in {q \in Places(c) : At(x, q)[1] = 0}}
                 = {<<p, AssignmentSecret(At(y, p))>> : p \in {q \in Places(c) : At(y, q)[1] = 0}},
               NEW p \in Places(c), At(x, p)[1] = 0
        PROVE  At(y, p)[1] = 0
    <3>1. <<p, AssignmentSecret(At(x, p))>>
              \in {<<q, AssignmentSecret(At(y, q))>> : q \in {r \in Places(c) : At(y, r)[1] = 0}}
      BY <2>3
    <3> QED BY <3>1
  <2>4. ASSUME NEW t \in AssignmentTypes, NEW i \in DOMAIN c.outputs[t]
        PROVE  a.outputs[t][i] = b.outputs[t][i]
    <3> DEFINE d == c.outputs[t][i]
               e == a.outputs[t][i]
               f == b.outputs[t][i]
    <3>1. /\ RevealedOf(e, d) /\ RevealedOf(f, d) /\ d \in Encoding
          /\ e \in Encoding /\ f \in Encoding
      BY ShownParts DEF Shown, Canon
    <3>2. /\ e[3] = d[3] /\ f[3] = d[3]
          /\ AssignmentSecret(e) = AssignmentSecret(f)
      BY ShownParts
    <3>3. <<t, i>> \in Places(c) /\ At(a, <<t, i>>) = e /\ At(b, <<t, i>>) = f
      BY DEF Places, At
    <3> HIDE DEF d, e, f
    <3>4. e[1] = 0 <=> f[1] = 0
      BY <2>1, <2>2, <2>3, <3>3
    <3>5. ASSUME e[1] = 0 PROVE e = f
      <4>1. /\ e = <<0, e[2], e[3]>> /\ e[2] \in GraphSeal
            /\ f = <<0, f[2], f[3]>> /\ f[2] \in GraphSeal
        BY <3>1, <3>4, <3>5 DEF Encoding
      <4>2. Conceal[e[2]] = Conceal[f[2]]
        BY <3>2, <3>4, <3>5 DEF AssignmentSecret
      <4>3. e[2] = f[2]
        BY <4>1, <4>2, SealAssumption
      <4> QED BY <3>2, <4>1, <4>3
    <3>6. ASSUME e[1] # 0 PROVE e = f
      <4>1. e = d /\ f = d
        BY <3>1, <3>4, <3>6 DEF RevealedOf
      <4> QED BY <4>1
    <3>7. e = f
      BY <3>5, <3>6
    <3> QED BY <3>7 DEF e, f
  <2>5. \A t \in AssignmentTypes :
            [i \in DOMAIN c.outputs[t] |-> a.outputs[t][i]]
                = [i \in DOMAIN c.outputs[t] |-> b.outputs[t][i]]
    BY <2>4
  <2>6. /\ a.outputs = [t \in AssignmentTypes |-> [i \in DOMAIN c.outputs[t] |-> a.outputs[t][i]]]
        /\ b.outputs = [t \in AssignmentTypes |-> [i \in DOMAIN c.outputs[t] |-> b.outputs[t][i]]]
    BY DEF Shown
  <2> QED BY <2>5, <2>6
<1> QED BY <1>1, <1>2

\* One more seal revealed in its place.
LEMMA RevealOne ==
    ASSUME NEW c, Canon(c), NEW op, Shown(op, c),
           NEW t \in AssignmentTypes, NEW i \in DOMAIN op.outputs[t], NEW seal \in GraphSeal,
           op.outputs[t][i] = <<1, Conceal[seal], op.outputs[t][i][3]>>
    PROVE  Shown(RevealAt(op, t, i, seal), c)
<1> DEFINE new == RevealAt(op, t, i, seal)
           e == <<0, seal, op.outputs[t][i][3]>>
<1>1. DOMAIN op.outputs = AssignmentTypes /\ DOMAIN op.outputs[t] = DOMAIN c.outputs[t]
  BY ShownParts
<1>2. op = [type |-> c.type, metadata |-> c.metadata, globals |-> c.globals,
            inputs |-> c.inputs, outputs |-> op.outputs, class |-> c.class,
            signature |-> c.signature]
  BY DEF Shown
<1>3. new.outputs = [op.outputs EXCEPT ![t] = [@ EXCEPT ![i] = e]]
  BY <1>2 DEF RevealAt
<1>4. new = [type |-> c.type, metadata |-> c.metadata, globals |-> c.globals,
             inputs |-> c.inputs, outputs |-> new.outputs, class |-> c.class,
             signature |-> c.signature]
  BY <1>2 DEF RevealAt
<1> HIDE DEF new
<1>5. \A u \in AssignmentTypes : \A k \in DOMAIN c.outputs[u] :
          new.outputs[u][k] = IF u = t /\ k = i THEN e ELSE op.outputs[u][k]
  BY <1>1, <1>3
<1>6. new.outputs = [u \in AssignmentTypes |-> [k \in DOMAIN c.outputs[u] |-> new.outputs[u][k]]]
  <2>1. op.outputs = [u \in AssignmentTypes |-> [k \in DOMAIN c.outputs[u] |-> op.outputs[u][k]]]
    BY DEF Shown
  <2>2. new.outputs = [u \in AssignmentTypes |->
            IF u = t THEN [op.outputs[t] EXCEPT ![i] = e] ELSE op.outputs[u]]
    BY <1>1, <1>3, <2>1
  <2>3. ASSUME NEW u \in AssignmentTypes
        PROVE  new.outputs[u] = [k \in DOMAIN c.outputs[u] |-> new.outputs[u][k]]
    <3> DEFINE own == op.outputs[u]
    <3>1. own = [k \in DOMAIN c.outputs[u] |-> own[k]]
      BY <2>1
    <3> HIDE DEF own
    <3>2. ASSUME u = t
          PROVE  new.outputs[u] = [own EXCEPT ![i] = e]
      BY <2>2, <3>2 DEF own
    <3>3. ASSUME u # t
          PROVE  new.outputs[u] = own
      BY <2>2, <3>3 DEF own
    <3> QED BY <3>1, <3>2, <3>3
  <2> QED BY <2>2, <2>3
<1>7. RevealedOf(e, c.outputs[t][i])
  <2> DEFINE d == c.outputs[t][i]
             f == op.outputs[t][i]
  <2>1. RevealedOf(f, d)
    BY <1>1 DEF Shown
  <2>2. f[1] = 1 /\ f = <<1, Conceal[seal], f[3]>>
    OBVIOUS
  <2> HIDE DEF f
  <2>3. f = d
    <3>1. ASSUME NEW k, f = <<0, k, d[3]>> PROVE FALSE
      BY <2>2, <3>1
    <3> QED BY <2>1, <3>1 DEF RevealedOf
  <2> QED BY <2>2, <2>3 DEF RevealedOf, f
<1>8. \A u \in AssignmentTypes : \A k \in DOMAIN c.outputs[u] :
          RevealedOf(new.outputs[u][k], c.outputs[u][k])
  BY <1>5, <1>7 DEF Shown
<1> QED BY <1>4, <1>6, <1>8 DEF Shown, new

-------------------------------------------------------------------------------
(***************************************************************************)
(* The operation on the desk is what the request builds, with some of its  *)
(* seals revealed, and the request adds up.                                *)
(***************************************************************************)
Accepted(op) ==
    ScriptOK(op.type, InputTotals(op.inputs), OutputTotals(op), DeclaredAmounts(op),
             op.signature = "whole")

Drafted ==
    making.phase = "operation" =>
        LET r == making.request
            c == BuildTransition(r)
        IN  /\ making = Draft(r, making.op)
            /\ Asked(r) /\ CanBuild(r)
            /\ Shown(making.op, c)
            /\ AllFungible(r) => Accepted(c)

\* What is built from amounts that add up is accepted.
LEMMA BalancedAccepted ==
    ASSUME Holds, NEW r, Asked(r), CanBuild(r), Balanced(r), AllFungible(r)
    PROVE  Accepted(BuildTransition(r))
<1> DEFINE c == BuildTransition(r)
<1>1. /\ c.type = r.type /\ c.signature = r.signature
      /\ c.metadata = r.metadata /\ c.globals = r.globals
      /\ c.inputs = SortedInputs(r.inputs)
      /\ \A t \in AssignmentTypes : c.outputs[t] = SortedGroup(r, t)
  BY DEF BuildTransition
<1> HIDE DEF c
<1>2. DeclaredAmounts(c) = DeclaredAmounts(r)
  BY <1>1 DEF DeclaredAmounts
<1>3. InputTotals(c.inputs) = InputTotals(r.inputs)
  <2>1. \A type : InputSum(SortedInputs(r.inputs), type) = InputSum(r.inputs, type)
    BY InputsFinite, Canonical, InputsWorthTheSame
  <2>2. Types(SortedInputs(r.inputs)) = Types(r.inputs)
    <3> DEFINE list == r.inputs
               s == SortedInputs(list)
    <3>1. /\ \A k \in DOMAIN s : \E i \in DOMAIN list : s[k] = list[i]
          /\ \A i \in DOMAIN list : \E k \in DOMAIN s : s[k] = list[i]
      BY InputsFinite, Canonical, SortedHasAll DEF FiniteList
    <3> HIDE DEF s, list
    <3>2. \A type : OfType(s, type) = {} <=> OfType(list, type) = {}
      BY <3>1 DEF OfType
    <3>3. Types(s) = Types(list)
      BY <3>2 DEF Types
    <3> QED BY <3>3 DEF s, list
  <2> QED BY <1>1, <2>1, <2>2 DEF InputTotals
<1>4. ASSUME NEW t \in AssignmentTypes
      PROVE  EncodedSum(SortedGroup(r, t)) = OutputSum(r.outputs, t)
  <2>1. FiniteList(Group(r, t), Encoding)
    BY GroupFinite
  <2>2. \A i \in OfType(r.outputs, t) :
            r.outputs[i].amount \in Nat /\ r.outputs[i].class = "fungible"
    <3>1. \A i \in OfType(r.outputs, t) : i \in DOMAIN r.outputs
      BY DEF OfType
    <3>2. \A o \in OutputSpec : o.amount \in Nat
      BY SchemaAssumption DEF OutputSpec, Amount
    <3> QED BY <3>1, <3>2, OutputsTyped DEF AllFungible
  <2> QED BY <2>1, <2>2, OutputsWorthTheSame
<1>5. OutputTotals(c) = RequestTotals(r.outputs)
  <2>1. ASSUME NEW t \in AssignmentTypes
        PROVE  DOMAIN c.outputs[t] = {} <=> OfType(r.outputs, t) = {}
    <3> DEFINE list == Group(r, t)
               s == SortedGroup(r, t)
    <3>1. DOMAIN list = OfType(r.outputs, t)
      BY DEF Group
    <3>2. IsFiniteSet(DOMAIN list) /\ SortOf(s, list, OutputOrder)
      BY GroupFinite, Canonical DEF FiniteList
    <3> HIDE DEF s, list
    <3>3. /\ \A k \in DOMAIN s : \E i \in DOMAIN list : s[k] = list[i]
          /\ \A i \in DOMAIN list : \E k \in DOMAIN s : s[k] = list[i]
      BY <3>2, SortedHasAll
    <3>4. DOMAIN s = {} <=> DOMAIN list = {}
      BY <3>3
    <3> QED BY <1>1, <3>1, <3>4 DEF s
  <2>2. /\ DOMAIN c.outputs[Asset] # {} <=> OfType(r.outputs, Asset) # {}
        /\ DOMAIN c.outputs[Inflation] # {} <=> OfType(r.outputs, Inflation) # {}
    BY <2>1 DEF AssignmentTypes
  <2>3. Types(r.outputs) = TypesListed(DOMAIN c.outputs[Asset] # {}, DOMAIN c.outputs[Inflation] # {})
    BY <2>2 DEF Types
  <2>4. /\ EncodedSum(c.outputs[Asset]) = OutputSum(r.outputs, Asset)
        /\ EncodedSum(c.outputs[Inflation]) = OutputSum(r.outputs, Inflation)
    BY <1>1, <1>4 DEF AssignmentTypes
  <2> QED BY <2>3, <2>4 DEF OutputTotals, RequestTotals
<1>6. ScriptOK(r.type, InputTotals(r.inputs), RequestTotals(r.outputs),
               DeclaredAmounts(r), r.signature = "whole")
  BY DEF Balanced
<1> QED BY <1>1, <1>2, <1>3, <1>5, <1>6 DEF Accepted, c

\* A permutation of a list loses no value.
LEMMA ReorderedSame ==
    ASSUME NEW S, NEW list \in Seq(S), NEW p \in Orders(list)
    PROVE  /\ Reordered(list, p) \in Seq(S)
           /\ {Reordered(list, p)[i] : i \in DOMAIN Reordered(list, p)}
                  = {list[i] : i \in DOMAIN list}
<1> DEFINE D == DOMAIN list
           new == Reordered(list, p)
<1>1. D = 1 .. Len(list) /\ Len(list) \in Nat
  OBVIOUS
<1>2. IsFiniteSet(D)
  BY <1>1, FS_Interval
<1>3. p \in [D -> D] /\ \A i, j \in D : p[i] = p[j] => i = j
  BY DEF Orders
<1>4. p \in Injection(D, D)
  BY <1>3 DEF Injection, IsInjective
<1>5. p \in Surjection(D, D)
  <2> HIDE DEF D
  <2> QED BY <1>2, <1>4, FS_Injection
<1>6. \A x \in D : \E i \in D : p[i] = x
  BY <1>5 DEF Surjection
<1>7. new = [i \in D |-> list[p[i]]]
  BY DEF Reordered
<1>8. \A i \in D : list[i] \in S
  BY <1>1
<1> HIDE DEF new
<1>9. new \in [1 .. Len(list) -> S]
  BY <1>1, <1>3, <1>7, <1>8
<1>10. new \in Seq(S)
  BY <1>1, <1>9
<1>11. {new[i] : i \in DOMAIN new} = {list[i] : i \in D}
  BY <1>3, <1>6, <1>7
<1> QED BY <1>10, <1>11 DEF new

\* The desk after a call of the builder.
LEMMA DraftsDrafted ==
    ASSUME Holds, NEW r, Asked(r), CanBuild(r), NEW op, Shown(op, BuildTransition(r)),
           AllFungible(r) => Accepted(BuildTransition(r)),
           making' = Draft(r, op), genesis' = genesis
    PROVE  Drafted'
<1>1. making'.request = r /\ making'.op = op /\ making' = Draft(r, op)
  BY DEF Draft
<1>2. Asked(r)'
  BY DEF Asked, Held, ListOf, RefOf
<1>3. (AllFungible(r) => Accepted(BuildTransition(r)))'
  BY DEF Accepted, InputTotals, InputSum, Types, AmountOf, ListOf, RefOf
<1> QED BY <1>1, <1>2, <1>3 DEF Drafted

LEMMA DraftedInit == LifeInit => Drafted
  BY DEF LifeInit, Drafted, Nothing

\* Which steps put an operation on the desk.
LEMMA OperationSteps ==
    ASSUME Opened, [LifeNext]_lifeVars, making'.phase = "operation"
    PROVE  \/ \E request \in Requests : making = Nothing /\ Build(request)
           \/ /\ making.phase = "operation"
              /\ \E p \in Orders(making.request.inputs), q \in Orders(making.request.outputs) :
                     Rebuild(p, q)
           \/ /\ making.phase = "operation"
              /\ \E t \in AssignmentTypes : \E i \in DOMAIN making.op.outputs[t], seal \in GraphSeal :
                     Reveal(t, i, seal)
           \/ UNCHANGED <<making, genesis>>
<1>1. ASSUME NEW spec, EncodeContract(spec) PROVE FALSE
  BY <1>1 DEF EncodeContract, Armor
<1>2. ~DecodeContract /\ ~Finish
  BY DEF DecodeContract, Finish, Nothing
<1>3. ~Others
  BY DEF Others, Nothing
<1>4. ~StartWitness
  BY DEF StartWitness, Witness
<1>5. ASSUME NEW depth, AnchorOwn(depth) PROVE FALSE
  BY <1>5 DEF AnchorOwn, Witness
<1>6. ASSUME NEW depth, NEW cofactor, NEW leaves, AnchorTogether(depth, cofactor, leaves)
      PROVE  FALSE
  BY <1>6 DEF AnchorTogether, Witness
<1>7. ASSUME NEW proof, NEW p, NEW m, making.phase = "witness", Open(proof, p, m) PROVE FALSE
  BY <1>7 DEF Open, Opened, Witness
<1> QED BY <1>1, <1>2, <1>3, <1>4, <1>5, <1>6, <1>7 DEF LifeNext, lifeVars

\* A request with its lists in another order, field by field.
LEMMA OtherRequest ==
    ASSUME NEW r, Asked(r), NEW xs, NEW ys, NEW a,
           a = [r EXCEPT !.inputs = xs, !.outputs = ys]
    PROVE  a = [type |-> r.type, inputs |-> xs, outputs |-> ys,
                signature |-> r.signature, fits |-> r.fits,
                globals |-> r.globals, metadata |-> r.metadata]
<1> DEFINE D == {"type", "inputs", "outputs", "signature", "fits", "globals", "metadata"}
           s == [r EXCEPT !.inputs = xs]
<1>1. DOMAIN r = D
  BY DEF Asked
<1>2. a = [s EXCEPT !.outputs = ys]
  OBVIOUS
<1>3. DOMAIN s = D /\ s.inputs = xs /\ \A f \in D \ {"inputs"} : s[f] = r[f]
  BY <1>1
<1> HIDE DEF s
<1>4. DOMAIN a = D /\ a.outputs = ys /\ \A f \in D \ {"outputs"} : a[f] = s[f]
  BY <1>2, <1>3
<1>5. a = [f \in DOMAIN a |-> a[f]]
  BY <1>2
<1>6. a.inputs = xs /\ \A f \in D \ {"inputs", "outputs"} : a[f] = r[f]
  BY <1>3, <1>4
<1> QED BY <1>4, <1>5, <1>6

\* Building again builds the operation that was built before.
LEMMA RebuiltSame ==
    ASSUME Holds, Drafted, making.phase = "operation",
           NEW p \in Orders(making.request.inputs), NEW q \in Orders(making.request.outputs),
           Rebuild(p, q)
    PROVE  LET r == making.request
               a == [r EXCEPT !.inputs  = Reordered(@, p), !.outputs = Reordered(@, q)]
           IN  /\ Asked(a) /\ CanBuild(a)
               /\ BuildTransition(a) = BuildTransition(r)
               /\ making' = Draft(a, BuildTransition(a))
               /\ {a.inputs[i] : i \in DOMAIN a.inputs} = {r.inputs[i] : i \in DOMAIN r.inputs}
               /\ AllFungible(a) => AllFungible(r)
<1> DEFINE r == making.request
           a == [r EXCEPT !.inputs  = Reordered(@, p), !.outputs = Reordered(@, q)]
<1>1. Asked(r) /\ CanBuild(r)
  BY DEF Drafted
<1>2. /\ r = [type |-> r.type, inputs |-> r.inputs, outputs |-> r.outputs,
              signature |-> r.signature, fits |-> r.fits,
              globals |-> r.globals, metadata |-> r.metadata]
      /\ r.inputs \in Seq(Held) /\ r.outputs \in Seq(OutputSpec)
  BY <1>1 DEF Asked
<1>3. CanBuild(a) /\ making' = Draft(a, BuildTransition(a))
  BY DEF Rebuild
<1>4. /\ p \in Orders(r.inputs) /\ q \in Orders(r.outputs)
  OBVIOUS
<1>a. a = [r EXCEPT !.inputs  = Reordered(r.inputs, p),
                    !.outputs = Reordered(r.outputs, q)]
  OBVIOUS
<1> HIDE DEF r, a
<1>5. a = [type |-> r.type, inputs |-> Reordered(r.inputs, p),
           outputs |-> Reordered(r.outputs, q),
           signature |-> r.signature, fits |-> r.fits,
           globals |-> r.globals, metadata |-> r.metadata]
  BY <1>1, <1>a, OtherRequest
<1>6. /\ a.type = r.type /\ a.signature = r.signature
      /\ a.globals = r.globals /\ a.metadata = r.metadata
      /\ a.inputs = Reordered(r.inputs, p) /\ a.outputs = Reordered(r.outputs, q)
  BY <1>5
<1>7. /\ a.inputs \in Seq(Held)
      /\ {a.inputs[i] : i \in DOMAIN a.inputs} = {r.inputs[i] : i \in DOMAIN r.inputs}
  <2> DEFINE xs == r.inputs
  <2>1. xs \in Seq(Held) /\ p \in Orders(xs) /\ a.inputs = Reordered(xs, p)
    BY <1>2, <1>4, <1>6
  <2> HIDE DEF xs
  <2>2. /\ Reordered(xs, p) \in Seq(Held)
        /\ {Reordered(xs, p)[i] : i \in DOMAIN Reordered(xs, p)} = {xs[i] : i \in DOMAIN xs}
    BY <2>1, ReorderedSame
  <2> QED BY <2>1, <2>2 DEF xs
<1>8. /\ a.outputs \in Seq(OutputSpec)
      /\ {a.outputs[i] : i \in DOMAIN a.outputs} = {r.outputs[i] : i \in DOMAIN r.outputs}
  <2> DEFINE ys == r.outputs
  <2>1. ys \in Seq(OutputSpec) /\ q \in Orders(ys) /\ a.outputs = Reordered(ys, q)
    BY <1>2, <1>4, <1>6
  <2> HIDE DEF ys
  <2>2. /\ Reordered(ys, q) \in Seq(OutputSpec)
        /\ {Reordered(ys, q)[i] : i \in DOMAIN Reordered(ys, q)} = {ys[i] : i \in DOMAIN ys}
    BY <2>1, ReorderedSame
  <2> QED BY <2>1, <2>2 DEF ys
<1>9. Asked(a)
  BY <1>5, <1>6, <1>7, <1>8 DEF Asked
<1>10. BuildTransition(a) = BuildTransition(r)
  BY <1>1, <1>3, <1>6, <1>7, <1>8, <1>9, BuiltAgain
<1>11. AllFungible(a) => AllFungible(r)
  <2> SUFFICES ASSUME AllFungible(a), NEW i \in DOMAIN r.outputs
               PROVE  r.outputs[i].class = "fungible"
    BY DEF AllFungible
  <2>1. r.outputs[i] \in {r.outputs[k] : k \in DOMAIN r.outputs}
    OBVIOUS
  <2>2. PICK k \in DOMAIN a.outputs : a.outputs[k] = r.outputs[i]
    BY <1>8, <2>1
  <2> QED BY <2>2 DEF AllFungible
<1> QED BY <1>3, <1>7, <1>9, <1>10, <1>11 DEF a, r

LEMMA DraftedNext ==
    ASSUME Holds, Opened, Drafted, [LifeNext]_lifeVars PROVE Drafted'
<1> SUFFICES ASSUME making'.phase = "operation" PROVE Drafted'
  BY DEF Drafted
<1>1. ASSUME NEW r \in Requests, Build(r) PROVE Drafted'
  <2>1. /\ Balanced(r) /\ CanBuild(r) /\ genesis' = genesis
        /\ making' = Draft(r, BuildTransition(r))
    BY <1>1 DEF Build
  <2>2. Asked(r)
    BY RequestsAsked
  <2>3. Shown(BuildTransition(r), BuildTransition(r))
    BY <2>1, <2>2, BuiltCanon, CanonShown
  <2>4. AllFungible(r) => Accepted(BuildTransition(r))
    BY <2>1, <2>2, BalancedAccepted
  <2> QED BY <2>1, <2>2, <2>3, <2>4, DraftsDrafted
<1>2. ASSUME making.phase = "operation",
             NEW p \in Orders(making.request.inputs), NEW q \in Orders(making.request.outputs),
             Rebuild(p, q)
      PROVE  Drafted'
  <2> DEFINE r == making.request
             a == [r EXCEPT !.inputs  = Reordered(@, p), !.outputs = Reordered(@, q)]
  <2>1. /\ Asked(a) /\ CanBuild(a)
        /\ BuildTransition(a) = BuildTransition(r)
        /\ making' = Draft(a, BuildTransition(a))
        /\ AllFungible(a) => AllFungible(r)
    BY <1>2, RebuiltSame
  <2>2. AllFungible(r) => Accepted(BuildTransition(r))
    BY <1>2 DEF Drafted
  <2>3. genesis' = genesis
    BY <1>2 DEF Rebuild
  <2> HIDE DEF r, a
  <2>4. Shown(BuildTransition(a), BuildTransition(a))
    BY <2>1, BuiltCanon, CanonShown
  <2>5. AllFungible(a) => Accepted(BuildTransition(a))
    BY <2>1, <2>2
  <2> QED BY <2>1, <2>3, <2>4, <2>5, DraftsDrafted
<1>3. ASSUME making.phase = "operation", NEW t \in AssignmentTypes,
             NEW i \in DOMAIN making.op.outputs[t], NEW seal \in GraphSeal, Reveal(t, i, seal)
      PROVE  Drafted'
  <2> DEFINE r == making.request
             op == RevealAt(making.op, t, i, seal)
  <2>1. /\ Asked(r) /\ CanBuild(r) /\ Shown(making.op, BuildTransition(r))
        /\ AllFungible(r) => Accepted(BuildTransition(r))
    BY <1>3 DEF Drafted
  <2>2. /\ making' = Draft(r, op) /\ genesis' = genesis
        /\ making.op.outputs[t][i] = <<1, Conceal[seal], making.op.outputs[t][i][3]>>
    BY <1>3 DEF Reveal
  <2>3. Shown(op, BuildTransition(r))
    BY <2>1, <2>2, BuiltCanon, RevealOne
  <2> HIDE DEF r, op
  <2> QED BY <2>1, <2>2, <2>3, DraftsDrafted
<1>4. CASE UNCHANGED <<making, genesis>>
  <2>1. making.phase = "operation"
    BY <1>4
  <2> DEFINE r == making.request
  <2>2. /\ making = Draft(r, making.op)
        /\ Asked(r) /\ CanBuild(r) /\ Shown(making.op, BuildTransition(r))
        /\ AllFungible(r) => Accepted(BuildTransition(r))
    BY <2>1 DEF Drafted
  <2>3. making' = Draft(r, making.op) /\ genesis' = genesis
    BY <1>4, <2>2
  <2> HIDE DEF r
  <2> QED BY <2>2, <2>3, DraftsDrafted
<1> QED BY <1>1, <1>2, <1>3, <1>4, OperationSteps

(***************************************************************************)
(* What the builder makes of a request whose amounts add up is accepted,   *)
(* whatever the order of its lists and whatever is revealed of it          *)
(* (operations/builder.go, schemas/transition.go, validator.go             *)
(* inputMapCommits).                                                       *)
(***************************************************************************)
THEOREM BuildsAccepted == LifeSpec => []BuiltIsAccepted
<1>1. ASSUME Holds, Drafted, making.phase = "operation", AllFungible(making.request)
      PROVE  LET op == making.op
             IN  /\ ScriptOK(op.type, InputTotals(op.inputs), OutputTotals(op),
                             DeclaredAmounts(op), op.signature = "whole")
                 /\ \A i, j \in DOMAIN op.inputs : op.inputs[i] = op.inputs[j] => i = j
                 /\ making.bundle.inputMap =
                        [r \in {op.inputs[i] : i \in DOMAIN op.inputs} |-> CommitTransition(op)]
  <2> DEFINE r == making.request
             c == BuildTransition(r)
             op == making.op
  <2>1. /\ making = Draft(r, op) /\ Asked(r) /\ CanBuild(r)
        /\ Shown(op, c) /\ Accepted(c)
    BY <1>1 DEF Drafted
  <2>2. c.inputs = SortedInputs(r.inputs)
    BY DEF BuildTransition
  <2>3. making.bundle = BuildBundle(r.inputs, op)
    BY <2>1 DEF Draft
  <2> HIDE DEF r, c, op
  <2>4. Canon(c)
    BY <1>1, <2>1, BuiltCanon DEF c
  <2>5. /\ op.type = c.type /\ op.metadata = c.metadata /\ op.globals = c.globals
        /\ op.inputs = c.inputs /\ op.signature = c.signature
    BY <2>1, <2>4, ShownParts
  <2>6. OutputTotals(op) = OutputTotals(c) /\ DeclaredAmounts(op) = DeclaredAmounts(c)
    BY <2>1, <2>4, <2>5, SameTotals DEF DeclaredAmounts
  <2>7. ScriptOK(op.type, InputTotals(op.inputs), OutputTotals(op),
                 DeclaredAmounts(op), op.signature = "whole")
    BY <2>1, <2>5, <2>6 DEF Accepted
  <2>8. Ascending(SortedInputs(r.inputs), r.inputs, Opout, InputOrder)
    <3>1. FiniteList(r.inputs, Opout)
      BY <1>1, <2>1, InputsFinite
    <3>2. SortOf(SortedInputs(r.inputs), r.inputs, InputOrder) /\ NoRepeat(SortedInputs(r.inputs))
      BY <1>1, <2>1, Canonical
    <3> QED BY <3>1, <3>2, InputsOrdered, Ascends
  <2> DEFINE s == op.inputs
             n == Cardinality(DOMAIN r.inputs)
  <2>9. /\ n \in Nat /\ s \in [1 .. n -> Opout]
        /\ \A i, j \in 1 .. n : i < j => <<s[i], s[j]>> \in InputOrder
        /\ {s[i] : i \in DOMAIN s} = {r.inputs[i] : i \in DOMAIN r.inputs}
    BY <2>2, <2>5, <2>8 DEF Ascending
  <2> HIDE DEF s, n
  <2>10. \A i, j \in DOMAIN s : s[i] = s[j] => i = j
    <3> SUFFICES ASSUME NEW i \in DOMAIN s, NEW j \in DOMAIN s, s[i] = s[j], i # j PROVE FALSE
      OBVIOUS
    <3>1. i \in 1 .. n /\ j \in 1 .. n /\ (i < j \/ j < i)
      BY <2>9
    <3>2. s[i] \in Opout /\ <<s[i], s[i]>> \in InputOrder
      BY <2>9, <3>1
    <3> QED BY <3>2, InputsOrdered DEF Ordered
  <2>11. making.bundle.inputMap
             = [x \in {r.inputs[i] : i \in DOMAIN r.inputs} |-> CommitTransition(op)]
    BY <2>3 DEF BuildBundle
  <2> QED BY <2>7, <2>9, <2>10, <2>11 DEF s, op
<1>2. Holds /\ Drafted => BuiltIsAccepted
  BY <1>1 DEF BuiltIsAccepted
<1>3. LifeSpec => []Holds
  BY HoldsInit, HoldsNext, PTL DEF LifeSpec
<1>4. LifeSpec => []Opened
  BY OpenedInit, OpenedNext, PTL DEF LifeSpec
<1> QED BY <1>2, <1>3, <1>4, DraftedInit, DraftedNext, PTL DEF LifeSpec

(***************************************************************************)
(* Ids survive building again in another order and revealing seals in      *)
(* place; disclosure hashes tell the revealed forms apart, and nothing     *)
(* else (builder.go:44-45, genesis.go assignmentSecret, disclose.go:23).   *)
(***************************************************************************)
THEOREM IdsSurvive == LifeSpec => IdSurvives
<1>1. ASSUME Holds, Opened, Drafted, [LifeNext]_lifeVars,
             making.phase = "operation", making'.phase = "operation"
      PROVE  /\ making'.bundle.inputMap = making.bundle.inputMap
             /\ EncodeDisclose(making'.op) = EncodeDisclose(making.op)
                    <=> making'.op.outputs = making.op.outputs
  <2> DEFINE r == making.request
             c == BuildTransition(r)
             op == making.op
             Map(list, x) == [k \in {list[i] : i \in DOMAIN list} |-> CommitTransition(x)]
  <2>1. /\ making = Draft(r, op) /\ Asked(r) /\ CanBuild(r) /\ Shown(op, c)
    BY <1>1 DEF Drafted
  <2>2. Canon(c)
    BY <1>1, <2>1, BuiltCanon
  <2>3. making.bundle.inputMap = Map(r.inputs, op)
    <3> HIDE DEF op, r, c
    <3> QED BY <2>1 DEF Draft, BuildBundle
  <2>4. ASSUME NEW a, NEW x, making' = Draft(a, x), Shown(x, c),
               {a.inputs[i] : i \in DOMAIN a.inputs} = {r.inputs[i] : i \in DOMAIN r.inputs}
        PROVE  /\ making'.bundle.inputMap = making.bundle.inputMap
               /\ EncodeDisclose(making'.op) = EncodeDisclose(making.op)
                      <=> making'.op.outputs = making.op.outputs
    <3>1. making'.op = x /\ making'.bundle.inputMap = Map(a.inputs, x)
      BY <2>4 DEF Draft, BuildBundle
    <3> HIDE DEF r, c, op
    <3>2. CommitTransition(x) = CommitTransition(op)
      <4>1. CommitTransition(x) = CommitTransition(c)
        BY <2>2, <2>4, SameId
      <4>2. CommitTransition(op) = CommitTransition(c)
        BY <2>1, <2>2, SameId
      <4> QED BY <4>1, <4>2
    <3>3. Map(a.inputs, x) = Map(r.inputs, op)
      BY <2>4, <3>2
    <3>4. EncodeDisclose(x) = EncodeDisclose(op) <=> x.outputs = op.outputs
      BY <2>1, <2>2, <2>4, DiscloseTells
    <3> QED BY <2>3, <3>1, <3>3, <3>4 DEF op
  <2>5. ASSUME NEW p \in Orders(r.inputs), NEW q \in Orders(r.outputs), Rebuild(p, q)
        PROVE  \E a, x : /\ making' = Draft(a, x) /\ Shown(x, c)
                         /\ {a.inputs[i] : i \in DOMAIN a.inputs}
                                = {r.inputs[i] : i \in DOMAIN r.inputs}
    <3> DEFINE a == [r EXCEPT !.inputs  = Reordered(@, p), !.outputs = Reordered(@, q)]
    <3>1. /\ making' = Draft(a, BuildTransition(a)) /\ BuildTransition(a) = c
          /\ {a.inputs[i] : i \in DOMAIN a.inputs} = {r.inputs[i] : i \in DOMAIN r.inputs}
      BY <1>1, <2>5, RebuiltSame
    <3> HIDE DEF a, r, c
    <3>2. Shown(c, c)
      BY <2>2, CanonShown
    <3> QED BY <3>1, <3>2
  <2>6. ASSUME NEW t \in AssignmentTypes, NEW i \in DOMAIN op.outputs[t], NEW seal \in GraphSeal,
               Reveal(t, i, seal)
        PROVE  \E x : making' = Draft(r, x) /\ Shown(x, c)
    <3>1. /\ making' = Draft(r, RevealAt(op, t, i, seal))
          /\ op.outputs[t][i] = <<1, Conceal[seal], op.outputs[t][i][3]>>
      BY <2>6 DEF Reveal
    <3> HIDE DEF r, c, op
    <3>2. Shown(RevealAt(op, t, i, seal), c)
      BY <2>1, <2>2, <2>6, <3>1, RevealOne
    <3> QED BY <3>1, <3>2
  <2>7. CASE making' = making
    BY <2>7
  <2>8. making # Nothing
    BY <1>1 DEF Nothing
  <2> QED BY <1>1, <2>4, <2>5, <2>6, <2>7, <2>8, OperationSteps
<1>2. ASSUME Holds, Opened, Drafted, [LifeNext]_lifeVars
      PROVE  [making.phase = "operation" /\ making'.phase = "operation"
                => /\ making'.bundle.inputMap = making.bundle.inputMap
                   /\ EncodeDisclose(making.op)' = EncodeDisclose(making.op)
                          <=> making'.op.outputs = making.op.outputs]_lifeVars
  BY <1>1, <1>2
<1>3. LifeSpec => []Holds
  BY HoldsInit, HoldsNext, PTL DEF LifeSpec
<1>4. LifeSpec => []Opened
  BY OpenedInit, OpenedNext, PTL DEF LifeSpec
<1>5. LifeSpec => []Drafted
  BY <1>3, <1>4, DraftedInit, DraftedNext, PTL DEF LifeSpec
<1> QED BY <1>2, <1>3, <1>4, <1>5, PTL DEF LifeSpec, IdSurvives
================================================================================
