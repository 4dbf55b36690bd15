---------------------------- MODULE Schemas_proofs ----------------------------
(***************************************************************************)
(* What the amount rules of an accepted operation say about its totals,    *)
(* for every schema and every word size; and what a sum over a finite set  *)
(* is.                                                                     *)
(***************************************************************************)
EXTENDS Schemas, FiniteSetTheorems, WellFoundedInduction, TLAPS

\* A sum of two words that is not smaller than its first term did not wrap:
\* what the overflow guards of schemas/transition.go rely on.
LEMMA PlusExact ==
    ASSUME NEW x \in Amount, NEW y \in Amount, Plus(x, y) >= x
    PROVE  Plus(x, y) = x + y
<1> DEFINE M == MaxAmount + 1
<1>1. /\ M \in Nat \ {0} /\ x \in Nat /\ y \in Nat /\ y < M /\ x < M
  BY SchemaAssumption DEF Amount
<1>2. CASE x + y < M
  <2>1. (x + y) % M = x + y
    BY <1>1, <1>2
  <2> QED BY <2>1 DEF Plus
<1>3. CASE x + y >= M
  <2>1. x + y - M \in 0 .. M - 1
    BY <1>1, <1>3
  <2>2. (x + y) % M = x + y - M
    BY <1>1, <2>1
  <2>3. x + y - M < x
    BY <1>1
  <2> QED BY <1>1, <2>2, <2>3 DEF Plus
<1> QED BY <1>1, <1>2, <1>3

LEMMA TotalsAreNat ==
    ASSUME NEW t \in Totals
    PROVE  /\ t.asset \in Amount /\ t.inflation \in Amount
           /\ t.asset \in Nat /\ t.inflation \in Nat
BY SchemaAssumption DEF Totals, Side, Amount

LEMMA MetaAmountsAreNat ==
    ASSUME NEW t \in MetaAmounts
    PROVE  /\ t.asset \in Amount /\ t.inflation \in Amount
           /\ t.asset \in Nat /\ t.inflation \in Nat
BY SchemaAssumption DEF MetaAmounts, Amount

\* What an accepted operation does to the totals, without the word size.
LEMMA Effect ==
    ASSUME NEW type, NEW in, NEW out, NEW meta \in MetaAmounts, NEW signed,
           ScriptOK(type, in, out, meta, signed)
    PROVE  /\ in \in Totals /\ out \in Totals
           /\ \/ /\ type = "transfer"
                 /\ in.asset = out.asset
                 /\ in.inflation = out.inflation
              \/ /\ type = "inflate"
                 /\ in.asset = 0
                 /\ in.inflation = out.inflation + out.asset
              \/ /\ type = "burn"
                 /\ in.asset = out.asset + meta.asset
                 /\ in.inflation = out.inflation + meta.inflation
<1>1. /\ in \in Totals /\ out \in Totals
      /\ Occurrences(type, in.listed, out.listed)
  BY DEF ScriptOK
<1>2. CASE type = "transfer" /\ TransferScript(in, out, signed)
  <2>1. in.asset = out.asset
    BY <1>2 DEF TransferScript
  <2>2. in.inflation = out.inflation
    BY <1>1, <1>2 DEF TransferScript, Occurrences, Totals
  <2> QED BY <1>1, <1>2, <2>1, <2>2
<1>3. CASE type = "inflate" /\ InflateScript(in, out, meta)
  <2>1. Plus(meta.asset, meta.inflation) = meta.asset + meta.inflation
    BY <1>3, PlusExact, MetaAmountsAreNat DEF InflateScript
  <2>2. in.asset = 0
    <3>1. Kind = "IFA"
      BY <1>3 DEF InflateScript
    <3>2. "asset" \notin in.listed
      BY <1>1, <1>3, <3>1 DEF Occurrences
    <3> QED BY <1>1, <3>2 DEF Totals
  <2>3. in.inflation = out.inflation + out.asset
    BY <1>3, <2>1, MetaAmountsAreNat DEF InflateScript
  <2> QED BY <1>1, <1>3, <2>2, <2>3
<1>4. CASE type = "burn" /\ BurnScript(in, out, meta)
  <2>1. Plus(out.asset, meta.asset) = out.asset + meta.asset
    BY <1>1, <1>4, PlusExact, TotalsAreNat, MetaAmountsAreNat DEF BurnScript
  <2>2. Plus(out.inflation, meta.inflation) = out.inflation + meta.inflation
    BY <1>1, <1>4, PlusExact, TotalsAreNat, MetaAmountsAreNat DEF BurnScript
  <2> QED BY <1>1, <1>4, <2>1, <2>2 DEF BurnScript
<1> QED BY <1>1, <1>2, <1>3, <1>4 DEF ScriptOK

\* A set of numbers has a least one.
LEMMA LeastNatural ==
  ASSUME NEW T \in SUBSET Nat, T # {}
  PROVE  \E x \in T : \A y \in T : x <= y
<1> DEFINE R == OpToRel(<, Nat)
<1>1. IsWellFoundedOn(R, Nat)
  BY NatLessThanWellFounded
<1>2. \A x, y \in Nat : y < x => <<y, x>> \in R
  BY DEF OpToRel
<1> HIDE DEF R
<1>3. PICK x \in T : \A y \in T : ~ (<<y, x>> \in R)
  BY <1>1, WFMin
<1>4. \A y \in T : ~(y < x)
  BY <1>2, <1>3
<1> QED
  BY <1>4

(***************************************************************************)
(* Totals.  A sum over a finite set is counted: the elements, each taken   *)
(* as many times as it is worth.                                           *)
(***************************************************************************)
Units(worth, s) == {u \in s \X Nat : u[2] \in 1 .. worth[u[1]]}

LEMMA UnitsOfOne ==
    ASSUME NEW worth, NEW x, worth[x] \in Nat
    PROVE  IsFiniteSet(Units(worth, {x})) /\ Cardinality(Units(worth, {x})) = worth[x]
<1> DEFINE I == 1 .. worth[x]
           f == [i \in I |-> <<x, i>>]
           U == Units(worth, {x})
<1>1. IsFiniteSet(I) /\ Cardinality(I) = worth[x]
  BY FS_Interval
<1>2. f \in [I -> U]
  BY DEF Units
<1>3. \A i, j \in I : f[i] = f[j] => i = j
  OBVIOUS
<1>4. \A u \in U : \E i \in I : f[i] = u
  <2> SUFFICES ASSUME NEW u \in U PROVE u[2] \in I /\ f[u[2]] = u
    OBVIOUS
  <2> QED BY DEF Units
<1>5. ExistsBijection(I, U)
  <2> HIDE DEF f, U, I
  <2>1. f \in Bijection(I, U)
    BY <1>2, <1>3, <1>4 DEF Bijection, Injection, IsInjective, Surjection
  <2> QED BY <2>1 DEF ExistsBijection
<1> QED BY <1>1, <1>5, FS_Bijection

LEMMA UnitsFinite ==
    ASSUME NEW s, IsFiniteSet(s), NEW worth, \A x \in s : worth[x] \in Nat
    PROVE  IsFiniteSet(Units(worth, s))
<1> DEFINE f == [x \in s |-> Units(worth, {x})]
           T == {Units(worth, {x}) : x \in s}
<1>1. f \in Surjection(s, T)
  BY DEF Surjection
<1>2. IsFiniteSet(T)
  <2> HIDE DEF f, T
  <2> QED BY <1>1, FS_Surjection
<1>3. \A t \in T : IsFiniteSet(t)
  BY UnitsOfOne
<1>4. Units(worth, s) = UNION T
  BY DEF Units
<1> HIDE DEF T
<1> QED BY <1>2, <1>3, <1>4, FS_UNION

LEMMA UnitsAdd ==
    ASSUME NEW worth, NEW s, NEW t, IsFiniteSet(s), IsFiniteSet(t), s \cap t = {},
           \A x \in s \cup t : worth[x] \in Nat
    PROVE  Cardinality(Units(worth, s \cup t))
               = Cardinality(Units(worth, s)) + Cardinality(Units(worth, t))
<1> DEFINE A == Units(worth, s)
           B == Units(worth, t)
<1>1. Units(worth, s \cup t) = A \cup B /\ A \cap B = {}
  BY DEF Units
<1>2. IsFiniteSet(A) /\ IsFiniteSet(B)
  BY UnitsFinite
<1> HIDE DEF A, B
<1>3. Cardinality(A) \in Nat /\ Cardinality(B) \in Nat
  BY <1>2, FS_CardinalityType
<1>4. Cardinality(A \cup B) = Cardinality(A) + Cardinality(B) - Cardinality(A \cap B)
  BY <1>2, FS_Union
<1>5. Cardinality(A \cap B) = 0
  BY <1>1, FS_EmptySet
<1>6. Cardinality(A \cup B) = Cardinality(A) + Cardinality(B)
  BY <1>3, <1>4, <1>5
<1> QED BY <1>1, <1>6 DEF A, B

LEMMA UnitsNone == \A worth : Cardinality(Units(worth, {})) = 0
<1>1. \A worth : Units(worth, {}) = {}
  BY DEF Units
<1> QED BY <1>1, FS_EmptySet

\* The recursion of the folds, for a function of what each element is worth.
Summing(it, worth, S) ==
    it = [s \in SUBSET S |->
             IF s = {} THEN 0
             ELSE worth[CHOOSE x \in s : TRUE] + it[s \ {CHOOSE x \in s : TRUE}]]

LEMMA UnitsSum ==
    ASSUME NEW S, IsFiniteSet(S), NEW worth, \A x \in S : worth[x] \in Nat
    PROVE  Summing([s \in SUBSET S |-> Cardinality(Units(worth, s))], worth, S)
<1> SUFFICES ASSUME NEW s \in SUBSET S
             PROVE  Cardinality(Units(worth, s)) =
                        IF s = {} THEN 0
                        ELSE worth[CHOOSE x \in s : TRUE]
                             + Cardinality(Units(worth, s \ {CHOOSE x \in s : TRUE}))
  BY DEF Summing
<1>1. CASE s = {}
  BY <1>1, UnitsNone
<1>2. CASE s # {}
  <2> DEFINE y == CHOOSE x \in s : TRUE
             t == s \ {y}
  <2>1. y \in s
    BY <1>2
  <2> HIDE DEF y
  <2>2. IsFiniteSet(t) /\ IsFiniteSet({y})
    BY FS_Subset, FS_Singleton
  <2>3. s = t \cup {y} /\ t \cap {y} = {} /\ worth[y] \in Nat
    BY <2>1
  <2>4. Cardinality(Units(worth, s)) = Cardinality(Units(worth, t)) + worth[y]
    <3> HIDE DEF t
    <3>1. Cardinality(Units(worth, t \cup {y}))
              = Cardinality(Units(worth, t)) + Cardinality(Units(worth, {y}))
      <4>1. \A x \in t \cup {y} : worth[x] \in Nat
        BY <2>3
      <4> QED BY <2>2, <2>3, <4>1, UnitsAdd
    <3>2. Cardinality(Units(worth, {y})) = worth[y]
      BY <2>3, UnitsOfOne
    <3> QED BY <2>3, <3>1, <3>2
  <2>5. Cardinality(Units(worth, t)) \in Nat
    BY <2>2, UnitsFinite, FS_CardinalityType
  <2>6. Cardinality(Units(worth, s)) = worth[y] + Cardinality(Units(worth, t))
    BY <2>3, <2>4, <2>5
  <2> QED BY <1>2, <2>6 DEF y
<1> QED BY <1>1, <1>2

LEMMA SumIsCounted ==
    ASSUME NEW S, IsFiniteSet(S), NEW worth, \A x \in S : worth[x] \in Nat,
           NEW it, Summing(it, worth, S)
    PROVE  it[S] = Cardinality(Units(worth, S))
<1> DEFINE C(s) == Cardinality(Units(worth, s))
           Bad == {n \in Nat : \E s \in SUBSET S : Cardinality(s) = n /\ it[s] # C(s)}
<1>1. \A s \in SUBSET S : it[s] = IF s = {} THEN 0
             ELSE worth[CHOOSE x \in s : TRUE] + it[s \ {CHOOSE x \in s : TRUE}]
  BY DEF Summing
<1>2. \A s \in SUBSET S : C(s) = IF s = {} THEN 0
             ELSE worth[CHOOSE x \in s : TRUE] + C(s \ {CHOOSE x \in s : TRUE})
  <2> DEFINE f == [s \in SUBSET S |-> C(s)]
  <2>1. Summing(f, worth, S)
    BY UnitsSum
  <2>2. \A s \in SUBSET S : f[s] = IF s = {} THEN 0
             ELSE worth[CHOOSE x \in s : TRUE] + f[s \ {CHOOSE x \in s : TRUE}]
    <3> HIDE DEF f
    <3> QED BY <2>1 DEF Summing
  <2>3. \A s \in SUBSET S : f[s] = C(s)
    OBVIOUS
  <2>4. \A s, x : s \in SUBSET S => s \ {x} \in SUBSET S
    OBVIOUS
  <2> HIDE DEF f, C
  <2> QED BY <2>2, <2>3, <2>4
<1>3. \A s \in SUBSET S : IsFiniteSet(s) /\ Cardinality(s) \in Nat
  BY FS_Subset, FS_CardinalityType
<1> HIDE DEF C
<1>4. Bad = {}
  <2> SUFFICES ASSUME Bad # {} PROVE FALSE
    OBVIOUS
  <2>1. PICK n \in Bad : \A m \in Bad : n <= m
    BY LeastNatural
  <2>2. PICK s \in SUBSET S : Cardinality(s) = n /\ it[s] # C(s)
    BY <2>1
  <2>3. s # {}
    BY <1>1, <1>2, <2>2
  <2> DEFINE y == CHOOSE x \in s : TRUE
             t == s \ {y}
  <2>4. y \in s
    BY <2>3
  <2>5. it[s] = worth[y] + it[t] /\ C(s) = worth[y] + C(t)
    BY <1>1, <1>2, <2>3
  <2> HIDE DEF y
  <2>6. Cardinality(t) = Cardinality(s) - 1 /\ t \in SUBSET S
    BY <1>3, <2>4, FS_RemoveElement
  <2>7. Cardinality(t) \in Bad
    BY <1>3, <2>2, <2>5, <2>6
  <2>8. n \in Nat /\ Cardinality(t) = n - 1
    BY <2>1, <2>2, <2>6
  <2>9. n <= n - 1
    BY <2>1, <2>7, <2>8
  <2> QED BY <2>8, <2>9
<1>5. S \in SUBSET S /\ Cardinality(S) \in Nat
  BY <1>3
<1>6. it[S] = C(S)
  BY <1>4, <1>5
<1> QED BY <1>6 DEF C
===============================================================================
