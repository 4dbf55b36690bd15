--------------------------- MODULE Histories_proofs ---------------------------
(***************************************************************************)
(* Merging good histories keeps them good, and a container whose flag is   *)
(* set holds a good history, whatever was received and however it was      *)
(* merged, extended and enriched.                                          *)
(***************************************************************************)
EXTENDS Histories, Schemas_proofs

-------------------------------------------------------------------------------
(***************************************************************************)
(* A good history without the condition that nothing is consumed twice,    *)
(* and that condition within one bundle and between two.                   *)
(***************************************************************************)
Supported(c, p) ==
    /\ TransitionValid(At(c, p))
    /\ \A r \in Inputs(At(c, p)) :
           InputMapCommits(c.bundles[p[1]].id, r, At(c, p)) /\ MadeAndClosed(c, r, p)

Ancestral(c) ==
    /\ \A i \in DOMAIN c.bundles :
           /\ BundleWellFormed(c.bundles[i])
           /\ Transaction[c.bundles[i].tx].commits = c.bundles[i].id
    /\ \A p \in Positions(c) : Supported(c, p)

ConsumedApart(w) ==
    \A k, l \in DOMAIN w.known : k # l => Inputs(w.known[k]) \cap Inputs(w.known[l]) = {}

BundlesApart(c) == \A i \in DOMAIN c.bundles : ConsumedApart(c.bundles[i])

LEMMA PositionFacts ==
  ASSUME NEW c \in Container, NEW p \in Positions(c)
  PROVE  /\ p = <<p[1], p[2]>> /\ p[1] \in DOMAIN c.bundles /\ p[1] \in Nat /\ p[2] \in Nat
         /\ c.bundles[p[1]] \in WitnessBundle
         /\ p[2] \in DOMAIN c.bundles[p[1]].known
         /\ At(c, p) \in Op \ {Genesis}
         /\ At(c, p) = c.bundles[p[1]].known[p[2]]
         /\ WitnessAt(c, p) = c.bundles[p[1]].tx
<1>1. p = <<p[1], p[2]>> /\ p[1] \in DOMAIN c.bundles /\ p[2] \in DOMAIN c.bundles[p[1]].known
  BY DEF Positions
<1>2. c.bundles \in Seq(WitnessBundle)
  BY DEF Container
<1>3. c.bundles[p[1]] \in WitnessBundle /\ p[1] \in Nat
  BY <1>1, <1>2
<1>4. c.bundles[p[1]].known \in Seq(Op \ {Genesis})
  BY <1>3 DEF WitnessBundle
<1>5. At(c, p) \in Op \ {Genesis} /\ p[2] \in Nat
  BY <1>1, <1>4 DEF At
<1> QED
  BY <1>1, <1>3, <1>5 DEF At, WitnessAt

LEMMA PositionIn ==
  ASSUME NEW c, NEW i \in DOMAIN c.bundles, NEW k \in DOMAIN c.bundles[i].known
  PROVE  <<i, k>> \in Positions(c)
  BY DEF Positions

LEMMA GoodIsAncestral ==
  ASSUME NEW c \in Container, HistoryGood(c)
  PROVE  Ancestral(c) /\ BundlesApart(c)
<1>1. Ancestral(c)
  BY DEF HistoryGood, Ancestral, Supported
<1>2. ASSUME NEW i \in DOMAIN c.bundles, NEW k \in DOMAIN c.bundles[i].known,
             NEW l \in DOMAIN c.bundles[i].known, k # l,
             NEW r \in Inputs(c.bundles[i].known[k])
      PROVE  r \notin Inputs(c.bundles[i].known[l])
  <2>1. <<i, k>> \in Positions(c) /\ <<i, l>> \in Positions(c) \ {<<i, k>>}
    BY <1>2, PositionIn
  <2>2. r \in Inputs(At(c, <<i, k>>))
    BY DEF At
  <2>3. r \notin Inputs(At(c, <<i, l>>))
    BY <2>1, <2>2 DEF HistoryGood
  <2> QED
    BY <2>3 DEF At
<1> QED
  BY <1>1, <1>2 DEF BundlesApart, ConsumedApart

(***************************************************************************)
(* If no two witnesses spend the same output, no two transitions consume   *)
(* the same state: of two that did, the operation that made the state      *)
(* would be listed twice before them, and consume its own inputs twice.    *)
(***************************************************************************)
TwiceBefore(c, n) ==
    \E p, q \in Positions(c) :
        p # q /\ p[1] + q[1] = n /\ Inputs(At(c, p)) \cap Inputs(At(c, q)) # {}

LEMMA TwiceComesFromTwice ==
  ASSUME NEW c \in Container, Ancestral(c), BundlesApart(c), WitnessesCompatible(c),
         NEW n \in Nat, TwiceBefore(c, n)
  PROVE  \E m \in Nat : m < n /\ TwiceBefore(c, m)
<1> USE ConsignmentAssumption
<1>1. PICK p, q \in Positions(c) :
        p # q /\ p[1] + q[1] = n /\ Inputs(At(c, p)) \cap Inputs(At(c, q)) # {}
  BY DEF TwiceBefore
<1>2. PICK r \in Inputs(At(c, p)) : r \in Inputs(At(c, q))
  BY <1>1
<1>3. MadeAndClosed(c, r, p) /\ MadeAndClosed(c, r, q)
  BY <1>2 DEF Ancestral, Supported
<1>4. p[1] # q[1]
  <2> SUFFICES ASSUME p[1] = q[1] PROVE FALSE
    OBVIOUS
  <2>1. p[2] # q[2]
    BY <1>1, PositionFacts
  <2>2. p[1] \in DOMAIN c.bundles /\ p[2] \in DOMAIN c.bundles[p[1]].known
         /\ At(c, p) = c.bundles[p[1]].known[p[2]]
    BY PositionFacts
  <2>3. q[2] \in DOMAIN c.bundles[p[1]].known /\ At(c, q) = c.bundles[p[1]].known[q[2]]
    <3>1. q[2] \in DOMAIN c.bundles[q[1]].known /\ At(c, q) = c.bundles[q[1]].known[q[2]]
      BY PositionFacts
    <3> QED
      BY <3>1
  <2>4. ConsumedApart(c.bundles[p[1]])
    BY <2>2 DEF BundlesApart
  <2>5. Inputs(c.bundles[p[1]].known[p[2]]) \cap Inputs(c.bundles[p[1]].known[q[2]]) = {}
    <3> DEFINE w == c.bundles[p[1]]
    <3>1. ConsumedApart(w) /\ p[2] \in DOMAIN w.known /\ q[2] \in DOMAIN w.known
      BY <2>2, <2>3, <2>4
    <3> HIDE DEF w
    <3>2. Inputs(w.known[p[2]]) \cap Inputs(w.known[q[2]]) = {}
      BY <2>1, <3>1 DEF ConsumedApart
    <3> QED
      BY <3>2 DEF w
  <2> QED
    BY <1>1, <2>2, <2>3, <2>5
<1>5. \A o : ~(Spends(WitnessAt(c, p), o) /\ Spends(WitnessAt(c, q), o))
  BY <1>4, PositionFacts DEF WitnessesCompatible, Spends
<1>6. r.op # Genesis
  <2> SUFFICES ASSUME r.op = Genesis PROVE FALSE
    OBVIOUS
  <2>1. \A x \in Positions(c) : At(c, x) # r.op
    BY PositionFacts
  <2>2. Spends(WitnessAt(c, p), OutpointOf(r, NoTx)) /\ Spends(WitnessAt(c, q), OutpointOf(r, NoTx))
    BY <1>3, <2>1 DEF MadeAndClosed
  <2> QED
    BY <1>5, <2>2
<1>7. PICK x \in Positions(c) : /\ Before(x, p) /\ At(c, x) = r.op
                                /\ Spends(WitnessAt(c, p), OutpointOf(r, WitnessAt(c, x)))
  BY <1>3, <1>6 DEF MadeAndClosed
<1>8. PICK y \in Positions(c) : /\ Before(y, q) /\ At(c, y) = r.op
                                /\ Spends(WitnessAt(c, q), OutpointOf(r, WitnessAt(c, y)))
  BY <1>3, <1>6 DEF MadeAndClosed
<1>9. x[1] # y[1]
  BY <1>5, <1>7, <1>8, PositionFacts
<1>10. x[1] <= p[1] /\ y[1] <= q[1]
  BY <1>7, <1>8, PositionFacts DEF Before
<1>11. Inputs(At(c, x)) # {} /\ Inputs(At(c, x)) = Inputs(At(c, y))
  BY <1>7, <1>8, PositionFacts
<1>12. x[1] # p[1]
  <2> SUFFICES ASSUME x[1] = p[1] PROVE FALSE
    OBVIOUS
  <2>1. OutpointOf(r, WitnessAt(c, x)) = OutpointOf(r, WitnessAt(c, y))
           \/ OutpointOf(r, WitnessAt(c, x)).tx = WitnessAt(c, x)
    BY DEF OutpointOf
  <2>2. WitnessAt(c, p) = WitnessAt(c, x) /\ WitnessAt(c, p) \in Tx
    BY PositionFacts DEF WitnessBundle
  <2>3. OutpointOf(r, WitnessAt(c, x)).tx # WitnessAt(c, p)
    BY <1>7, <2>2, TransactionAssumption DEF Spends
  <2> QED
    BY <1>5, <1>7, <1>8, <2>1, <2>2, <2>3
<1> DEFINE m == x[1] + y[1]
<1>13. m \in Nat /\ m < n
  BY <1>1, <1>10, <1>12, PositionFacts
<1>14. TwiceBefore(c, m)
  BY <1>9, <1>11 DEF TwiceBefore
<1> QED
  BY <1>13, <1>14

LEMMA NothingTwice ==
  ASSUME NEW c \in Container, Ancestral(c), BundlesApart(c), WitnessesCompatible(c)
  PROVE  HistoryGood(c)
<1> DEFINE Measures == {n \in Nat : TwiceBefore(c, n)}
<1>1. Measures = {}
  <2> SUFFICES ASSUME Measures # {} PROVE FALSE
    OBVIOUS
  <2>1. PICK n \in Measures : \A m \in Measures : n <= m
    BY LeastNatural
  <2>2. PICK m \in Nat : m < n /\ TwiceBefore(c, m)
    BY <2>1, TwiceComesFromTwice
  <2> QED
    BY <2>1, <2>2
<1>2. ASSUME NEW p \in Positions(c), NEW r \in Inputs(At(c, p)),
             NEW q \in Positions(c) \ {p}
      PROVE  r \notin Inputs(At(c, q))
  <2>1. p[1] + q[1] \in Nat
    BY PositionFacts
  <2>2. ~TwiceBefore(c, p[1] + q[1])
    BY <1>1, <2>1
  <2> QED
    BY <2>2 DEF TwiceBefore
<1> QED
  BY <1>2 DEF HistoryGood, Ancestral, Supported

(***************************************************************************)
(* A container that grows: bundles come last, and seals are revealed.      *)
(***************************************************************************)
GrownFrom(c, d) ==
    /\ DOMAIN c.bundles \subseteq DOMAIN d.bundles
    /\ \A i \in DOMAIN c.bundles : d.bundles[i] = c.bundles[i]
    /\ c.revealed \subseteq d.revealed

LEMMA SupportedKept ==
  ASSUME NEW c, NEW d, GrownFrom(c, d), NEW p \in Positions(c), Supported(c, p)
  PROVE  p \in Positions(d) /\ Supported(d, p)
<1>1. ASSUME NEW q \in Positions(c)
      PROVE  q \in Positions(d) /\ At(d, q) = At(c, q) /\ WitnessAt(d, q) = WitnessAt(c, q)
  <2>1. PICK i \in DOMAIN c.bundles : q \in {i} \X DOMAIN c.bundles[i].known
    BY DEF Positions
  <2>2. q = <<i, q[2]>> /\ q[2] \in DOMAIN c.bundles[i].known
    BY <2>1
  <2>3. i \in DOMAIN d.bundles /\ d.bundles[i] = c.bundles[i]
    BY DEF GrownFrom
  <2>4. q \in Positions(d)
    BY <2>1, <2>3 DEF Positions
  <2> QED
    BY <2>2, <2>3, <2>4 DEF At, WitnessAt
<1>2. c.bundles[p[1]].id = d.bundles[p[1]].id
  <2>1. p[1] \in DOMAIN c.bundles
    BY DEF Positions
  <2> QED
    BY <2>1 DEF GrownFrom
<1>3. ASSUME NEW r, MadeAndClosed(c, r, p)
      PROVE  MadeAndClosed(d, r, p)
  <2>1. r \in RevealedOutputs(d, r.op)
    BY <1>3 DEF MadeAndClosed, RevealedOutputs, GrownFrom
  <2>2. CASE r.op = Genesis /\ Spends(WitnessAt(c, p), OutpointOf(r, NoTx))
    BY <1>1, <2>1, <2>2 DEF MadeAndClosed
  <2>3. ASSUME NEW q \in Positions(c), Before(q, p), At(c, q) = r.op,
               Spends(WitnessAt(c, p), OutpointOf(r, WitnessAt(c, q)))
        PROVE  MadeAndClosed(d, r, p)
    <3>1. q \in Positions(d) /\ At(d, q) = r.op
          /\ Spends(WitnessAt(d, p), OutpointOf(r, WitnessAt(d, q)))
      BY <1>1, <2>3
    <3> QED
      BY <2>1, <2>3, <3>1 DEF MadeAndClosed
  <2> QED
    BY <1>3, <2>2, <2>3 DEF MadeAndClosed
<1>4. At(d, p) = At(c, p) /\ p \in Positions(d)
  BY <1>1
<1>5. \A r \in Inputs(At(d, p)) :
          InputMapCommits(d.bundles[p[1]].id, r, At(d, p)) /\ MadeAndClosed(d, r, p)
  BY <1>2, <1>3, <1>4 DEF Supported
<1> QED
  BY <1>4, <1>5 DEF Supported

LEMMA AncestralKept ==
  ASSUME NEW c, NEW d, d.bundles = c.bundles, c.revealed \subseteq d.revealed,
         Ancestral(c), BundlesApart(c)
  PROVE  Ancestral(d) /\ BundlesApart(d)
<1>1. GrownFrom(c, d)
  BY DEF GrownFrom
<1>2. Positions(d) = Positions(c)
  BY DEF Positions
<1>3. \A p \in Positions(d) : Supported(d, p)
  BY <1>1, <1>2, SupportedKept DEF Ancestral
<1> QED
  BY <1>3 DEF Ancestral, BundlesApart

\* Revealing more keeps a good history good.
LEMMA GoodKept ==
  ASSUME NEW c \in Container, NEW d, d.bundles = c.bundles, c.revealed \subseteq d.revealed,
         HistoryGood(c)
  PROVE  HistoryGood(d)
<1>1. Ancestral(d)
  BY GoodIsAncestral, AncestralKept
<1>2. Positions(d) = Positions(c) /\ \A p \in Positions(c) : At(d, p) = At(c, p)
  BY DEF Positions, At
<1>3. \A p \in Positions(d) : \A r \in Inputs(At(d, p)) : \A q \in Positions(d) \ {p} :
          r \notin Inputs(At(d, q))
  BY <1>2 DEF HistoryGood
<1> QED
  BY <1>1, <1>3 DEF HistoryGood, Ancestral, Supported

(***************************************************************************)
(* The loop of MergeHistories: what holds of the result c of merging the   *)
(* first n-1 bundles of p into b.                                          *)
(***************************************************************************)
Covered(c, p, k) ==
    /\ \E i \in DOMAIN c.bundles : /\ c.bundles[i].id = p.bundles[k].id
                                   /\ SameBundle(c.bundles[i], p.bundles[k])
    /\ p.revealed \cap OutputsOf(KnownOps(p.bundles[k])) \subseteq c.revealed

IdsBefore(p, n) == {p.bundles[k].id : k \in {k \in DOMAIN p.bundles : k < n}}

Progress(b, p, n, c) ==
    /\ GrownFrom(b, c)
    /\ SameStatic(b, p)
    /\ NoDuplicate(c)
    /\ Ids(c) \subseteq Ids(b) \cup IdsBefore(p, n)
    /\ c.revealed \subseteq b.revealed \cup p.revealed
    /\ \A k \in DOMAIN p.bundles : k < n => Covered(c, p, k)
    /\ HistoryGood(b) /\ HistoryGood(p) => Ancestral(c) /\ BundlesApart(c)

LEMMA SameBundleReflexive ==
  ASSUME NEW v
  PROVE  SameBundle(v, v)
  BY DEF SameBundle

LEMMA CoveredKept ==
  ASSUME NEW c, NEW d, GrownFrom(c, d), NEW p, NEW k, Covered(c, p, k)
  PROVE  Covered(d, p, k)
  BY DEF Covered, GrownFrom

LEMMA ProgressStart ==
  ASSUME NEW b \in Container, NEW p \in Container, SameStatic(b, p), NoDuplicate(b),
         NEW c, c.bundles = b.bundles, c.revealed = b.revealed
  PROVE  Progress(b, p, 1, c)
<1>1. GrownFrom(b, c) /\ NoDuplicate(c) /\ Ids(c) = Ids(b)
  BY DEF GrownFrom, NoDuplicate, Ids
<1>2. DOMAIN p.bundles = 1..Len(p.bundles)
  BY DEF Container
<1>3. \A k \in DOMAIN p.bundles : ~(k < 1)
  BY <1>2
<1>4. HistoryGood(b) => Ancestral(c) /\ BundlesApart(c)
  BY GoodIsAncestral, AncestralKept
<1> QED
  BY <1>1, <1>3, <1>4 DEF Progress

\* The next bundle is shared: it is enriched.
LEMMA ProgressShared ==
  ASSUME NEW b, NEW p \in Container, NEW n \in DOMAIN p.bundles, NEW c \in Container,
         Progress(b, p, n, c),
         NEW i \in DOMAIN c.bundles, c.bundles[i].id = p.bundles[n].id,
         SameBundle(c.bundles[i], p.bundles[n]),
         NEW d, d.bundles = c.bundles,
         d.revealed = c.revealed \cup (p.revealed \cap OutputsOf(KnownOps(p.bundles[n])))
  PROVE  Progress(b, p, n + 1, d)
<1>1. GrownFrom(c, d)
  BY DEF GrownFrom
<1>2. GrownFrom(b, d)
  BY <1>1 DEF Progress, GrownFrom
<1>3. NoDuplicate(d) /\ Ids(d) = Ids(c)
  BY DEF Progress, NoDuplicate, Ids
<1>4. Covered(d, p, n)
  BY DEF Covered
<1>5. \A k \in DOMAIN p.bundles : k < n + 1 => Covered(d, p, k)
  <2>1. p.bundles \in Seq(WitnessBundle)
    BY DEF Container
  <2>2. \A k \in DOMAIN p.bundles : k < n + 1 => k < n \/ k = n
    BY <2>1
  <2> QED
    BY <1>1, <1>4, <2>2, CoveredKept DEF Progress
<1>6. HistoryGood(b) /\ HistoryGood(p) => Ancestral(d) /\ BundlesApart(d)
  BY AncestralKept DEF Progress
<1>7. IdsBefore(p, n) \subseteq IdsBefore(p, n + 1)
  <2>1. p.bundles \in Seq(WitnessBundle)
    BY DEF Container
  <2>2. \A k \in DOMAIN p.bundles : k < n => k < n + 1
    BY <2>1
  <2> QED
    BY <2>2 DEF IdsBefore
<1> QED
  BY <1>2, <1>3, <1>5, <1>6, <1>7 DEF Progress

LEMMA Appended ==
  ASSUME NEW c \in Container, NEW v \in WitnessBundle, NEW d, d.bundles = Append(c.bundles, v)
  PROVE  /\ Len(c.bundles) \in Nat
         /\ DOMAIN c.bundles = 1..Len(c.bundles)
         /\ DOMAIN d.bundles = 1..(Len(c.bundles) + 1)
         /\ d.bundles \in Seq(WitnessBundle)
         /\ \A i \in DOMAIN c.bundles : d.bundles[i] = c.bundles[i]
         /\ d.bundles[Len(c.bundles) + 1] = v
         /\ Ids(d) = Ids(c) \cup {v.id}
<1>1. c.bundles \in Seq(WitnessBundle)
  BY DEF Container
<1>2. /\ DOMAIN c.bundles = 1..Len(c.bundles) /\ Len(c.bundles) \in Nat
      /\ d.bundles \in Seq(WitnessBundle)
      /\ DOMAIN d.bundles = 1..(Len(c.bundles) + 1)
      /\ \A i \in DOMAIN c.bundles : d.bundles[i] = c.bundles[i]
      /\ d.bundles[Len(c.bundles) + 1] = v
  BY <1>1
<1>3. DOMAIN d.bundles = DOMAIN c.bundles \cup {Len(c.bundles) + 1}
  BY <1>2
<1>4. Ids(d) = Ids(c) \cup {v.id}
  BY <1>2, <1>3 DEF Ids
<1> QED
  BY <1>2, <1>4

\* The next bundle is new: it goes last, where its ancestors are before it.
LEMMA ProgressNew ==
  ASSUME NEW b \in Container, NEW p \in Container, NEW n \in DOMAIN p.bundles,
         NEW c \in Container, Progress(b, p, n, c),
         p.bundles[n].id \notin Ids(c),
         NEW d, d.bundles = Append(c.bundles, p.bundles[n]),
         d.revealed = c.revealed \cup (p.revealed \cap OutputsOf(KnownOps(p.bundles[n])))
  PROVE  Progress(b, p, n + 1, d)
<1> DEFINE v == p.bundles[n]
           last == Len(c.bundles) + 1
<1>0. v \in WitnessBundle /\ n \in Nat /\ DOMAIN p.bundles \subseteq Nat
  <2>1. p.bundles \in Seq(WitnessBundle)
    BY DEF Container
  <2> QED
    BY <2>1
<1>1. /\ Len(c.bundles) \in Nat
      /\ DOMAIN c.bundles = 1..Len(c.bundles)
      /\ DOMAIN d.bundles = DOMAIN c.bundles \cup {last}
      /\ last \in Nat /\ last \notin DOMAIN c.bundles
      /\ \A i \in DOMAIN c.bundles : i < last
      /\ \A i \in DOMAIN c.bundles : d.bundles[i] = c.bundles[i]
      /\ d.bundles[last] = v
      /\ Ids(d) = Ids(c) \cup {v.id}
  BY <1>0, Appended
<1> HIDE DEF last
<1>2. GrownFrom(c, d)
  BY <1>1 DEF GrownFrom
<1>3. GrownFrom(b, d)
  BY <1>2 DEF Progress, GrownFrom
<1>4. NoDuplicate(d)
  <2>1. \A i \in DOMAIN c.bundles : c.bundles[i].id # v.id
    BY DEF Ids
  <2> QED
    BY <1>1, <2>1 DEF Progress, NoDuplicate
<1>5. Ids(d) \subseteq Ids(b) \cup IdsBefore(p, n + 1)
  <2>1. \A k \in DOMAIN p.bundles : k < n => k < n + 1
    BY <1>0
  <2>2. n < n + 1
    BY <1>0
  <2>3. v.id \in IdsBefore(p, n + 1)
    BY <2>2 DEF IdsBefore
  <2>4. IdsBefore(p, n) \subseteq IdsBefore(p, n + 1)
    BY <2>1 DEF IdsBefore
  <2> QED
    BY <1>1, <2>3, <2>4 DEF Progress
<1>6. Covered(d, p, n)
  BY <1>1, SameBundleReflexive DEF Covered
<1>7. \A k \in DOMAIN p.bundles : k < n + 1 => Covered(d, p, k)
  <2>1. \A k \in DOMAIN p.bundles : k < n + 1 => k < n \/ k = n
    BY <1>0
  <2> QED
    BY <1>2, <1>6, <2>1, CoveredKept DEF Progress
<1>8. ASSUME HistoryGood(b), HistoryGood(p)
      PROVE  Ancestral(d) /\ BundlesApart(d)
  <2>1. Ancestral(c) /\ BundlesApart(c)
    BY <1>8 DEF Progress
  <2>2. Ancestral(p) /\ BundlesApart(p)
    BY <1>8, GoodIsAncestral
  <2>3. BundlesApart(d)
    BY <1>1, <2>1, <2>2 DEF BundlesApart
  <2>4. \A i \in DOMAIN d.bundles : /\ BundleWellFormed(d.bundles[i])
                                    /\ Transaction[d.bundles[i].tx].commits = d.bundles[i].id
    BY <1>1, <2>1, <2>2 DEF Ancestral
  <2>5. ASSUME NEW k \in DOMAIN v.known
        PROVE  Supported(d, <<last, k>>)
    <3> DEFINE there == <<n, k>>
               here  == <<last, k>>
    <3>1. there \in Positions(p) /\ here \in Positions(d)
      BY <1>1, <2>5, PositionIn
    <3>2. /\ At(p, there) = v.known[k] /\ At(d, here) = v.known[k]
          /\ WitnessAt(d, here) = WitnessAt(p, there)
          /\ d.bundles[here[1]].id = p.bundles[there[1]].id
      BY <1>1 DEF At, WitnessAt
    <3>3. Supported(p, there)
      BY <2>2, <3>1 DEF Ancestral
    <3>4. ASSUME NEW r \in Inputs(v.known[k])
          PROVE  MadeAndClosed(d, r, here)
      <4>1. MadeAndClosed(p, r, there)
        BY <3>2, <3>3, <3>4 DEF Supported
      <4>2. r \in p.revealed /\ r \in Outputs(r.op)
        BY <4>1 DEF MadeAndClosed, RevealedOutputs
      <4>3. CASE r.op = Genesis /\ Spends(WitnessAt(p, there), OutpointOf(r, NoTx))
        <5>1. r \in b.revealed
          BY <4>2, <4>3 DEF Progress, SameStatic
        <5>2. r \in d.revealed
          BY <1>3, <5>1 DEF GrownFrom
        <5> QED
          BY <3>2, <4>2, <4>3, <5>2 DEF MadeAndClosed, RevealedOutputs
      <4>4. ASSUME NEW q \in Positions(p), Before(q, there), At(p, q) = r.op,
                   Spends(WitnessAt(p, there), OutpointOf(r, WitnessAt(p, q)))
            PROVE  MadeAndClosed(d, r, here)
        <5>1. /\ q[1] \in DOMAIN p.bundles /\ q[2] \in DOMAIN p.bundles[q[1]].known
              /\ p.bundles[q[1]].known[q[2]] = r.op
              /\ WitnessAt(p, q) = p.bundles[q[1]].tx
          BY <4>4, PositionFacts
        <5>2. r.op \in KnownOps(p.bundles[q[1]])
          BY <5>1 DEF KnownOps
        <5>3. r \in p.revealed \cap OutputsOf(KnownOps(p.bundles[q[1]]))
          BY <4>2, <5>2 DEF OutputsOf
        <5>4. q[1] < n \/ (q[1] = n /\ q[2] < k)
          BY <4>4 DEF Before
        <5>5. PICK x \in Positions(d) : /\ Before(x, here) /\ At(d, x) = r.op
                                        /\ WitnessAt(d, x) = WitnessAt(p, q)
          <6>1. CASE q[1] < n
            <7>1. Covered(c, p, q[1])
              BY <5>1, <6>1 DEF Progress
            <7>2. PICK i \in DOMAIN c.bundles : SameBundle(c.bundles[i], p.bundles[q[1]])
              BY <7>1 DEF Covered
            <7>3. PICK l \in DOMAIN c.bundles[i].known : c.bundles[i].known[l] = r.op
              BY <5>2, <7>2 DEF SameBundle, KnownOps
            <7>4. <<i, l>> \in Positions(d)
              BY <1>1, PositionIn
            <7>5. At(d, <<i, l>>) = r.op /\ WitnessAt(d, <<i, l>>) = WitnessAt(p, q)
              BY <1>1, <5>1, <7>2, <7>3 DEF At, WitnessAt, SameBundle
            <7>6. Before(<<i, l>>, here)
              BY <1>1 DEF Before
            <7> QED
              BY <7>4, <7>5, <7>6
          <6>2. CASE q[1] = n /\ q[2] < k
            <7>1. <<last, q[2]>> \in Positions(d)
              BY <1>1, <5>1, <6>2, PositionIn
            <7>2. At(d, <<last, q[2]>>) = r.op /\ WitnessAt(d, <<last, q[2]>>) = WitnessAt(p, q)
              BY <1>1, <5>1, <6>2 DEF At, WitnessAt
            <7>3. Before(<<last, q[2]>>, here)
              BY <6>2 DEF Before
            <7> QED
              BY <7>1, <7>2, <7>3
          <6> QED
            BY <5>4, <6>1, <6>2
        <5>6. r \in d.revealed
          <6>1. Covered(d, p, q[1])
            BY <1>7, <5>1, <5>4, <1>0
          <6> QED
            BY <5>3, <6>1 DEF Covered
        <5> QED
          BY <3>2, <4>2, <4>4, <5>5, <5>6 DEF MadeAndClosed, RevealedOutputs
      <4> QED
        BY <4>1, <4>3, <4>4 DEF MadeAndClosed
    <3> QED
      BY <3>2, <3>3, <3>4 DEF Supported
  <2>6. ASSUME NEW q \in Positions(d)
        PROVE  Supported(d, q)
    <3>1. PICK i \in DOMAIN d.bundles : q \in {i} \X DOMAIN d.bundles[i].known
      BY DEF Positions
    <3>2. CASE i = last
      BY <1>1, <2>5, <3>1, <3>2
    <3>3. CASE i \in DOMAIN c.bundles
      <4>1. q \in Positions(c)
        BY <1>1, <3>1, <3>3 DEF Positions
      <4> QED
        BY <1>2, <2>1, <4>1, SupportedKept DEF Ancestral
    <3> QED
      BY <1>1, <3>2, <3>3
  <2> QED
    BY <2>3, <2>4, <2>6 DEF Ancestral
<1> QED
  BY <1>3, <1>4, <1>5, <1>7, <1>8 DEF Progress

LEMMA ProgressEnd ==
  ASSUME NEW b \in Container, NEW p \in Container, NEW c \in Container,
         NEW n \in Nat, n > Len(p.bundles), Progress(b, p, n, c),
         p.revealed \subseteq OutputsOf(ListedOps(p))
  PROVE  /\ Ids(c) = Ids(b) \cup Ids(p)
         /\ c.revealed = b.revealed \cup p.revealed
         /\ HistoryGood(b) /\ HistoryGood(p) /\ WitnessesCompatible(c) => HistoryGood(c)
<1>1. \A k \in DOMAIN p.bundles : Covered(c, p, k)
  <2>1. p.bundles \in Seq(WitnessBundle)
    BY DEF Container
  <2>2. \A k \in DOMAIN p.bundles : k < n
    BY <2>1
  <2> QED
    BY <2>2 DEF Progress
<1>2. Ids(b) \subseteq Ids(c)
  BY DEF Progress, GrownFrom, Ids
<1>3. Ids(p) \subseteq Ids(c)
  BY <1>1 DEF Covered, Ids
<1>4. ASSUME NEW r \in p.revealed
      PROVE  r \in c.revealed
  <2>1. PICK op \in ListedOps(p) : r \in Outputs(op)
    BY DEF OutputsOf
  <2>2. CASE op = Genesis
    BY <2>1, <2>2 DEF Progress, SameStatic, GrownFrom
  <2>3. ASSUME NEW k \in DOMAIN p.bundles, op \in KnownOps(p.bundles[k])
        PROVE  r \in c.revealed
    BY <1>1, <2>1, <2>3 DEF Covered, OutputsOf
  <2> QED
    BY <2>2, <2>3 DEF ListedOps
<1>5. c.revealed = b.revealed \cup p.revealed
  BY <1>4 DEF Progress, GrownFrom
<1>6. HistoryGood(b) /\ HistoryGood(p) /\ WitnessesCompatible(c) => HistoryGood(c)
  BY NothingTwice DEF Progress
<1>7. IdsBefore(p, n) \subseteq Ids(p)
  BY DEF IdsBefore, Ids
<1> QED
  BY <1>2, <1>3, <1>5, <1>6, <1>7 DEF Progress

-------------------------------------------------------------------------------
Discloses(c) == c.revealed \subseteq OutputsOf(ListedOps(c))

LEMMA KnownTyped ==
  ASSUME NEW w \in WitnessBundle
  PROVE  KnownOps(w) \subseteq Op
<1>1. w.known \in Seq(Op \ {Genesis})
  BY DEF WitnessBundle
<1> QED
  BY <1>1 DEF KnownOps

LEMMA OutputsTyped ==
  ASSUME NEW c \in Container
  PROVE  OutputsOf(ListedOps(c)) \subseteq Ref
<1>1. c.bundles \in Seq(WitnessBundle)
  BY DEF Container
<1>2. \A i \in DOMAIN c.bundles : KnownOps(c.bundles[i]) \subseteq Op
  BY <1>1, KnownTyped
<1>3. ListedOps(c) \subseteq Op
  BY <1>2, ConsignmentAssumption DEF ListedOps
<1> QED
  BY <1>3, ConsignmentAssumption DEF OutputsOf

\* A longer history lists more.
LEMMA DisclosesKept ==
  ASSUME NEW c, Discloses(c), NEW d, GrownFrom(c, d), NEW ops, ops \subseteq ListedOps(d),
         d.revealed \subseteq c.revealed \cup OutputsOf(ops)
  PROVE  Discloses(d)
<1>1. ListedOps(c) \subseteq ListedOps(d)
  BY DEF GrownFrom, ListedOps
<1> QED
  BY <1>1 DEF Discloses, OutputsOf

\* Enriching and extending, as what they leave and what they add.
LEMMA EnrichedTyped ==
  ASSUME NEW c \in Container, Discloses(c), NEW v \in WitnessBundle, Part.revealed \subseteq Ref
  PROVE  /\ Enriched(c, v) \in Container
         /\ Enriched(c, v).bundles = c.bundles
         /\ Enriched(c, v).terminals = c.terminals
         /\ Enriched(c, v).revealed = c.revealed \cup (Part.revealed \cap OutputsOf(KnownOps(v)))
         /\ (\E i \in DOMAIN c.bundles : KnownOps(v) \subseteq KnownOps(c.bundles[i]))
                => Discloses(Enriched(c, v))
<1> DEFINE d == Enriched(c, v)
<1>1. /\ d \in Container /\ d.bundles = c.bundles /\ d.terminals = c.terminals
      /\ d.revealed = c.revealed \cup (Part.revealed \cap OutputsOf(KnownOps(v)))
  BY DEF Enriched, Container
<1> HIDE DEF d
<1>2. ASSUME NEW i \in DOMAIN c.bundles, KnownOps(v) \subseteq KnownOps(c.bundles[i])
      PROVE  Discloses(d)
  <2>1. KnownOps(v) \subseteq ListedOps(d)
    BY <1>1, <1>2 DEF ListedOps
  <2>2. GrownFrom(c, d)
    BY <1>1 DEF GrownFrom
  <2> QED
    BY <1>1, <2>1, <2>2, DisclosesKept
<1> QED
  BY <1>1, <1>2 DEF d

LEMMA ExtendedTyped ==
  ASSUME NEW c \in Container, Discloses(c), NEW v \in WitnessBundle, Part.revealed \subseteq Ref
  PROVE  /\ Extended(c, v) \in Container
         /\ Extended(c, v).bundles = Append(c.bundles, v)
         /\ Extended(c, v).terminals = c.terminals
         /\ Extended(c, v).revealed = c.revealed \cup (Part.revealed \cap OutputsOf(KnownOps(v)))
         /\ Discloses(Extended(c, v))
<1> DEFINE d == Extended(c, v)
<1>0. Append(c.bundles, v) \in Seq(WitnessBundle)
  <2>1. c.bundles \in Seq(WitnessBundle)
    BY DEF Container
  <2> QED
    BY <2>1
<1>1. /\ d \in Container /\ d.bundles = Append(c.bundles, v) /\ d.terminals = c.terminals
      /\ d.revealed = c.revealed \cup (Part.revealed \cap OutputsOf(KnownOps(v)))
  BY <1>0 DEF Extended, Enriched, Container
<1> HIDE DEF d
<1>2. KnownOps(v) \subseteq ListedOps(d) /\ GrownFrom(c, d)
  BY <1>1, Appended DEF ListedOps, GrownFrom
<1>3. Discloses(d)
  BY <1>1, <1>2, DisclosesKept
<1> QED
  BY <1>1, <1>3 DEF d

LEMMA BuiltTyped ==
  ASSUME NEW h, h.value \in Container, Discloses(h.value), NEW w \in WitnessBundle, NEW secrets
  PROVE  /\ Built(h, w, secrets) \in [value : Container, valid : BOOLEAN]
         /\ ~Built(h, w, secrets).valid
         /\ Discloses(Built(h, w, secrets).value)
<1> DEFINE c == h.value
           d == Built(h, w, secrets).value
<1>1. Append(c.bundles, w) \in Seq(WitnessBundle)
  <2>1. c.bundles \in Seq(WitnessBundle)
    BY DEF Container
  <2> QED
    BY <2>1
<1>2. OutputsOf(KnownOps(w)) \subseteq Ref
  BY KnownTyped, ConsignmentAssumption DEF OutputsOf
<1>3. {id \in {w.id} : secrets # {}} \subseteq BundleId
  BY DEF WitnessBundle
<1>4. /\ d \in Container /\ d.bundles = Append(c.bundles, w)
      /\ d.revealed = c.revealed \cup (OutputsOf(KnownOps(w)) \ secrets)
  BY <1>1, <1>2, <1>3 DEF Built, Fresh, Container
<1>5. /\ Built(h, w, secrets) \in [value : Container, valid : BOOLEAN]
      /\ ~Built(h, w, secrets).valid
  BY <1>4 DEF Built, Fresh
<1> HIDE DEF d
<1>6. KnownOps(w) \subseteq ListedOps(d) /\ GrownFrom(c, d)
  BY <1>4, Appended DEF ListedOps, GrownFrom
<1>7. Discloses(d)
  BY <1>4, <1>6, DisclosesKept
<1> QED
  BY <1>4, <1>5, <1>7 DEF d

-------------------------------------------------------------------------------
LoopInv ==
    merging # Idle =>
        /\ Progress(Base, Part, merging.next, merging.result)
        /\ merging.result.terminals = {}

IInv == TypeOK /\ MarkedIsGood /\ LoopInv

LEMMA HeldTyped ==
  ASSUME TypeOK, NEW s \in Slot
  PROVE  /\ held[s] \in [value : Container, valid : BOOLEAN]
         /\ held[s].value \in Container /\ held[s].valid \in BOOLEAN
         /\ Discloses(held[s].value)
         /\ held[s].value.revealed \subseteq Ref
<1>1. held[s] \in [value : Container, valid : BOOLEAN]
  BY DEF TypeOK
<1>2. held[s].value \in Container /\ held[s].valid \in BOOLEAN
  BY <1>1
<1> QED
  BY <1>1, <1>2 DEF TypeOK, Discloses, Container

LEMMA MergingTyped ==
  ASSUME TypeOK, merging # Idle
  PROVE  /\ merging \in Merging
         /\ Base \in Container /\ Part \in Container
         /\ Part.revealed \subseteq Ref /\ Discloses(Part)
         /\ merging.into \in Slot /\ merging.next \in Nat
         /\ merging.result \in Container /\ Discloses(merging.result)
<1>1. merging \in Merging
  BY DEF TypeOK
<1>2. merging.base \in Slot /\ merging.part \in Slot /\ merging.into \in Slot
      /\ merging.result \in Container /\ merging.next \in Nat
  BY <1>1 DEF Merging
<1> QED
  BY <1>1, <1>2, HeldTyped DEF Base, Part, TypeOK, Discloses

LEMMA MergingLeft ==
  ASSUME merging' = Idle, held' = held
  PROVE  LoopInv'
  BY DEF LoopInv

LEMMA Starts ==
  ASSUME Init
  PROVE  IInv
<1> USE HistoriesAssumption
<1>1. ASSUME NEW s \in Slot
      PROVE  \E c \in Received : held[s] = Fresh(c)
  BY DEF Init
<1>2. ASSUME NEW s \in Slot
      PROVE  /\ held[s] \in [value : Container, valid : BOOLEAN]
             /\ held[s].value.revealed \subseteq OutputsOf(ListedOps(held[s].value))
             /\ held[s].valid = FALSE
  <2>1. PICK c \in Received : held[s] = Fresh(c)
    BY <1>1, <1>2
  <2>2. c \in Container /\ c.revealed \subseteq OutputsOf(ListedOps(c))
    OBVIOUS
  <2>3. held[s] = [value |-> c, valid |-> FALSE]
    BY <2>1 DEF Fresh
  <2>4. held[s].value = c
    BY <2>3
  <2> QED
    BY <2>2, <2>3, <2>4
<1>3. held \in [Slot -> [value : Container, valid : BOOLEAN]]
  BY <1>2 DEF Init
<1>4. TypeOK
  BY <1>2, <1>3 DEF Init, TypeOK
<1> QED
  BY <1>2, <1>4 DEF IInv, MarkedIsGood, LoopInv, Init

\* A slot is overwritten with what is typed, and good if it is marked.
LEMMA Overwritten ==
  ASSUME IInv, NEW s \in Slot, NEW h, held' = [held EXCEPT ![s] = h],
         h \in [value : Container, valid : BOOLEAN], Discloses(h.value),
         h.valid => HistoryGood(h.value),
         merging' = Idle, outcome' \in {"none", "merged", "refused"}
  PROVE  IInv'
<1>1. \A t \in Slot : held'[t] = IF t = s THEN h ELSE held[t]
  BY DEF IInv, TypeOK
<1>2. held' \in [Slot -> [value : Container, valid : BOOLEAN]]
  BY DEF IInv, TypeOK
<1>3. \A t \in Slot : held'[t].value.revealed \subseteq OutputsOf(ListedOps(held'[t].value))
  BY <1>1 DEF IInv, TypeOK, Discloses
<1>4. TypeOK'
  BY <1>2, <1>3 DEF TypeOK
<1>5. MarkedIsGood'
  BY <1>1 DEF IInv, MarkedIsGood
<1> QED
  BY <1>4, <1>5 DEF IInv, LoopInv

LEMMA Steps ==
  ASSUME IInv, [Next]_vars
  PROVE  IInv'
<1>0. TypeOK /\ MarkedIsGood /\ LoopInv
  BY DEF IInv
<1>1. CASE UNCHANGED vars
  BY <1>0, <1>1 DEF IInv, vars, TypeOK, MarkedIsGood, LoopInv, Base, Part
<1>2. ASSUME NEW s \in Slot, Mark(s)
      PROVE  IInv'
  <2> DEFINE h == [held[s] EXCEPT !.valid = TRUE]
  <2>1. /\ h \in [value : Container, valid : BOOLEAN]
        /\ h.value = held[s].value /\ h.valid = TRUE
    BY <1>0, HeldTyped
  <2>2. held' = [held EXCEPT ![s] = h] /\ merging' = Idle /\ HistoryGood(held[s].value)
        /\ outcome' = outcome
    BY <1>2 DEF Mark
  <2> HIDE DEF h
  <2>3. Discloses(h.value) /\ outcome' \in {"none", "merged", "refused"}
    BY <1>0, <2>1, <2>2, HeldTyped DEF TypeOK
  <2> QED
    BY <2>1, <2>2, <2>3, Overwritten
<1>3. ASSUME NEW s \in Slot, NEW r \in Seals, RevealGraphSeals(s, r)
      PROVE  IInv'
  <2> DEFINE c == held[s].value
             d == [c EXCEPT !.revealed = @ \cup {r}]
             h == [held[s] EXCEPT !.value = d]
  <2>1. /\ r \in OutputsOf(ListedOps(c)) /\ merging' = Idle /\ outcome' = outcome
        /\ held' = [held EXCEPT ![s] = [held[s] EXCEPT !.value = d]]
    BY <1>3 DEF RevealGraphSeals, OutputsOf
  <2>2. r \in Ref
    BY <1>0, <2>1, HeldTyped, OutputsTyped
  <2>3. d \in Container /\ d.bundles = c.bundles /\ d.revealed = c.revealed \cup {r}
    BY <1>0, <2>2, HeldTyped DEF Container
  <2> HIDE DEF d
  <2>4. /\ h \in [value : Container, valid : BOOLEAN]
        /\ h.value = d /\ h.valid = held[s].valid
    BY <1>0, <2>3, HeldTyped
  <2>5. Discloses(d)
    <3>1. ListedOps(d) = ListedOps(c)
      BY <2>3 DEF ListedOps
    <3> QED
      BY <1>0, <2>1, <2>3, <3>1, HeldTyped DEF Discloses
  <2>6. h.valid => HistoryGood(h.value)
    BY <1>0, <2>3, <2>4, HeldTyped, GoodKept DEF MarkedIsGood
  <2>7. held' = [held EXCEPT ![s] = h] /\ outcome' \in {"none", "merged", "refused"}
    BY <1>0, <2>1 DEF TypeOK
  <2> HIDE DEF h
  <2> QED
    BY <2>1, <2>4, <2>5, <2>6, <2>7, Overwritten
<1>4. ASSUME NEW s \in Slot, NEW t \in Slot, NEW w \in Witnesses,
             NEW secrets \in SUBSET OutputsOf(KnownOps(w)), BuildTransfer(s, t, w, secrets)
      PROVE  IInv'
  <2> DEFINE h == Built(held[s], w, secrets)
  <2>1. w \in WitnessBundle
    BY HistoriesAssumption
  <2>2. h \in [value : Container, valid : BOOLEAN] /\ ~h.valid /\ Discloses(h.value)
    BY <1>0, <2>1, HeldTyped, BuiltTyped
  <2>3. held' = [held EXCEPT ![t] = h] /\ merging' = Idle /\ outcome' = outcome
    BY <1>4 DEF BuildTransfer
  <2> HIDE DEF h
  <2>4. outcome' \in {"none", "merged", "refused"}
    BY <1>0, <2>3 DEF TypeOK
  <2> QED
    BY <2>2, <2>3, <2>4, Overwritten
<1>5. ASSUME Refuse
      PROVE  IInv'
  BY <1>0, <1>5 DEF Refuse, IInv, TypeOK, MarkedIsGood, LoopInv
<1>6. ASSUME NEW b \in Slot, NEW p \in Slot, NEW t \in Slot, StartMerge(b, p, t)
      PROVE  IInv'
  <2> DEFINE c == [held[b].value EXCEPT !.transfer = TRUE, !.terminals = {}]
  <2>1. CASE Refuse
    BY <1>5, <2>1
  <2>2. CASE /\ NoDuplicate(held[b].value)
             /\ SameStatic(held[b].value, held[p].value)
             /\ merging' = [running |-> TRUE, base |-> b, part |-> p, into |-> t, next |-> 1,
                            result |-> c]
             /\ UNCHANGED <<held, outcome>>
    <3>1. /\ c \in Container /\ c.bundles = held[b].value.bundles
          /\ c.revealed = held[b].value.revealed /\ c.terminals = {}
      BY <1>0, HeldTyped DEF Container
    <3> HIDE DEF c
    <3>2. Discloses(c)
      BY <1>0, <3>1, HeldTyped DEF Discloses, ListedOps
    <3>3. Progress(held[b].value, held[p].value, 1, c)
      BY <1>0, <2>2, <3>1, HeldTyped, ProgressStart
    <3>4. merging' \in Merging
      BY <2>2, <3>1 DEF Merging
    <3>5. TypeOK'
      BY <1>0, <2>2, <3>2, <3>4 DEF TypeOK, Discloses
    <3>6. LoopInv'
      BY <2>2, <3>1, <3>3 DEF LoopInv, Base, Part
    <3> QED
      BY <1>0, <2>2, <3>5, <3>6 DEF IInv, MarkedIsGood
  <2> QED
    BY <1>6, <2>1, <2>2 DEF StartMerge
<1>7. ASSUME MergeBundle
      PROVE  IInv'
  <2> DEFINE c == merging.result
             v == Candidate
             shared == {i \in DOMAIN c.bundles : c.bundles[i].id = v.id}
  <2>1. merging # Idle /\ merging.next \in DOMAIN Part.bundles
    BY <1>7 DEF MergeBundle
  <2>2. /\ merging \in Merging
        /\ Base \in Container /\ Part \in Container
        /\ Part.revealed \subseteq Ref /\ merging.next \in Nat
        /\ c \in Container /\ Discloses(c)
    BY <1>0, <2>1, MergingTyped
  <2>3. v = Part.bundles[merging.next] /\ v \in WitnessBundle
    <3>1. Part.bundles \in Seq(WitnessBundle)
      BY <2>2 DEF Container
    <3> QED
      BY <2>1, <3>1 DEF Candidate
  <2>4. Progress(Base, Part, merging.next, c) /\ c.terminals = {}
    BY <1>0, <2>1 DEF LoopInv
  <2>5. ASSUME NEW d \in Container, Discloses(d), d.terminals = {},
               Progress(Base, Part, merging.next + 1, d),
               merging' = [merging EXCEPT !.result = d, !.next = merging.next + 1],
               UNCHANGED <<held, outcome>>
        PROVE  IInv'
    <3> DEFINE n == merging.next + 1
    <3>0. n \in Nat /\ merging' = [merging EXCEPT !.result = d, !.next = n]
      BY <2>2, <2>5
    <3> HIDE DEF n
    <3>1. /\ merging' \in Merging /\ merging'.result = d /\ merging'.next = n
          /\ merging'.base = merging.base /\ merging'.part = merging.part
      BY <2>2, <3>0 DEF Merging
    <3>2. TypeOK'
      BY <1>0, <2>5, <3>1 DEF TypeOK, Discloses
    <3>3. Base' = Base /\ Part' = Part
      BY <2>5, <3>1 DEF Base, Part
    <3>4. LoopInv'
      BY <2>5, <3>1, <3>3 DEF LoopInv, n
    <3> QED
      BY <1>0, <2>5, <3>2, <3>4 DEF IInv, MarkedIsGood
  <2>6. CASE Refuse
    BY <1>5, <2>6
  <2>7. CASE /\ shared # {}
             /\ \A i \in shared : SameBundle(c.bundles[i], v)
             /\ merging' = [merging EXCEPT !.result = Enriched(c, v), !.next = merging.next + 1]
             /\ UNCHANGED <<held, outcome>>
    <3>1. PICK i \in DOMAIN c.bundles : c.bundles[i].id = v.id /\ SameBundle(c.bundles[i], v)
      BY <2>7
    <3>2. KnownOps(v) \subseteq KnownOps(c.bundles[i])
      BY <3>1 DEF SameBundle
    <3> DEFINE d == Enriched(c, v)
    <3>3. /\ d \in Container /\ Discloses(d) /\ d.terminals = {} /\ d.bundles = c.bundles
          /\ d.revealed = c.revealed \cup (Part.revealed \cap OutputsOf(KnownOps(v)))
      BY <2>2, <2>3, <2>4, <3>2, EnrichedTyped
    <3> HIDE DEF d
    <3>4. Progress(Base, Part, merging.next + 1, d)
      BY <2>1, <2>2, <2>3, <2>4, <3>1, <3>3, ProgressShared
    <3>5. merging' = [merging EXCEPT !.result = d, !.next = merging.next + 1]
      BY <2>7 DEF d
    <3> QED
      BY <2>5, <2>7, <3>3, <3>4, <3>5
  <2>8. CASE /\ shared = {}
             /\ merging' = [merging EXCEPT !.result = Extended(c, v), !.next = merging.next + 1]
             /\ UNCHANGED <<held, outcome>>
    <3>1. v.id \notin Ids(c)
      BY <2>8 DEF Ids
    <3> DEFINE d == Extended(c, v)
    <3>3. /\ d \in Container /\ Discloses(d) /\ d.terminals = {}
          /\ d.bundles = Append(c.bundles, v)
          /\ d.revealed = c.revealed \cup (Part.revealed \cap OutputsOf(KnownOps(v)))
      BY <2>2, <2>3, <2>4, ExtendedTyped
    <3> HIDE DEF d
    <3>4. Progress(Base, Part, merging.next + 1, d)
      BY <2>1, <2>2, <2>3, <2>4, <3>1, <3>3, ProgressNew
    <3>5. merging' = [merging EXCEPT !.result = d, !.next = merging.next + 1]
      BY <2>8 DEF d
    <3> QED
      BY <2>5, <2>8, <3>3, <3>4, <3>5
  <2> QED
    BY <1>7, <2>6, <2>7, <2>8 DEF MergeBundle
<1>8. ASSUME FinishMerge
      PROVE  IInv'
  <2> DEFINE h == Fresh(merging.result)
  <2>1. /\ merging # Idle /\ held' = [held EXCEPT ![merging.into] = h]
        /\ merging' = Idle /\ outcome' = "merged"
    BY <1>8 DEF FinishMerge
  <2>2. merging.into \in Slot /\ merging.result \in Container /\ Discloses(merging.result)
    BY <1>0, <2>1, MergingTyped
  <2>3. /\ h \in [value : Container, valid : BOOLEAN]
        /\ h.value = merging.result /\ h.valid = FALSE
    BY <2>2 DEF Fresh
  <2> HIDE DEF h
  <2> QED
    BY <2>1, <2>2, <2>3, Overwritten
<1> QED
  BY <1>1, <1>2, <1>3, <1>4, <1>6, <1>7, <1>8 DEF Next

LEMMA Invariance == Spec => []IInv
<1>1. Init => IInv
  BY Starts
<1>2. IInv /\ [Next]_vars => IInv'
  BY Steps
<1> QED
  BY <1>1, <1>2, PTL DEF Spec

(***************************************************************************)
(* The wallet's containers are well formed whatever is done with them, and *)
(* disclose nothing about operations they do not list (merge.go:24-95,     *)
(* builder.go:17-89, reveal.go:19-143).                                    *)
(***************************************************************************)
THEOREM TypeCorrect == Spec => []TypeOK
<1>1. IInv => TypeOK
  BY DEF IInv
<1> QED
  BY <1>1, Invariance, PTL

(***************************************************************************)
(* A container whose flag is set holds a good history at all times, also   *)
(* after its seals were revealed in place (reveal.go:93), since neither    *)
(* builder nor merge copies the flag (builder.go:87, merge.go:95).         *)
(***************************************************************************)
THEOREM FlagsHonest == Spec => []MarkedIsGood
<1>1. IInv => MarkedIsGood
  BY DEF IInv
<1> QED
  BY <1>1, Invariance, PTL

\* Only the end of the loop ends a merge with "merged".
LEMMA MergedByFinish ==
  ASSUME TypeOK, [Next]_vars, Finished, outcome' = "merged"
  PROVE  FinishMerge
<1> USE DEF Finished
<1>1. merging # Idle /\ merging' = Idle /\ merging \in Merging
  BY MergingTyped
<1>2. ~UNCHANGED vars
  BY <1>1 DEF vars
<1>3. ~Refuse
  BY DEF Refuse
<1>4. \A d, n : merging' # [merging EXCEPT !.result = d, !.next = n]
  BY <1>1 DEF Merging, Idle
<1>5. ~MergeBundle
  BY <1>3, <1>4 DEF MergeBundle
<1>6. \A s, t \in Slot : \A r, w, secrets :
        ~Mark(s) /\ ~RevealGraphSeals(s, r) /\ ~BuildTransfer(s, t, w, secrets)
  BY <1>1 DEF Mark, RevealGraphSeals, BuildTransfer
<1>7. \A b, p, t \in Slot : ~StartMerge(b, p, t)
  BY <1>1 DEF StartMerge
<1> QED
  BY <1>2, <1>5, <1>6, <1>7 DEF Next

LEMMA Merged ==
  ASSUME IInv, [Next]_vars, Finished, outcome' = "merged"
  PROVE  LET c == held'[merging.into].value
         IN  /\ c = merging.result
             /\ held'[merging.into].valid = FALSE
             /\ c.terminals = {}
             /\ Base \in Container /\ Part \in Container /\ c \in Container
             /\ Progress(Base, Part, merging.next, c)
             /\ Ids(c) = Ids(Base) \cup Ids(Part)
             /\ c.revealed = Base.revealed \cup Part.revealed
             /\ HistoryGood(Base) /\ HistoryGood(Part) /\ WitnessesCompatible(c) => HistoryGood(c)
<1> DEFINE c == merging.result
<1>1. FinishMerge /\ TypeOK /\ LoopInv
  BY MergedByFinish DEF IInv
<1>2. /\ merging # Idle /\ merging.next > Len(Part.bundles)
      /\ held' = [held EXCEPT ![merging.into] = [value |-> c, valid |-> FALSE]]
  BY <1>1 DEF FinishMerge, Fresh
<1>3. /\ Base \in Container /\ Part \in Container /\ Discloses(Part)
      /\ merging.into \in Slot /\ merging.next \in Nat /\ c \in Container
  BY <1>1, <1>2, MergingTyped
<1>4. Progress(Base, Part, merging.next, c) /\ c.terminals = {}
  BY <1>1, <1>2 DEF LoopInv
<1>5. /\ Ids(c) = Ids(Base) \cup Ids(Part)
      /\ c.revealed = Base.revealed \cup Part.revealed
      /\ HistoryGood(Base) /\ HistoryGood(Part) /\ WitnessesCompatible(c) => HistoryGood(c)
  BY <1>2, <1>3, <1>4, ProgressEnd DEF Discloses
<1>6. held'[merging.into] = [value |-> c, valid |-> FALSE]
  BY <1>1, <1>2, <1>3 DEF TypeOK
<1>7. held'[merging.into].value = c /\ held'[merging.into].valid = FALSE
  BY <1>6
<1> HIDE DEF c
<1> QED
  BY <1>3, <1>4, <1>5, <1>7 DEF c

(***************************************************************************)
(* A merge keeps every bundle of both histories, once, the first one's in  *)
(* their places, and discloses exactly what either disclosed               *)
(* (merge.go:24-95), however many bundles there are.                       *)
(***************************************************************************)
THEOREM MergedIsUnion == Spec => MergeIsUnion
<1>1. ASSUME IInv, [Next]_vars, Finished, outcome' = "merged"
      PROVE  LET c == held'[merging.into].value
             IN  /\ Ids(c) = Ids(Base) \cup Ids(Part)
                 /\ NoDuplicate(c)
                 /\ \A i \in DOMAIN Base.bundles : c.bundles[i] = Base.bundles[i]
                 /\ c.revealed = Base.revealed \cup Part.revealed
                 /\ c.terminals = {} /\ ~held'[merging.into].valid
  BY <1>1, Merged DEF Progress, GrownFrom
<1> QED
  BY <1>1, Invariance, PTL DEF Spec, MergeIsUnion

(***************************************************************************)
(* Merging keeps ancestry: what two good histories are merged into is      *)
(* good, unless two of its witnesses spend the same output, which no chain *)
(* contains (merge.go:58-83).                                              *)
(***************************************************************************)
THEOREM MergedIsGood == Spec => MergeKeepsGood
<1>1. IInv /\ [Next]_vars =>
        (/\ Finished /\ outcome' = "merged"
         /\ HistoryGood(Base) /\ HistoryGood(Part)
         /\ WitnessesCompatible(held'[merging.into].value)
         => HistoryGood(held'[merging.into].value))
  BY Merged
<1> QED
  BY <1>1, Invariance, PTL DEF Spec, MergeKeepsGood

(***************************************************************************)
(* Refusals.  A good history knows a transition of a bundle once, since a  *)
(* second time it would consume the same inputs.                           *)
(***************************************************************************)
LEMMA KnownOnce ==
  ASSUME NEW c \in Container, HistoryGood(c), NEW i \in DOMAIN c.bundles
  PROVE  LET known == c.bundles[i].known
         IN  /\ known \in Seq(Op \ {Genesis})
             /\ \A k, l \in DOMAIN known : known[k] = known[l] => k = l
<1>1. BundlesApart(c)
  BY GoodIsAncestral
<1>2. c.bundles[i] \in WitnessBundle
  <2>1. c.bundles \in Seq(WitnessBundle)
    BY DEF Container
  <2> QED
    BY <2>1
<1>3. c.bundles[i].known \in Seq(Op \ {Genesis})
  BY <1>2 DEF WitnessBundle
<1> DEFINE known == c.bundles[i].known
<1>4. \A k, l \in DOMAIN known : k # l => Inputs(known[k]) \cap Inputs(known[l]) = {}
  BY <1>1 DEF BundlesApart, ConsumedApart
<1>5. \A k \in DOMAIN known : Inputs(known[k]) # {}
  <2>1. \A k \in DOMAIN known : known[k] \in Op \ {Genesis}
    BY <1>3
  <2> QED
    BY <2>1, ConsignmentAssumption
<1> HIDE DEF known
<1>6. \A k, l \in DOMAIN known : known[k] = known[l] => k = l
  BY <1>4, <1>5
<1> QED
  BY <1>3, <1>6 DEF known

\* A list without repetitions is as long as it has members.
LEMMA ListCounted ==
  ASSUME NEW S, NEW s \in Seq(S), \A k, l \in DOMAIN s : s[k] = s[l] => k = l
  PROVE  LET T == {s[k] : k \in DOMAIN s}
         IN  IsFiniteSet(T) /\ Cardinality(T) = Len(s)
<1> DEFINE I == 1 .. Len(s)
           T == {s[k] : k \in DOMAIN s}
           f == [k \in I |-> s[k]]
<1>1. DOMAIN s = I /\ Len(s) \in Nat
  OBVIOUS
<1>2. IsFiniteSet(I) /\ Cardinality(I) = Len(s)
  BY <1>1, FS_Interval
<1>3. f \in [I -> T] /\ \A k, l \in I : f[k] = f[l] => k = l
  BY <1>1
<1>4. \A t \in T : \E k \in I : f[k] = t
  BY <1>1
<1>5. ExistsBijection(I, T)
  <2> HIDE DEF f, T, I
  <2>1. f \in Bijection(I, T)
    BY <1>3, <1>4 DEF Bijection, Injection, IsInjective, Surjection
  <2> QED
    BY <2>1 DEF ExistsBijection
<1> HIDE DEF T, I
<1>6. IsFiniteSet(T) /\ Cardinality(T) = Len(s)
  BY <1>2, <1>5, FS_Bijection
<1> QED
  BY <1>6 DEF T

\* A bundle that two good histories list is the same to a merge if both have
\* its witness in the same form and know the same transitions of it.
LEMMA SameIfEqual ==
  ASSUME NEW b \in Container, HistoryGood(b), NEW i \in DOMAIN b.bundles,
         NEW p \in Container, HistoryGood(p), NEW j \in DOMAIN p.bundles,
         b.bundles[i].tx = p.bundles[j].tx, b.bundles[i].embedded = p.bundles[j].embedded,
         KnownOps(b.bundles[i]) = KnownOps(p.bundles[j])
  PROVE  SameBundle(b.bundles[i], p.bundles[j])
<1>1. /\ Cardinality(KnownOps(b.bundles[i])) = Len(b.bundles[i].known)
      /\ Cardinality(KnownOps(p.bundles[j])) = Len(p.bundles[j].known)
  BY KnownOnce, ListCounted DEF KnownOps
<1> QED
  BY <1>1 DEF SameBundle

\* Only the loop over the candidate's bundles ends a merge with "refused".
LEMMA RefusedInLoop ==
  ASSUME TypeOK, [Next]_vars, Finished, outcome' = "refused"
  PROVE  /\ merging # Idle /\ merging.next \in DOMAIN Part.bundles
         /\ LET c == merging.result
                shared == {i \in DOMAIN c.bundles : c.bundles[i].id = Candidate.id}
            IN  \/ ~BundleWellFormed(Candidate)
                \/ \E i \in shared : ~SameBundle(c.bundles[i], Candidate)
                \/ shared = {} /\ Len(c.bundles) >= MaxBundles
<1> USE DEF Finished
<1>1. merging # Idle /\ merging' = Idle /\ merging \in Merging
  BY MergingTyped
<1>2. ~UNCHANGED vars
  BY <1>1 DEF vars
<1>3. \A s, t \in Slot : \A r, w, secrets :
        ~Mark(s) /\ ~RevealGraphSeals(s, r) /\ ~BuildTransfer(s, t, w, secrets)
  BY <1>1 DEF Mark, RevealGraphSeals, BuildTransfer
<1>4. \A b, p, t \in Slot : ~StartMerge(b, p, t)
  BY <1>1 DEF StartMerge
<1>5. ~FinishMerge
  BY DEF FinishMerge
<1>6. MergeBundle
  BY <1>2, <1>3, <1>4, <1>5 DEF Next
<1>7. \A d, n : merging' # [merging EXCEPT !.result = d, !.next = n]
  BY <1>1 DEF Merging, Idle
<1> QED
  BY <1>6, <1>7 DEF MergeBundle

\* A full result: the two histories have more bundles than a list can hold.
LEMMA TooLong ==
  ASSUME NEW b \in Container, NEW p \in Container, NEW c \in Container,
         NEW n \in DOMAIN p.bundles, Progress(b, p, n, c),
         p.bundles[n].id \notin Ids(c), Len(c.bundles) >= MaxBundles
  PROVE  Cardinality(Ids(b) \cup Ids(p)) > MaxBundles
<1> DEFINE all == Ids(b) \cup Ids(p)
           id == p.bundles[n].id
<1>1. ASSUME NEW h \in Container
      PROVE  IsFiniteSet(Ids(h)) /\ Len(h.bundles) \in Nat
  <2> DEFINE I == 1 .. Len(h.bundles)
             f == [i \in I |-> h.bundles[i].id]
             T == {h.bundles[i].id : i \in I}
  <2>1. h.bundles \in Seq(WitnessBundle)
    BY <1>1 DEF Container
  <2>2. DOMAIN h.bundles = I /\ Len(h.bundles) \in Nat
    BY <2>1
  <2>3. IsFiniteSet(I)
    BY <2>2, FS_Interval
  <2>4. f \in Surjection(I, T)
    BY DEF Surjection
  <2>5. Ids(h) = T
    BY <2>2 DEF Ids
  <2> HIDE DEF f, T, I
  <2> QED
    BY <2>2, <2>3, <2>4, <2>5, FS_Surjection
<1>2. IsFiniteSet(all)
  BY <1>1, FS_Union
<1>3. Cardinality(Ids(c)) = Len(c.bundles)
  <2> DEFINE s == [i \in DOMAIN c.bundles |-> c.bundles[i].id]
  <2>1. c.bundles \in Seq(WitnessBundle)
    BY DEF Container
  <2>2. s \in Seq(BundleId) /\ DOMAIN s = DOMAIN c.bundles /\ Len(s) = Len(c.bundles)
    <3>1. ASSUME NEW i \in DOMAIN c.bundles PROVE c.bundles[i].id \in BundleId
      <4>1. c.bundles[i] \in WitnessBundle
        BY <2>1
      <4> QED
        BY <4>1 DEF WitnessBundle
    <3>2. DOMAIN c.bundles = 1 .. Len(c.bundles) /\ Len(c.bundles) \in Nat
      BY <2>1
    <3>3. s \in [1 .. Len(c.bundles) -> BundleId]
      BY <3>1, <3>2
    <3>4. DOMAIN s = 1 .. Len(c.bundles)
      BY <3>2
    <3> HIDE DEF s
    <3> QED
      BY <3>2, <3>3, <3>4
  <2>3. \A i, j \in DOMAIN s : s[i] = s[j] => i = j
    BY <2>2 DEF Progress, NoDuplicate
  <2>4. Ids(c) = {s[i] : i \in DOMAIN s}
    BY <2>2 DEF Ids
  <2> HIDE DEF s
  <2>5. Cardinality({s[i] : i \in DOMAIN s}) = Len(s)
    BY <2>2, <2>3, ListCounted
  <2> QED
    BY <2>2, <2>4, <2>5
<1>4. Ids(c) \cup {id} \subseteq all
  <2>1. IdsBefore(p, n) \subseteq Ids(p) /\ id \in Ids(p)
    BY DEF IdsBefore, Ids
  <2> QED
    BY <2>1 DEF Progress
<1>5. Cardinality(Ids(c) \cup {id}) = Cardinality(Ids(c)) + 1
  BY <1>1, FS_AddElement
<1>6. Cardinality(Ids(c) \cup {id}) <= Cardinality(all) /\ Cardinality(all) \in Nat
  BY <1>2, <1>4, FS_Subset, FS_CardinalityType
<1> HIDE DEF all, id
<1>7. Cardinality(all) > MaxBundles
  BY <1>1, <1>3, <1>5, <1>6, HistoriesAssumption
<1> QED
  BY <1>7 DEF all

\* What a merge knows differently of a bundle comes from its first history.
LEMMA KnownDifferently ==
  ASSUME NEW b \in Container, NEW p \in Container, NEW c \in Container,
         NEW n \in DOMAIN p.bundles, Progress(b, p, n, c),
         HistoryGood(b), HistoryGood(p), NoDuplicate(p),
         NEW i \in DOMAIN c.bundles, c.bundles[i].id = p.bundles[n].id,
         ~SameBundle(c.bundles[i], p.bundles[n])
  PROVE  \E k \in DOMAIN b.bundles, j \in DOMAIN p.bundles :
             LET w == b.bundles[k]
                 v == p.bundles[j]
             IN  /\ w.id = v.id
                 /\ <<w.tx, w.embedded, KnownOps(w)>> # <<v.tx, v.embedded, KnownOps(v)>>
<1>1. p.bundles[n].id \notin IdsBefore(p, n)
  <2>1. p.bundles \in Seq(WitnessBundle)
    BY DEF Container
  <2>2. \A k \in DOMAIN p.bundles : k < n => k # n
    BY <2>1
  <2> QED
    BY <2>2 DEF IdsBefore, NoDuplicate
<1>2. PICK k \in DOMAIN b.bundles : b.bundles[k].id = p.bundles[n].id
  BY <1>1 DEF Progress, Ids
<1>3. k \in DOMAIN c.bundles /\ c.bundles[k] = b.bundles[k]
  BY DEF Progress, GrownFrom
<1>4. c.bundles[i] = b.bundles[k]
  BY <1>2, <1>3 DEF Progress, NoDuplicate
<1>5. ~ (/\ b.bundles[k].tx = p.bundles[n].tx /\ b.bundles[k].embedded = p.bundles[n].embedded
         /\ KnownOps(b.bundles[k]) = KnownOps(p.bundles[n]))
  BY <1>4, SameIfEqual
<1> QED
  BY <1>2, <1>5

(***************************************************************************)
(* Two good histories of any length are refused for nothing but a bundle   *)
(* that they know in different ways, a bundle that the second lists in     *)
(* parts, or the length of a list (merge.go:66-74, 119-175).               *)
(***************************************************************************)
THEOREM RefusalsExplained == Spec => RefusedForAReason
<1>1. ASSUME IInv, [Next]_vars, Finished, outcome' = "refused",
             HistoryGood(Base), HistoryGood(Part), NoDuplicate(Part),
             ~(Cardinality(Ids(Base) \cup Ids(Part)) > MaxBundles)
      PROVE  \E i \in DOMAIN Base.bundles, j \in DOMAIN Part.bundles :
                 LET w == Base.bundles[i]
                     v == Part.bundles[j]
                 IN  /\ w.id = v.id
                     /\ <<w.tx, w.embedded, KnownOps(w)>> # <<v.tx, v.embedded, KnownOps(v)>>
  <2> DEFINE c == merging.result
             n == merging.next
  <2>1. TypeOK /\ LoopInv
    BY <1>1 DEF IInv
  <2>2. /\ merging # Idle /\ n \in DOMAIN Part.bundles
        /\ \/ ~BundleWellFormed(Part.bundles[n])
           \/ \E i \in DOMAIN c.bundles : /\ c.bundles[i].id = Part.bundles[n].id
                                           /\ ~SameBundle(c.bundles[i], Part.bundles[n])
           \/ Part.bundles[n].id \notin Ids(c) /\ Len(c.bundles) >= MaxBundles
    BY <1>1, <2>1, RefusedInLoop DEF Candidate, Ids
  <2>3. /\ Base \in Container /\ Part \in Container /\ c \in Container
        /\ Progress(Base, Part, n, c)
    BY <2>1, <2>2, MergingTyped DEF LoopInv
  <2>4. BundleWellFormed(Part.bundles[n])
    BY <1>1, <2>2 DEF HistoryGood
  <2> HIDE DEF c, n
  <2> QED
    BY <1>1, <2>2, <2>3, <2>4, TooLong, KnownDifferently
<1> QED
  BY <1>1, Invariance, PTL DEF Spec, RefusedForAReason
===============================================================================
