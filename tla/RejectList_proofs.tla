--------------------------- MODULE RejectList_proofs ---------------------------
(***************************************************************************)
(* The search of the reject list names only rejected ancestors and misses  *)
(* none, for every list, every history and every order of the search.      *)
(***************************************************************************)
EXTENDS RejectList, TLAPS

(***************************************************************************)
(* The map holds what the last line that was read says.                    *)
(***************************************************************************)
DecisionsRead ==
    \A o \in Ref, b \in BOOLEAN :
        (o \in DOMAIN decisions /\ decisions[o] = b) <=> Says(read, o, b)

(***************************************************************************)
(* Everything touched belongs to the lineage, and everything visited is    *)
(* either shielded, or not rejected and its disclosed parents are visited  *)
(* or pending.                                                             *)
(***************************************************************************)
SearchRead == pc # "parsing" => read = Len(lines) /\ checked \in Opouts

InLineage == pc # "parsing" => pending \cup seen \subseteq Lineage(checked)

Explored ==
    pc = "searching" \/ (pc = "answered" /\ found = NoOpout) =>
        /\ found = NoOpout
        /\ checked \in pending \cup seen
        /\ \A o \in seen : \/ o \in Allow
                           \/ o \notin Reject /\ Parents(o) \subseteq pending \cup seen

Answered ==
    pc = "answered" => IF found = NoOpout THEN pending = {}
                       ELSE found \in seen /\ found \in Reject

IInv == TypeOK /\ DecisionsRead /\ SearchRead /\ InLineage /\ Explored /\ Answered

-------------------------------------------------------------------------------
LEMMA OpoutFacts ==
  ASSUME NEW o \in Opouts
  PROVE  o \in Ref /\ o.op \in Op /\ Inputs(o.op) \subseteq Opouts
<1> USE ConsignmentAssumption
<1>1. o \in Ref
  BY DEF Opouts
<1> QED
  BY <1>1 DEF Opouts, Ref

LEMMA ParentsAreOpouts == ASSUME NEW o \in Opouts PROVE Parents(o) \subseteq Opouts
  BY OpoutFacts DEF Parents

\* Reading one more line changes what is said about its opout, and only that.
LEMMA SaysNext ==
  ASSUME lines \in Seq(Line), NEW n \in Nat, n < Len(lines), NEW o, NEW b \in BOOLEAN
  PROVE  Says(n + 1, o, b) <=> IF lines[n + 1].opout = o THEN lines[n + 1].allowed = b
                               ELSE Says(n, o, b)
<1>1. CASE lines[n + 1].opout = o
  <2>1. ASSUME Says(n + 1, o, b) PROVE lines[n + 1].allowed = b
    <3>1. PICK i \in 1..(n + 1) : /\ lines[i].opout = o /\ lines[i].allowed = b
                                  /\ \A j \in (i + 1)..(n + 1) : lines[j].opout # o
      BY <2>1 DEF Says
    <3>2. i = n + 1
      BY <1>1, <3>1
    <3> QED
      BY <3>1, <3>2
  <2>2. ASSUME lines[n + 1].allowed = b PROVE Says(n + 1, o, b)
    <3>1. n + 1 \in 1..(n + 1) /\ (n + 1 + 1)..(n + 1) = {}
      OBVIOUS
    <3> QED
      BY <1>1, <2>2, <3>1 DEF Says
  <2> QED
    BY <1>1, <2>1, <2>2
<1>2. CASE lines[n + 1].opout # o
  <2>1. ASSUME Says(n + 1, o, b) PROVE Says(n, o, b)
    <3>1. PICK i \in 1..(n + 1) : /\ lines[i].opout = o /\ lines[i].allowed = b
                                  /\ \A j \in (i + 1)..(n + 1) : lines[j].opout # o
      BY <2>1 DEF Says
    <3>2. i \in 1..n /\ (i + 1)..n \subseteq (i + 1)..(n + 1)
      BY <1>2, <3>1
    <3> QED
      BY <3>1, <3>2 DEF Says
  <2>2. ASSUME Says(n, o, b) PROVE Says(n + 1, o, b)
    <3>1. PICK i \in 1..n : /\ lines[i].opout = o /\ lines[i].allowed = b
                            /\ \A j \in (i + 1)..n : lines[j].opout # o
      BY <2>2 DEF Says
    <3>2. i \in 1..(n + 1) /\ \A j \in (i + 1)..(n + 1) : lines[j].opout # o
      BY <1>2, <3>1
    <3> QED
      BY <3>1, <3>2 DEF Says
  <2> QED
    BY <1>2, <2>1, <2>2
<1> QED
  BY <1>1, <1>2

\* The sets that the search uses are what the policy says.
LEMMA ListRead ==
  ASSUME IInv, read = Len(lines), NEW o \in Ref
  PROVE  (o \in Allow <=> Shielded(o)) /\ (o \in Reject <=> Rejected(o))
<1>1. /\ (o \in DOMAIN decisions /\ decisions[o] = TRUE) <=> Says(Len(lines), o, TRUE)
      /\ (o \in DOMAIN decisions /\ decisions[o] = FALSE) <=> Says(Len(lines), o, FALSE)
  BY DEF IInv, DecisionsRead
<1>2. o \in DOMAIN decisions => decisions[o] \in BOOLEAN
  BY DEF IInv, TypeOK
<1> QED
  BY <1>1, <1>2 DEF Allow, Reject, Shielded, Rejected

LEMMA LineageStart == ASSUME NEW o \in Opouts PROVE o \in Lineage(o)
  BY DEF Lineage

LEMMA LineageStep ==
  ASSUME NEW o, NEW a \in Lineage(o), ~Shielded(a)
  PROVE  Inputs(a.op) \subseteq Lineage(o)
<1>1. a \in Opouts
  BY DEF Lineage
<1>2. Inputs(a.op) \subseteq Opouts
  BY <1>1, OpoutFacts
<1>3. ASSUME NEW r \in Inputs(a.op), NEW s \in SUBSET Opouts, o \in s, ClosedUpwards(s)
      PROVE  r \in s
  <2>1. a \in s
    BY <1>3 DEF Lineage
  <2> QED
    BY <1>3, <2>1 DEF ClosedUpwards
<1> QED
  BY <1>2, <1>3 DEF Lineage

(***************************************************************************)
(* In a good history whatever is disclosed has disclosed inputs, so the    *)
(* graph of disclosed outputs is closed under ancestry.                    *)
(***************************************************************************)
LEMMA DisclosedClosed ==
  ASSUME HistoryGood(container), NEW o \in Disclosed
  PROVE  Inputs(o.op) \subseteq Disclosed
<1> USE ConsignmentAssumption
<1>1. PICK op \in Listed : o \in Outputs(op)
  BY DEF Disclosed, RevealedOutputs
<1>2. o.op = op
  BY <1>1 DEF Outputs
<1>3. CASE op = Genesis
  BY <1>2, <1>3
<1>4. CASE op # Genesis
  <2>1. PICK p \in Positions(container) : At(container, p) = op
    BY <1>1, <1>4 DEF Listed
  <2>2. \A r \in Inputs(op) : MadeAndClosed(container, r, p)
    BY <2>1 DEF HistoryGood
  <2>3. \A r \in Inputs(op) : r \in RevealedOutputs(container, r.op) /\ r.op \in Listed
    BY <2>2 DEF MadeAndClosed, Listed
  <2> QED
    BY <1>2, <2>3 DEF Disclosed
<1> QED
  BY <1>3, <1>4
-------------------------------------------------------------------------------
LEMMA InitInv == Init => IInv
<1> SUFFICES ASSUME Init PROVE IInv
  OBVIOUS
<1>1. TypeOK
  BY RejectListAssumption DEF Init, TypeOK
<1>2. DecisionsRead
  BY DEF Init, DecisionsRead, Says
<1> QED
  BY <1>1, <1>2 DEF Init, IInv, SearchRead, InLineage, Explored, Answered

LEMMA LinesType == ASSUME TypeOK PROVE lines \in Seq(Line)
  BY RejectListAssumption DEF TypeOK

LEMMA ParseInv ==
  ASSUME IInv, ParseLine
  PROVE  IInv'
<1> DEFINE line == lines[read + 1]
<1>1. /\ lines \in Seq(Line) /\ read \in Nat /\ read < Len(lines)
      /\ line \in Line /\ lines' = lines /\ read' = read + 1
  BY LinesType DEF IInv, TypeOK, ParseLine, given
<1>2. decisions' = Decided(decisions, line)
  BY DEF ParseLine
<1>3. line.opout \in Ref \cup {NoOpout} /\ line.allowed \in BOOLEAN
  BY <1>1 DEF Line
<1> HIDE DEF line
<1>4. DOMAIN decisions' \subseteq Ref /\ \A o \in DOMAIN decisions' : decisions'[o] \in BOOLEAN
  BY <1>2, <1>3 DEF IInv, TypeOK, Decided
<1>5. TypeOK'
  BY <1>1, <1>4 DEF IInv, TypeOK, ParseLine, given, search
<1>6. DecisionsRead'
  <2> SUFFICES ASSUME NEW o \in Ref, NEW b \in BOOLEAN
               PROVE  (o \in DOMAIN decisions' /\ decisions'[o] = b) <=> Says(read, o, b)'
    BY <1>1 DEF DecisionsRead
  <2>1. Says(read, o, b)' <=> Says(read + 1, o, b)
    BY <1>1 DEF Says
  <2>2. Says(read + 1, o, b) <=> IF line.opout = o THEN line.allowed = b
                                 ELSE Says(read, o, b)
    BY <1>1, SaysNext DEF line
  <2>3. (o \in DOMAIN decisions /\ decisions[o] = b) <=> Says(read, o, b)
    BY DEF IInv, DecisionsRead
  <2>4. o # NoOpout
    BY RejectListAssumption
  <2>5. CASE line.opout = o
    BY <1>2, <2>1, <2>2, <2>4, <2>5 DEF Decided
  <2>6. CASE line.opout # o
    BY <1>2, <2>1, <2>2, <2>3, <2>6 DEF Decided
  <2> QED
    BY <2>5, <2>6
<1>7. pc' = "parsing"
  BY DEF ParseLine
<1> QED
  BY <1>5, <1>6, <1>7 DEF IInv, SearchRead, InLineage, Explored, Answered

LEMMA SaysStays == ASSUME UNCHANGED <<lines, read, decisions>>, DecisionsRead PROVE DecisionsRead'
  BY DEF DecisionsRead, Says

\* Nothing the lineage is made of changes while the list is used.
LEMMA LineageStays == ASSUME UNCHANGED lines PROVE \A o : Lineage(o)' = Lineage(o)
<1>1. Len(lines)' = Len(lines) /\ lines' = lines
  OBVIOUS
<1>2. \A o : Shielded(o)' <=> Shielded(o)
  BY <1>1 DEF Shielded, Says
<1>3. \A s : ClosedUpwards(s)' <=> ClosedUpwards(s)
  BY <1>2 DEF ClosedUpwards, Inputs
<1> QED
  BY <1>3 DEF Lineage, Opouts, Outputs, Inputs

LEMMA CheckInv ==
  ASSUME IInv, NEW o \in Opouts, Check(o)
  PROVE  IInv'
<1>1. /\ UNCHANGED <<container, lines, read, decisions>> /\ read = Len(lines)
      /\ pc' = "searching" /\ checked' = o /\ pending' = {o} /\ seen' = {}
      /\ found' = NoOpout
  BY DEF Check, given, parsed
<1>2. TypeOK'
  BY <1>1 DEF IInv, TypeOK
<1>3. DecisionsRead'
  BY <1>1, SaysStays DEF IInv
<1>4. InLineage'
  BY <1>1, LineageStart, LineageStays DEF InLineage
<1> QED
  BY <1>1, <1>2, <1>3, <1>4 DEF IInv, SearchRead, Explored, Answered

(***************************************************************************)
(* A visit leaves the shielded alone, stops at the rejected, and puts the  *)
(* parents of anything else among the pending.                             *)
(***************************************************************************)
LEMMA VisitInv ==
  ASSUME IInv, NEW o \in Opouts, Visit(o)
  PROVE  IInv'
<1>1. /\ UNCHANGED <<container, lines, read, decisions, checked>> /\ pc = "searching"
      /\ o \in pending /\ seen' = seen \cup {o} /\ read = Len(lines) /\ checked \in Opouts
      /\ found = NoOpout
  BY DEF Visit, given, parsed, IInv, SearchRead, Explored
<1>2. Allow' = Allow /\ Reject' = Reject /\ \A x : Parents(x)' = Parents(x)
  BY <1>1 DEF Allow, Reject, Parents, Inputs, Disclosed, RevealedOutputs, Outputs, Listed,
              Positions, At
<1>3. Parents(o) \subseteq Opouts
  BY ParentsAreOpouts
<1>4. pending' \subseteq pending \cup Parents(o)
  BY DEF Visit
<1>5. /\ pc' \in {"searching", "answered"}
      /\ found' \in Opouts \cup {NoOpout}
  BY <1>1 DEF Visit, IInv, TypeOK
<1>6. TypeOK'
  BY <1>1, <1>3, <1>4, <1>5 DEF IInv, TypeOK
<1>7. DecisionsRead'
  BY <1>1, SaysStays DEF IInv
<1>8. InLineage'
  <2>1. o \in Lineage(checked) /\ pending \cup seen \subseteq Lineage(checked)
    BY <1>1 DEF IInv, InLineage
  <2>2. CASE o \in Allow
    <3>1. pending' \subseteq pending
      BY <2>2 DEF Visit, Allow, Reject
    <3> QED
      BY <1>1, <2>1, <3>1, LineageStays DEF InLineage
  <2>3. CASE o \notin Allow
    <3>1. o \in Ref
      BY OpoutFacts
    <3>2. ~Shielded(o)
      BY <1>1, <2>3, <3>1, ListRead
    <3>3. Parents(o) \subseteq Lineage(checked)
      BY <2>1, <3>2, LineageStep DEF Parents
    <3> QED
      BY <1>1, <1>4, <2>1, <3>3, LineageStays DEF InLineage
  <2> QED
    BY <2>2, <2>3
<1>9. NoOpout \notin Opouts
  BY OpoutFacts, RejectListAssumption
<1>10. CASE o \in seen \cup Allow
  <2>1. pending' = pending \ {o} /\ pc' = "searching" /\ found' = NoOpout
    BY <1>1, <1>10 DEF Visit, Reject
  <2>2. pending' \cup seen' = pending \cup seen
    BY <1>1, <2>1
  <2>3. Explored'
    BY <1>1, <1>2, <1>10, <2>1, <2>2 DEF IInv, Explored
  <2> QED
    BY <1>1, <1>6, <1>7, <1>8, <2>1, <2>3 DEF IInv, SearchRead, Answered
<1>11. CASE o \in Reject \ seen
  <2>1. pc' = "answered" /\ found' = o
    BY <1>11 DEF Visit, Reject
  <2> QED
    BY <1>1, <1>2, <1>6, <1>7, <1>8, <1>9, <1>11, <2>1
       DEF IInv, SearchRead, Explored, Answered
<1>12. CASE o \notin seen \cup Allow \cup Reject
  <2>1. pending' = (pending \ {o}) \cup Parents(o) /\ pc' = "searching" /\ found' = NoOpout
    BY <1>1, <1>12 DEF Visit
  <2>2. pending' \cup seen' = pending \cup seen \cup Parents(o)
    BY <1>1, <2>1
  <2>3. Explored'
    BY <1>1, <1>2, <1>12, <2>1, <2>2 DEF IInv, Explored
  <2> QED
    BY <1>1, <1>6, <1>7, <1>8, <2>1, <2>3 DEF IInv, SearchRead, Answered
<1> QED
  BY <1>10, <1>11, <1>12

LEMMA NothingFoundInv ==
  ASSUME IInv, NothingFound
  PROVE  IInv'
<1>1. /\ UNCHANGED <<container, lines, read, decisions, checked, pending, seen, found>>
      /\ pc = "searching" /\ pc' = "answered" /\ pending = {} /\ found = NoOpout
  BY DEF NothingFound, given, parsed, search, IInv, Explored
<1>2. Allow' = Allow /\ Reject' = Reject /\ \A x : Parents(x)' = Parents(x)
  BY <1>1 DEF Allow, Reject, Parents, Inputs, Disclosed, RevealedOutputs, Outputs, Listed,
              Positions, At
<1>3. TypeOK'
  BY <1>1 DEF IInv, TypeOK
<1>4. DecisionsRead'
  BY <1>1, SaysStays DEF IInv
<1>5. InLineage'
  BY <1>1, LineageStays DEF IInv, InLineage
<1>6. Explored'
  BY <1>1, <1>2 DEF IInv, Explored
<1> QED
  BY <1>1, <1>3, <1>4, <1>5, <1>6 DEF IInv, SearchRead, Answered

LEMMA StutterInv == ASSUME IInv, UNCHANGED vars PROVE IInv'
<1>1. /\ UNCHANGED <<container, lines, read, decisions, pc, checked, pending, seen, found>>
  BY DEF vars, given, parsed, search
<1>2. Allow' = Allow /\ Reject' = Reject /\ \A x : Parents(x)' = Parents(x)
  BY <1>1 DEF Allow, Reject, Parents, Inputs, Disclosed, RevealedOutputs, Outputs, Listed,
              Positions, At
<1>3. TypeOK'
  BY <1>1 DEF IInv, TypeOK
<1>4. DecisionsRead'
  BY <1>1, SaysStays DEF IInv
<1>5. InLineage'
  BY <1>1, LineageStays DEF IInv, InLineage
<1>6. Explored'
  BY <1>1, <1>2 DEF IInv, Explored
<1> QED
  BY <1>1, <1>2, <1>3, <1>4, <1>5, <1>6 DEF IInv, SearchRead, Answered

LEMMA NextInv == IInv /\ [Next]_vars => IInv'
<1> SUFFICES ASSUME IInv, [Next]_vars PROVE IInv'
  OBVIOUS
<1>1. CASE ParseLine
  BY <1>1, ParseInv
<1>2. CASE \E o \in Opouts : Check(o) \/ Visit(o)
  BY <1>2, CheckInv, VisitInv
<1>3. CASE NothingFound
  BY <1>3, NothingFoundInv
<1>4. CASE UNCHANGED vars
  BY <1>4, StutterInv
<1> QED
  BY <1>1, <1>2, <1>3, <1>4 DEF Next

(***************************************************************************)
(* The map, the pending and the visited sets hold what they should, while  *)
(* the list is read and while the history is searched (rejectlist.go).     *)
(***************************************************************************)
THEOREM TypeCorrect == Spec => []TypeOK
<1>1. IInv => TypeOK
  BY DEF IInv
<1> QED
  BY <1>1, InitInv, NextInv, PTL DEF Spec

(***************************************************************************)
(* What the search names is rejected and an unshielded ancestor            *)
(* (rejectlist.go:66-89).                                                  *)
(***************************************************************************)
THEOREM NamesOnlyRejections == Spec => []NamesARejection
<1>1. IInv => NamesARejection
  <2> SUFFICES ASSUME IInv, pc = "answered", found # NoOpout
               PROVE  Rejected(found) /\ found \in Lineage(checked)
    BY DEF NamesARejection
  <2>1. found \in seen /\ found \in Reject /\ read = Len(lines) /\ found \in Opouts
    BY DEF IInv, Answered, SearchRead, TypeOK
  <2>2. found \in Lineage(checked)
    BY <2>1 DEF IInv, InLineage
  <2> QED
    BY <2>1, <2>2, OpoutFacts, ListRead
<1> QED
  BY <1>1, InitInv, NextInv, PTL DEF Spec

(***************************************************************************)
(* Nothing rejected in the lineage of a disclosed allocation of a good     *)
(* history is missed (rejectlist.go:66-89, dag.go:13-62): what was visited *)
(* is closed under the parents of the disclosed graph, hence under         *)
(* ancestry, hence contains the lineage.                                   *)
(***************************************************************************)
THEOREM MissesNone == Spec => []MissesNoRejection
<1>1. IInv => MissesNoRejection
  <2> SUFFICES ASSUME IInv, pc = "answered", found = NoOpout, HistoryGood(container),
                      checked \in Disclosed, NEW o \in Lineage(checked)
               PROVE  ~Rejected(o)
    BY DEF MissesNoRejection
  <2> DEFINE known == seen \cap Disclosed
  <2>1. /\ pending = {} /\ checked \in seen /\ seen \subseteq Opouts /\ read = Len(lines)
        /\ \A x \in seen : x \in Allow \/ (x \notin Reject /\ Parents(x) \subseteq seen)
    BY DEF IInv, Answered, Explored, SearchRead, TypeOK
  <2>2. ClosedUpwards(known)
    <3> SUFFICES ASSUME NEW x \in known, ~Shielded(x), NEW r \in Inputs(x.op)
                 PROVE  r \in known
      BY DEF ClosedUpwards
    <3>1. x \notin Allow
      BY <2>1, OpoutFacts, ListRead
    <3>2. r \in Parents(x)
      BY DEF Parents
    <3>3. r \in Disclosed
      BY DisclosedClosed
    <3> QED
      BY <2>1, <3>1, <3>2, <3>3
  <2>3. known \in SUBSET Opouts /\ checked \in known
    BY <2>1
  <2>4. o \in seen /\ o \in Opouts
    BY <2>2, <2>3 DEF Lineage
  <2>5. o \notin Reject
    BY <2>1, <2>4 DEF Reject
  <2> QED
    BY <2>1, <2>4, <2>5, OpoutFacts, ListRead
<1> QED
  BY <1>1, InitInv, NextInv, PTL DEF Spec
===============================================================================
