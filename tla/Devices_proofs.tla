---------------------------- MODULE Devices_proofs ----------------------------
(***************************************************************************)
(* The store keeps its contract for any number of sessions, keys and       *)
(* values, and a selection is right for any heads in any order, on any     *)
(* width of the sequence number.                                           *)
(***************************************************************************)
EXTENDS Devices, TLAPS

Writes == UNION {[D -> Entry] : D \in SUBSET Key}

\* The writer is alone, its transaction is open, and what it has still to
\* apply is part of what it wrote.
Holding ==
    \/ lock = {} /\ left = {}
    \/ \E c \in Client : /\ lock = {c}
                         /\ \E w \in Writes : tx[c] = {w} /\ left \subseteq DOMAIN w

StoreInv == /\ data \in [Key -> Entry]
            /\ got \in [Client -> Entry]
            /\ tx \in [Client -> {{}} \cup {{w} : w \in Writes}]
            /\ Holding

-------------------------------------------------------------------------------
LEMMA OneWrite ==
  ASSUME NEW w \in Writes, NEW k \in Key, NEW e \in Entry
  PROVE  /\ With(w, k, e) \in Writes
         /\ DOMAIN With(w, k, e) = DOMAIN w \cup {k}
<1>1. PICK D \in SUBSET Key : w \in [D -> Entry]
  BY DEF Writes
<1>2. With(w, k, e) \in [D \cup {k} -> Entry]
  BY <1>1 DEF With
<1>3. D \cup {k} \in SUBSET Key
  OBVIOUS
<1> QED
  BY <1>1, <1>2, <1>3 DEF Writes

LEMMA EmptyWrites == [k \in {} |-> {}] \in Writes
<1>1. [k \in {} |-> {}] \in [{} -> Entry] /\ {} \in SUBSET Key
  OBVIOUS
<1> QED
  BY <1>1 DEF Writes

LEMMA WritesFacts ==
  ASSUME NEW w \in Writes
  PROVE  DOMAIN w \subseteq Key /\ \A k \in DOMAIN w : w[k] \in Entry
  BY DEF Writes

LEMMA WriteInv ==
  ASSUME StoreInv, NEW c \in Client, NEW k \in Key, NEW e \in Entry, Write(c, k, e)
  PROVE  StoreInv'
<1>1. PICK w \in tx[c] : tx' = [tx EXCEPT ![c] = {With(w, k, e)}]
  BY DEF Write
<1>2. w \in Writes
  BY DEF StoreInv
<1>3. tx' \in [Client -> {{}} \cup {{x} : x \in Writes}]
  BY <1>1, <1>2, OneWrite DEF StoreInv
<1>4. \A d \in lock : tx'[d] = tx[d]
  BY <1>1, <1>3 DEF StoreInv, Write
<1>5. Holding'
  BY <1>4 DEF Write, StoreInv, Holding
<1> QED
  BY <1>3, <1>5 DEF Write, StoreInv

LEMMA LockInv == ASSUME StoreInv, NEW c \in Client, Lock(c) PROVE StoreInv'
<1>1. PICK w \in tx[c] : left' = DOMAIN w
  BY DEF Lock
<1>2. w \in Writes /\ tx[c] = {w}
  BY DEF StoreInv
<1>3. Holding'
  BY <1>1, <1>2 DEF Lock, Holding
<1> QED
  BY <1>3 DEF Lock, StoreInv

LEMMA ApplyFacts ==
  ASSUME StoreInv, NEW c \in Client, NEW k \in Key, Apply(c, k)
  PROVE  \E w \in Writes : /\ lock = {c} /\ tx[c] = {w} /\ left \subseteq DOMAIN w
                           /\ k \in left /\ w[k] \in Entry
                           /\ data' = [data EXCEPT ![k] = w[k]]
<1>1. PICK w \in Writes : lock = {c} /\ tx[c] = {w} /\ left \subseteq DOMAIN w
  BY DEF Apply, StoreInv, Holding
<1>2. k \in left /\ data' = [data EXCEPT ![k] = w[k]]
  BY <1>1 DEF Apply
<1>3. w[k] \in Entry
  BY <1>1, <1>2, WritesFacts
<1> QED
  BY <1>1, <1>2, <1>3

LEMMA ApplyInv ==
  ASSUME StoreInv, NEW c \in Client, NEW k \in Key, Apply(c, k) PROVE StoreInv'
<1>1. PICK w \in Writes : /\ lock = {c} /\ tx[c] = {w} /\ left \subseteq DOMAIN w
                          /\ k \in left /\ w[k] \in Entry
                          /\ data' = [data EXCEPT ![k] = w[k]]
  BY ApplyFacts
<1>2. Holding'
  BY <1>1 DEF Apply, Holding
<1> QED
  BY <1>1, <1>2 DEF Apply, StoreInv

LEMMA CloseInv ==
  ASSUME StoreInv, NEW c \in Client, Unlock(c) \/ Rollback(c) PROVE StoreInv'
<1>1. tx' \in [Client -> {{}} \cup {{w} : w \in Writes}]
  BY DEF Unlock, Rollback, StoreInv
<1>2. CASE Unlock(c)
  BY <1>1, <1>2 DEF Unlock, StoreInv, Holding
<1>3. CASE Rollback(c)
  <2>1. \A d \in lock : tx'[d] = tx[d]
    BY <1>3 DEF Rollback, StoreInv, Holding
  <2> QED
    BY <1>1, <1>3, <2>1 DEF Rollback, StoreInv, Holding
<1> QED
  BY <1>2, <1>3

LEMMA BeginInv == ASSUME StoreInv, NEW c \in Client, Begin(c) PROVE StoreInv'
<1>1. tx' \in [Client -> {{}} \cup {{w} : w \in Writes}]
  BY EmptyWrites DEF Begin, StoreInv
<1>2. \A d \in lock : tx'[d] = tx[d]
  BY DEF Begin, StoreInv, Holding
<1> QED
  BY <1>1, <1>2 DEF Begin, StoreInv, Holding

LEMMA StoreStep == ASSUME StoreInv, [StoreNext]_storeVars PROVE StoreInv'
<1>1. ASSUME NEW c \in Client, NEW k \in Key, Get(c, k) PROVE StoreInv'
  BY <1>1 DEF Get, StoreInv, Holding
<1>2. ASSUME NEW c \in Client, NEW k \in Key, NEW v \in Value, Delete(c, k) \/ Put(c, k, v)
      PROVE  StoreInv'
  BY <1>2, WriteInv DEF Delete, Put, Entry
<1>3. ASSUME NEW c \in Client, NEW k \in Key, Delete(c, k) PROVE StoreInv'
  BY <1>3, WriteInv DEF Delete, Entry
<1>4. CASE UNCHANGED storeVars
  BY <1>4 DEF storeVars, StoreInv, Holding
<1> QED
  BY <1>1, <1>2, <1>3, <1>4, BeginInv, CloseInv, LockInv, ApplyInv DEF StoreNext, CommitStep

-------------------------------------------------------------------------------
Pending == [c \in Client |-> IF c \in lock THEN {} ELSE tx[c]]

\* While nobody holds the lock the map is what the contract says it is.
LEMMA Unlocked == ASSUME StoreInv, lock = {} PROVE Settled = data
  BY DEF StoreInv, Holding, Settled

LEMMA UnionOne == ASSUME NEW S PROVE UNION {S} = S
  OBVIOUS

LEMMA SameHeld ==
  ASSUME UNCHANGED <<data, lock, left>>, \A d \in lock : tx'[d] = tx[d]
  PROVE  Settled' = Settled
<1>1. {tx'[d] : d \in lock'} = {tx[d] : d \in lock}
  OBVIOUS
<1> QED
  BY <1>1 DEF Settled

LEMMA HeldSettled ==
  ASSUME NEW c \in Client, NEW w, lock = {c}, tx[c] = {w}
  PROVE  Settled = [k \in Key |-> IF k \in left THEN w[k] ELSE data[k]]
<1>1. UNION {tx[d] : d \in lock} = {w}
  BY UnionOne
<1>2. \A k : UNION {x[k] : x \in {w}} = w[k]
  OBVIOUS
<1> QED
  BY <1>1, <1>2 DEF Settled

LEMMA WriteMaps ==
  ASSUME StoreInv, NEW c \in Client, NEW k \in Key, NEW e \in Entry, Write(c, k, e)
  PROVE  Contract!Write(c, k, e)
<1>1. PICK w \in tx[c] : tx' = [tx EXCEPT ![c] = {With(w, k, e)}]
  BY DEF Write
<1>2. UNCHANGED <<data, lock, left, got>> /\ c \notin lock
  BY DEF Write
<1>3. \A d \in lock : tx'[d] = tx[d]
  BY <1>1, <1>2 DEF StoreInv
<1>4. Settled' = Settled
  BY <1>2, <1>3, SameHeld
<1>5. Pending' = [Pending EXCEPT ![c] = {With(w, k, e)}]
  BY <1>1, <1>2 DEF Pending, StoreInv
<1>6. w \in Pending[c]
  BY <1>2 DEF Pending
<1> QED
  BY <1>2, <1>4, <1>5, <1>6 DEF Contract!Write, Contract!Change, Pending, With

LEMMA LockMaps == ASSUME StoreInv, NEW c \in Client, Lock(c) PROVE Contract!Commit(c)
<1>1. PICK w \in tx[c] : left' = DOMAIN w
  BY DEF Lock
<1>2. lock = {} /\ lock' = {c} /\ UNCHANGED <<data, tx, got>>
  BY DEF Lock
<1>3. tx[c] = {w} /\ Pending[c] = {w}
  BY <1>2 DEF StoreInv, Pending
<1>4. Settled = data
  BY <1>2, Unlocked
<1>5. Settled' = [k \in Key |-> IF k \in left' THEN w[k] ELSE data[k]]
  <2>1. lock' = {c} /\ tx'[c] = {w}
    BY <1>2, <1>3
  <2>2. UNION {tx'[d] : d \in lock'} = {w}
    BY <2>1, UnionOne
  <2>3. \A k : UNION {x[k] : x \in {w}} = w[k]
    OBVIOUS
  <2> QED
    BY <1>2, <2>2, <2>3 DEF Settled
<1>6. Pending' = [Pending EXCEPT ![c] = {}]
  BY <1>2 DEF Pending
<1> QED
  BY <1>1, <1>2, <1>3, <1>4, <1>5, <1>6 DEF Contract!Commit, Pending

LEMMA ApplyMaps ==
  ASSUME StoreInv, NEW c \in Client, NEW k \in Key, Apply(c, k)
  PROVE  UNCHANGED <<Settled, Pending, got>>
<1>1. PICK w \in Writes : /\ lock = {c} /\ tx[c] = {w} /\ left \subseteq DOMAIN w
                          /\ k \in left /\ w[k] \in Entry
                          /\ data' = [data EXCEPT ![k] = w[k]]
  BY ApplyFacts
<1>2. left' = left \ {k} /\ UNCHANGED <<tx, lock, got>>
  BY DEF Apply
<1>3. Settled = [x \in Key |-> IF x \in left THEN w[x] ELSE data[x]]
  BY <1>1, HeldSettled
<1>4. Settled' = [x \in Key |-> IF x \in left' THEN w[x] ELSE data'[x]]
  <2>1. UNION {tx'[d] : d \in lock'} = {w}
    BY <1>1, <1>2, UnionOne
  <2>2. \A x : UNION {y[x] : y \in {w}} = w[x]
    OBVIOUS
  <2> QED
    BY <2>1, <2>2 DEF Settled
<1>5. Settled' = Settled
  BY <1>1, <1>2, <1>3, <1>4 DEF StoreInv
<1> QED
  BY <1>2, <1>5 DEF Pending

LEMMA CloseMaps ==
  ASSUME StoreInv, NEW c \in Client
  PROVE  /\ Unlock(c) => UNCHANGED <<Settled, Pending, got>>
         /\ Rollback(c) => Contract!Rollback(c)
<1>1. ASSUME Unlock(c) PROVE UNCHANGED <<Settled, Pending, got>>
  <2>1. lock = {c} /\ lock' = {} /\ left = {} /\ left' = {}
    BY <1>1 DEF Unlock, StoreInv, Holding
  <2>2. Settled = data /\ Settled' = data'
    BY <2>1, <1>1 DEF Unlock, Settled, StoreInv
  <2>3. Pending' = Pending
    BY <1>1, <2>1 DEF Unlock, Pending, StoreInv
  <2> QED
    BY <1>1, <2>2, <2>3 DEF Unlock
<1>2. ASSUME Rollback(c) PROVE Contract!Rollback(c)
  <2>1. UNCHANGED <<data, lock, left, got>> /\ tx' = [tx EXCEPT ![c] = {}] /\ c \notin lock
    BY <1>2 DEF Rollback
  <2>2. \A d \in lock : tx'[d] = tx[d]
    BY <2>1 DEF StoreInv
  <2>3. Settled' = Settled
    BY <2>1, <2>2, SameHeld
  <2>4. Pending' = [Pending EXCEPT ![c] = {}]
    BY <2>1 DEF Pending, StoreInv
  <2> QED
    BY <2>1, <2>3, <2>4 DEF Contract!Rollback, Contract!Change, Pending
<1> QED
  BY <1>1, <1>2

LEMMA BeginMaps == ASSUME StoreInv, NEW c \in Client, Begin(c) PROVE Contract!Begin(c)
<1>1. tx[c] = {} /\ tx' = [tx EXCEPT ![c] = {[k \in {} |-> {}]}] /\ UNCHANGED <<data, lock, left, got>>
  BY DEF Begin
<1>2. c \notin lock
  BY <1>1 DEF StoreInv, Holding
<1>3. \A d \in lock : tx'[d] = tx[d]
  BY <1>1, <1>2 DEF StoreInv
<1>4. Settled' = Settled
  BY <1>1, <1>3, SameHeld
<1>5. Pending' = [Pending EXCEPT ![c] = {[k \in {} |-> {}]}] /\ Pending[c] = {}
  BY <1>1, <1>2 DEF Pending, StoreInv
<1> QED
  BY <1>1, <1>4, <1>5 DEF Contract!Begin, Contract!Change, Pending

LEMMA GetMaps ==
  ASSUME StoreInv, NEW c \in Client, NEW k \in Key, Get(c, k) PROVE Contract!Read(c, k)
<1>1. Settled = data
  BY Unlocked DEF Get, MayRead
<1>2. UNCHANGED <<Settled, Pending>>
  BY DEF Get, Settled, Pending
<1> QED
  BY <1>1, <1>2 DEF Get, Contract!Read, Pending

LEMMA SameEntry == Contract!Entry = Entry
  BY DEF Contract!Entry, Entry

LEMMA StoreMaps ==
  ASSUME StoreInv, [StoreNext]_storeVars
  PROVE  Contract!Next \/ UNCHANGED <<Settled, Pending, got>>
<1>1. ASSUME NEW c \in Client, NEW k \in Key, Get(c, k) PROVE Contract!Next
  BY <1>1, GetMaps DEF Contract!Next
<1>2. ASSUME NEW c \in Client, NEW k \in Key,
             Delete(c, k) \/ \E v \in Value : Put(c, k, v)
      PROVE  Contract!Next
  <2>1. PICK e \in Entry : Write(c, k, e)
    BY <1>2 DEF Delete, Put, Entry
  <2> QED
    BY <2>1, WriteMaps, SameEntry DEF Contract!Next
<1>3. ASSUME NEW c \in Client, Begin(c) \/ Rollback(c) \/ Lock(c) PROVE Contract!Next
  BY <1>3, BeginMaps, CloseMaps, LockMaps DEF Contract!Next
<1>4. ASSUME NEW c \in Client, Unlock(c) \/ \E k \in Key : Apply(c, k)
      PROVE  UNCHANGED <<Settled, Pending, got>>
  BY <1>4, CloseMaps, ApplyMaps
<1>5. CASE UNCHANGED storeVars
  BY <1>5 DEF storeVars, Settled, Pending
<1> QED
  BY <1>1, <1>2, <1>3, <1>4, <1>5 DEF StoreNext, CommitStep

-------------------------------------------------------------------------------
(***************************************************************************)
(* Reads and commits of any number of goroutines behave as if every commit *)
(* wrote all its keys in one instant (storage/memory.go:57, store.go:7).   *)
(***************************************************************************)
THEOREM StoreIsAtomic == StoreSpec => KeepsContract
<1>1. StoreInit => StoreInv /\ Contract!Init
  BY Unlocked DEF StoreInit, StoreInv, Holding, Entry, Contract!Init, Settled
<1>2. StoreInv /\ [StoreNext]_storeVars => StoreInv'
  BY StoreStep
<1>3. StoreInv /\ [StoreNext]_storeVars => [Contract!Next]_Contract!vars
  BY StoreMaps DEF Contract!vars, Pending
<1> QED
  BY <1>1, <1>2, <1>3, PTL DEF StoreSpec, KeepsContract, Contract!Spec

(***************************************************************************)
(* The sessions of a wallet work on such a store.                          *)
(***************************************************************************)
THEOREM DevicesKeepContract == DevicesSpec => KeepsContract
<1>1. DevicesInit => StoreInit
  BY DEF DevicesInit
<1>2. [DevicesNext]_devicesVars => [StoreNext]_storeVars
  <2>1. ASSUME NEW c \in Client, Session(c) PROVE StoreNext
    <3>1. CASE Begin(c) \/ Rollback(c) \/ CommitStep(c)
      BY <3>1 DEF StoreNext
    <3>2. CASE Get(c, "head") \/ Forget(c)
      BY <3>2, DeviceAssumption DEF StoreNext, Forget
    <3>3. CASE \E h \in Head : Advance(c, h) \/ Snapshot(c, h)
      BY <3>3, DeviceAssumption DEF StoreNext, Advance, Snapshot
    <3> QED
      BY <2>1, <3>1, <3>2, <3>3 DEF Session
  <2>2. ASSUME Publish \/ StartSelection \/ Selected \/ Return \/ \E h \in Head : Consider(h)
        PROVE  UNCHANGED storeVars
    BY <2>2 DEF Publish, StartSelection, Selected, Return, Consider
  <2> QED
    BY <2>1, <2>2 DEF DevicesNext, devicesVars
<1> QED
  BY <1>1, <1>2, StoreIsAtomic, PTL DEF DevicesSpec, StoreSpec

-------------------------------------------------------------------------------
\* A running selection has seen valid heads only; the latest stands above
\* all others, and there is one as soon as there was a candidate.
Leading ==
    /\ search.seen \subseteq Head
    /\ search.verdict \in {"continue", "selected"} =>
           /\ search.latest \subseteq search.seen
           /\ \A h \in search.seen : Validate(h, Mine)
           /\ \A h \in search.seen : \E l \in search.latest : h = l \/ h.seq < l.seq
           /\ \A l, m \in search.latest : l = m
    /\ search.verdict = "conflict" => \E h, l \in search.seen : h # l /\ h.seq = l.seq

LEMMA ConsiderLeads ==
  ASSUME Leading, NEW h \in Head, Consider(h) PROVE Leading'
<1> DEFINE verdict == Judged(search.latest, h, Mine)
           latest == IF verdict = "continue" THEN Later(search.latest, h) ELSE {}
<1>1. /\ search.verdict = "continue"
      /\ search'.seen = search.seen \cup {h}
      /\ search'.verdict = verdict
      /\ search'.latest = latest
  BY DEF Consider
<1>2. CASE verdict = "continue"
  <2>1. Validate(h, Mine) /\ \A l \in search.latest : l.seq = h.seq => l = h
    BY <1>2 DEF Judged, Hash
  <2>2. CASE \A l \in search.latest : h.seq > l.seq
    <3>1. search'.latest = {h}
      BY <1>1, <1>2, <2>2 DEF Later
    <3>2. ASSUME NEW x \in search.seen PROVE x.seq < h.seq
      <4>1. PICK l \in search.latest : x = l \/ x.seq < l.seq
        BY <1>1 DEF Leading
      <4>2. x.seq \in Nat /\ l.seq \in Nat /\ h.seq \in Nat
        BY <1>1, <4>1 DEF Leading, Head
      <4> QED
        BY <2>2, <4>1, <4>2
    <3> QED
      BY <1>1, <1>2, <2>1, <3>1, <3>2 DEF Leading
  <2>3. CASE ~ \A l \in search.latest : h.seq > l.seq
    <3>1. search'.latest = search.latest
      BY <1>1, <1>2, <2>3 DEF Later
    <3>2. PICK l \in search.latest : ~(h.seq > l.seq)
      BY <2>3
    <3>3. h.seq \in Nat /\ l.seq \in Nat
      BY <1>1, <3>2 DEF Leading, Head
    <3>4. h = l \/ h.seq < l.seq
      BY <2>1, <3>2, <3>3
    <3> QED
      BY <1>1, <1>2, <2>1, <3>1, <3>2, <3>4 DEF Leading
  <2> QED
    BY <2>2, <2>3
<1>3. CASE verdict = "conflict"
  <2>1. \E l \in search.latest : l.seq = h.seq /\ l # h
    BY <1>3 DEF Judged, Hash
  <2> QED
    BY <1>1, <1>3, <2>1 DEF Leading
<1>4. CASE verdict = "invalid"
  BY <1>1, <1>4 DEF Leading
<1> QED
  BY <1>2, <1>3, <1>4 DEF Judged

LEMMA LeadingStep == ASSUME Leading, [DevicesNext]_devicesVars PROVE Leading'
<1>1. CASE UNCHANGED search
  BY <1>1 DEF Leading
<1>2. CASE StartSelection
  BY <1>2 DEF StartSelection, Idle, Leading
<1>3. CASE Selected
  BY <1>3 DEF Selected, Leading
<1>4. CASE Return
  BY <1>4 DEF Return, Idle, Leading
<1>5. CASE \E h \in Head : Consider(h)
  BY <1>5, ConsiderLeads
<1>6. ASSUME NEW c \in Client, Session(c) PROVE UNCHANGED search
  BY <1>6 DEF Session, deviceVars, Advance, Snapshot, Forget
<1>7. ASSUME Publish PROVE UNCHANGED search
  BY <1>7 DEF Publish
<1> QED
  BY <1>1, <1>2, <1>3, <1>4, <1>5, <1>6, <1>7 DEF DevicesNext, devicesVars, deviceVars

\* At the limit of the word a valid head has no valid successor; below it
\* the successor is later.
LEMMA SuccessorLater ==
  ASSUME NEW l \in Head, NEW h \in Head, Validate(h, Mine), ValidateSuccessor(h, {l})
  PROVE  h.seq > l.seq
<1>1. h.seq = (l.seq + 1) % (MaxSeq + 1) /\ h.seq # 0
  BY DEF ValidateSuccessor, Validate
<1>2. l.seq \in 0 .. MaxSeq /\ MaxSeq \in Nat \ {0}
  BY HeadAssumption DEF Head
<1>3. CASE l.seq = MaxSeq
  <2>1. (MaxSeq + 1) % (MaxSeq + 1) = 0
    BY <1>2
  <2> QED
    BY <1>1, <1>3, <2>1
<1>4. CASE l.seq < MaxSeq
  <2>1. (l.seq + 1) % (MaxSeq + 1) = l.seq + 1
    BY <1>2, <1>4
  <2> QED
    BY <1>1, <1>2, <2>1
<1> QED
  BY <1>2, <1>3, <1>4

(***************************************************************************)
(* For any heads, however they forked, in any order and number: what is    *)
(* selected is the one latest head, also at the limit of the sequence      *)
(* numbers, and conflicts are real (sync/head.go:96).                      *)
(***************************************************************************)
THEOREM SelectsLatest == DevicesSpec => []SelectedIsLatest
<1>1. DevicesInit => Leading
  BY DEF DevicesInit, Idle, Leading
<1>2. Leading /\ [DevicesNext]_devicesVars => Leading'
  BY LeadingStep
<1>3. Leading => SelectedIsLatest
  <2> SUFFICES ASSUME Leading, search.verdict = "selected", NEW h \in search.seen
               PROVE  \E l \in search.latest :
                          h = l \/ (h.seq < l.seq /\ ~ValidateSuccessor(h, {l}))
    BY DEF Leading, SelectedIsLatest
  <2>1. PICK l \in search.latest : h = l \/ h.seq < l.seq
    BY DEF Leading
  <2>2. h \in Head /\ l \in Head /\ Validate(h, Mine)
    BY DEF Leading
  <2>3. h.seq \in Nat /\ l.seq \in Nat
    BY <2>2 DEF Head
  <2> QED
    BY <2>1, <2>2, <2>3, SuccessorLater
<1> QED
  BY <1>1, <1>2, <1>3, PTL DEF DevicesSpec
===============================================================================
