--------------------------- MODULE Delivery_proofs ---------------------------
(***************************************************************************)
(* Receive requests for any number of callers, and deliveries to any       *)
(* number of recipients, for any clock, any number of renewals and any     *)
(* crashes. Every step of a delivery is a step of the receive engine or    *)
(* leaves it alone; the decisions that answers repeat come from there. Two *)
(* conditions on the host are named, and assumed where they are needed: no *)
(* two callers serve the same request, and scripts leave room for the      *)
(* record around them.                                                     *)
(***************************************************************************)
EXTENDS Delivery, TLAPS

Exclusive == \A c, d \in Caller : c # d => Serves[c] \cap Serves[d] = {}

Fits == \A size \in ScriptSize, status \in Status, object \in Object \cup {None} :
            size + Overhead[status, object] <= BlobMax

(***************************************************************************)
(* What a caller is about to commit still applies: a request it creates is *)
(* unknown, and a request it decides is undecided.  This is what a second  *)
(* caller on the same request would destroy.                               *)
(***************************************************************************)
DraftsApply ==
    \A c \in Caller : call[c] # Idle =>
        /\ call[c].request \in Serves[c]
        /\ call[c].op = "create" => call[c].request \notin DOMAIN store
        /\ call[c].op # "create" =>
               /\ call[c].record.object \in Object
               /\ call[c].request \in DOMAIN store
               /\ store[call[c].request].status \notin Terminal

RecordedStored == \A d \in recorded : d.request \in DOMAIN store

ShownStored == shown \subseteq DOMAIN store

\* Without any condition on the callers.
BasicInv == TypeOK /\ RecordedStored /\ ShownStored
                   /\ \A c \in Caller : call[c] # Idle /\ call[c].op # "create"
                          => /\ call[c].record.object \in Object
                             /\ call[c].request \in DOMAIN store

IInv == BasicInv /\ DraftsApply /\ DecisionKept

-------------------------------------------------------------------------------
LEMMA InitBasic == Init => BasicInv
  BY DEF Init, BasicInv, TypeOK, RecordedStored, ShownStored, Idle, Draft

LEMMA InitInv == Init => IInv
  BY InitBasic DEF Init, IInv, DraftsApply, DecisionKept

LEMMA CreateBasic ==
  ASSUME BasicInv, NEW c \in Caller, NEW size \in ScriptSize, Create(c, size)
  PROVE  BasicInv'
<1> USE ReceiveAssumption
<1>1. PICK r \in Serves[c] \ (DOMAIN store \cup Drafted) :
        call' = [call EXCEPT ![c] =
                    [op |-> "create", request |-> r,
                     record |-> [status |-> "PREPARED", object |-> None, script |-> size]]]
  BY DEF Create
<1>2. r \in Request
  OBVIOUS
<1>3. [status |-> "PREPARED", object |-> None, script |-> size] \in Record
  BY DEF Record, Status
<1>4. TypeOK'
  BY <1>1, <1>2, <1>3 DEF BasicInv, TypeOK, Create, Draft, Operation
<1> QED
  BY <1>1, <1>4 DEF BasicInv, TypeOK, RecordedStored, ShownStored, Create

LEMMA MarkBasic ==
  ASSUME BasicInv, NEW c \in Caller, NEW r \in Request, NEW object \in Object,
         NEW op \in Operation \ {"create"}, Mark(c, op, r, object)
  PROVE  BasicInv'
<1> DEFINE record == [store[r] EXCEPT !.status = StatusAfter(op), !.object = object]
<1>1. store[r] \in Record
  BY DEF BasicInv, TypeOK, Mark, LoadReceive
<1>2. StatusAfter(op) \in Status
  BY DEF StatusAfter, Status, Operation
<1>3. record \in Record /\ record.object = object
  BY <1>1, <1>2 DEF Record
<1>4. [op |-> op, request |-> r, record |-> record] \in Draft
  BY <1>3 DEF Draft
<1>5. call' = [call EXCEPT ![c] = [op |-> op, request |-> r, record |-> record]]
  BY DEF Mark, LoadReceive
<1> HIDE DEF record
<1>6. TypeOK'
  BY <1>4, <1>5 DEF BasicInv, TypeOK, Mark, LoadReceive
<1> QED
  BY <1>3, <1>5, <1>6 DEF BasicInv, TypeOK, RecordedStored, ShownStored, Mark, LoadReceive

LEMMA CommitShape ==
  ASSUME BasicInv, NEW c \in Caller, Commit(c)
  PROVE  /\ call[c] \in Draft
         /\ DOMAIN store' = DOMAIN store \cup {call[c].request}
         /\ store'[call[c].request] = call[c].record
         /\ \A r \in DOMAIN store : r # call[c].request => store'[r] = store[r]
         /\ call[c].op # "create" =>
                recorded' = recorded \cup {[request |-> call[c].request,
                                            status  |-> call[c].record.status,
                                            object  |-> call[c].record.object]}
         /\ call[c].op = "create" => recorded' = recorded
         /\ shown' \subseteq shown \cup {call[c].request}
<1>1. call[c] \in Draft
  BY DEF BasicInv, TypeOK, Commit
<1>2. shown' \subseteq shown \cup {call[c].request}
  BY DEF Commit, Returned
<1>3. call[c].op = "create" => recorded' = recorded
  BY DEF Commit
<1>4. call[c].op # "create" =>
         recorded' = recorded \cup {[request |-> call[c].request,
                                     status  |-> call[c].record.status,
                                     object  |-> call[c].record.object]}
  BY DEF Commit
<1> QED
  BY <1>1, <1>2, <1>3, <1>4 DEF Commit

LEMMA CommitBasic ==
  ASSUME BasicInv, NEW c \in Caller, Commit(c)
  PROVE  BasicInv'
<1>1. /\ call[c] \in Draft
      /\ call[c].request \in Request
      /\ call[c].record \in Record
  BY CommitShape DEF Draft
<1>2. call' = [call EXCEPT ![c] = Idle]
  BY DEF Commit
<1>3. call' \in [Caller -> Draft \cup {Idle}]
  BY <1>2 DEF BasicInv, TypeOK
<1>4. DOMAIN store' = DOMAIN store \cup {call[c].request}
  BY CommitShape
<1>5. ASSUME NEW x \in DOMAIN store' PROVE store'[x] \in Record
  <2>1. CASE x = call[c].request
    BY <1>1, <2>1, CommitShape
  <2>2. CASE x # call[c].request
    <3>1. x \in DOMAIN store
      BY <1>4, <2>2
    <3>2. store'[x] = store[x]
      BY <2>2, <3>1, CommitShape
    <3> QED
      BY <3>1, <3>2 DEF BasicInv, TypeOK
  <2> QED
    BY <2>1, <2>2
<1>6. recorded' \subseteq [request : Request, status : Status, object : Object]
  <2>1. CASE call[c].op = "create"
    BY <2>1, CommitShape DEF BasicInv, TypeOK
  <2>2. CASE call[c].op # "create"
    <3> DEFINE d == [request |-> call[c].request, status |-> call[c].record.status,
                     object  |-> call[c].record.object]
    <3>1. call[c].record.object \in Object
      BY <2>2 DEF BasicInv, Commit
    <3>2. call[c].record.status \in Status
      BY <1>1 DEF Record
    <3>3. d \in [request : Request, status : Status, object : Object]
      BY <1>1, <3>1, <3>2
    <3>4. recorded' = recorded \cup {d}
      BY <2>2, CommitShape
    <3> QED
      BY <3>3, <3>4 DEF BasicInv, TypeOK
  <2> QED
    BY <2>1, <2>2
<1>7. shown' \subseteq Request
  BY <1>1, CommitShape DEF BasicInv, TypeOK
<1>8. DOMAIN store' \subseteq Request
  BY <1>1, <1>4 DEF BasicInv, TypeOK
<1>9. TypeOK'
  BY <1>3, <1>5, <1>6, <1>7, <1>8 DEF TypeOK
<1>10. RecordedStored'
  <2> SUFFICES ASSUME NEW d \in recorded' PROVE d.request \in DOMAIN store'
    BY DEF RecordedStored
  <2>1. CASE d \in recorded
    BY <1>4, <2>1 DEF BasicInv, RecordedStored
  <2>2. CASE d \notin recorded
    BY <1>4, <2>2, CommitShape
  <2> QED
    BY <2>1, <2>2
<1>11. ShownStored'
  <2>1. shown' \subseteq shown \cup {call[c].request}
    BY CommitShape
  <2> QED
    BY <1>4, <2>1 DEF BasicInv, ShownStored
<1> QED
  BY <1>2, <1>4, <1>9, <1>10, <1>11 DEF BasicInv, TypeOK

LEMMA NextBasic == BasicInv /\ [Next]_vars => BasicInv'
<1> SUFFICES ASSUME BasicInv, [Next]_vars
             PROVE  BasicInv'
  OBVIOUS
<1>1. CASE \E c \in Caller, size \in ScriptSize : Create(c, size)
  BY <1>1, CreateBasic
<1>2. CASE \E c \in Caller, r \in Request, object \in Object,
              op \in Operation \ {"create"} : Mark(c, op, r, object)
  BY <1>2, MarkBasic
<1>3. CASE \E c \in Caller : Commit(c)
  BY <1>3, CommitBasic
<1>4. CASE \E C \in SUBSET Caller : Restart(C)
  BY <1>4 DEF Restart, BasicInv, TypeOK, RecordedStored, ShownStored
<1>5. CASE UNCHANGED vars
  BY <1>5 DEF vars, BasicInv, TypeOK, RecordedStored, ShownStored
<1> QED
  BY <1>1, <1>2, <1>3, <1>4, <1>5 DEF Next

(***************************************************************************)
(* Every stored request is well formed, whoever calls and wherever the     *)
(* host stops (receive.go, receive_storage.go).                            *)
(***************************************************************************)
THEOREM TypeCorrect == Spec => []TypeOK
<1>1. BasicInv => TypeOK
  BY DEF BasicInv
<1> QED
  BY <1>1, InitBasic, NextBasic, PTL DEF Spec

(***************************************************************************)
(* If scripts leave room for the rest of the record, every invoice that    *)
(* was returned can be recovered, whatever callers do to its request and   *)
(* through any crash (receive.go:46-48).                                   *)
(***************************************************************************)
THEOREM InvoicesRecoverable == ASSUME Fits PROVE Spec => []ShownIsRecoverable
<1>1. BasicInv => ShownIsRecoverable
  BY Fits DEF Fits, BasicInv, TypeOK, ShownStored, ShownIsRecoverable, Decodable, Record
<1> QED
  BY <1>1, InitBasic, NextBasic, PTL DEF Spec
-------------------------------------------------------------------------------
LEMMA CreateInv ==
  ASSUME IInv, NEW c \in Caller, NEW size \in ScriptSize, Create(c, size)
  PROVE  IInv'
<1>1. PICK r \in Serves[c] \ (DOMAIN store \cup Drafted) :
        call' = [call EXCEPT ![c] =
                    [op |-> "create", request |-> r,
                     record |-> [status |-> "PREPARED", object |-> None, script |-> size]]]
  BY DEF Create
<1>2. UNCHANGED <<store, recorded>>
  BY DEF Create
<1>3. BasicInv'
  BY CreateBasic DEF IInv
<1>4. DraftsApply'
  <2>1. call \in [Caller -> Draft \cup {Idle}]
    BY DEF IInv, BasicInv, TypeOK
  <2> QED
    BY <1>1, <1>2, <2>1 DEF IInv, DraftsApply
<1> QED
  BY <1>2, <1>3, <1>4 DEF IInv, DecisionKept

LEMMA MarkInv ==
  ASSUME IInv, NEW c \in Caller, NEW r \in Request, NEW object \in Object,
         NEW op \in Operation \ {"create"}, Mark(c, op, r, object)
  PROVE  IInv'
<1> DEFINE draft == [op |-> op, request |-> r,
                     record |-> [store[r] EXCEPT !.status = StatusAfter(op),
                                                 !.object = object]]
<1>1. call' = [call EXCEPT ![c] = draft] /\ UNCHANGED <<store, recorded>>
  BY DEF Mark, LoadReceive
<1>2. BasicInv'
  BY MarkBasic DEF IInv
<1>3. draft.op # "create" /\ draft.request = r /\ draft.record.object \in Object
  <2>1. store[r] \in Record
    BY DEF IInv, BasicInv, TypeOK, Mark, LoadReceive
  <2> QED
    BY <2>1 DEF Record
<1>4. r \in Serves[c] /\ r \in DOMAIN store /\ store[r].status \notin Terminal
  BY DEF Mark, LoadReceive, AllowedFrom, Terminal
<1>5. call \in [Caller -> Draft \cup {Idle}]
  BY DEF IInv, BasicInv, TypeOK
<1> HIDE DEF draft
<1>6. DraftsApply'
  BY <1>1, <1>3, <1>4, <1>5 DEF IInv, DraftsApply
<1> QED
  BY <1>1, <1>2, <1>6 DEF IInv, DecisionKept

(***************************************************************************)
(* A commit disturbs no other caller, which is at work on another request, *)
(* and no earlier decision, since its own request was undecided.           *)
(***************************************************************************)
LEMMA CommitInv ==
  ASSUME Exclusive, IInv, NEW c \in Caller, Commit(c)
  PROVE  IInv'
<1>1. BasicInv'
  BY CommitBasic DEF IInv
<1>2. call' = [call EXCEPT ![c] = Idle] /\ call[c] # Idle
  BY DEF Commit
<1>3. call \in [Caller -> Draft \cup {Idle}]
  BY DEF IInv, BasicInv, TypeOK
<1>4. /\ DOMAIN store' = DOMAIN store \cup {call[c].request}
      /\ store'[call[c].request] = call[c].record
      /\ \A r \in DOMAIN store : r # call[c].request => store'[r] = store[r]
  BY CommitShape DEF IInv
<1>5. DraftsApply'
  <2> SUFFICES ASSUME NEW d \in Caller, call'[d] # Idle
               PROVE  /\ call'[d].request \in Serves[d]
                      /\ call'[d].op = "create" => call'[d].request \notin DOMAIN store'
                      /\ call'[d].op # "create" =>
                             /\ call'[d].record.object \in Object
                             /\ call'[d].request \in DOMAIN store'
                             /\ store'[call'[d].request].status \notin Terminal
    BY DEF DraftsApply
  <2>1. d # c /\ call'[d] = call[d]
    BY <1>2, <1>3
  <2>2. call[c].request \in Serves[c] /\ call[d].request \in Serves[d]
    BY <1>2, <2>1 DEF IInv, DraftsApply
  <2>3. call[d].request # call[c].request
    BY <2>1, <2>2 DEF Exclusive
  <2> QED
    BY <1>4, <2>1, <2>3 DEF IInv, DraftsApply
<1>6. DecisionKept'
  <2> SUFFICES ASSUME NEW d \in recorded', d.status \in Terminal
               PROVE  /\ store'[d.request].status = d.status
                      /\ store'[d.request].object = d.object
    BY DEF DecisionKept
  <2>1. CASE d \in recorded
    <3>1. /\ d.request \in DOMAIN store
          /\ store[d.request].status = d.status
          /\ store[d.request].object = d.object
      BY <2>1 DEF IInv, BasicInv, RecordedStored, DecisionKept
    <3>2. d.request # call[c].request
      BY <1>2, <3>1 DEF IInv, DraftsApply
    <3> QED
      BY <1>4, <3>1, <3>2
  <2>2. CASE d \notin recorded
    <3>1. d = [request |-> call[c].request, status |-> call[c].record.status,
               object  |-> call[c].record.object]
      BY <2>2, CommitShape DEF IInv
    <3> QED
      BY <1>4, <3>1
  <2> QED
    BY <2>1, <2>2
<1> QED
  BY <1>1, <1>5, <1>6 DEF IInv

LEMMA NextInv == ASSUME Exclusive PROVE IInv /\ [Next]_vars => IInv'
<1> SUFFICES ASSUME IInv, [Next]_vars
             PROVE  IInv'
  OBVIOUS
<1>1. CASE \E c \in Caller, size \in ScriptSize : Create(c, size)
  BY <1>1, CreateInv
<1>2. CASE \E c \in Caller, r \in Request, object \in Object,
              op \in Operation \ {"create"} : Mark(c, op, r, object)
  BY <1>2, MarkInv
<1>3. CASE \E c \in Caller : Commit(c)
  BY <1>3, CommitInv
<1>4. BasicInv'
  BY NextBasic DEF IInv
<1>5. CASE \E C \in SUBSET Caller : Restart(C)
  BY <1>4, <1>5 DEF Restart, IInv, DraftsApply, DecisionKept
<1>6. CASE UNCHANGED vars
  BY <1>4, <1>6 DEF vars, IInv, DraftsApply, DecisionKept
<1> QED
  BY <1>1, <1>2, <1>3, <1>5, <1>6 DEF Next

(***************************************************************************)
(* While every request has one caller, a decision that was reported stays  *)
(* the one on record (receive.go:229-246).                                 *)
(***************************************************************************)
THEOREM DecisionsKept == ASSUME Exclusive PROVE Spec => []DecisionKept
<1>1. IInv => DecisionKept
  BY DEF IInv
<1>2. IInv /\ [Next]_vars => IInv'
  BY NextInv
<1> QED
  BY <1>1, <1>2, InitInv, PTL DEF Spec

(***************************************************************************)
(* While every request has one caller, no step changes a request that is   *)
(* accepted or failed (receive.go:233).                                    *)
(***************************************************************************)
THEOREM DecisionsFinal == ASSUME Exclusive PROVE Spec => TerminalIsFinal
<1> DEFINE Final == \A r \in DOMAIN store : store[r].status \in Terminal
                       => r \in DOMAIN store' /\ store'[r] = store[r]
<1>1. ASSUME IInv, [Next]_vars PROVE Final
  <2>1. CASE \E c \in Caller : Commit(c)
    <3>1. PICK c \in Caller : Commit(c)
      BY <2>1
    <3>2. /\ DOMAIN store' = DOMAIN store \cup {call[c].request}
          /\ \A r \in DOMAIN store : r # call[c].request => store'[r] = store[r]
      BY <1>1, <3>1, CommitShape DEF IInv
    <3>3. call[c].request \in DOMAIN store
             => store[call[c].request].status \notin Terminal
      BY <1>1, <3>1 DEF IInv, DraftsApply, Commit
    <3> QED
      BY <3>2, <3>3
  <2>2. CASE UNCHANGED store
    BY <2>2
  <2> QED
    BY <1>1, <2>1, <2>2 DEF Next, Create, Mark, LoadReceive, Restart, vars
<1>2. IInv /\ [Next]_vars => IInv'
  BY NextInv
<1>3. IInv /\ [Next]_vars => [Final]_vars
  BY <1>1
<1> HIDE DEF Final
<1>4. Spec => [][Final]_vars
  BY <1>2, <1>3, InitInv, PTL DEF Spec
<1> QED
  BY <1>4 DEF TerminalIsFinal, Final

-------------------------------------------------------------------------------
Answered == {"ACKNOWLEDGED", "ACCEPTED", "FAILED"}

Shape == /\ posted = [c \in Caller |-> posted[c]]
         /\ inbox = [c \in Caller |-> inbox[c]]
         /\ replies = [c \in Caller |-> replies[c]]
         /\ taken = [c \in Caller |-> taken[c]]

\* Every version, posted or fetched, carries the object of the batch.
Carried == \A c \in Caller : \A r \in posted[c] \cup inbox[c] : r.object = Sent

\* A decision on record was reported to a caller, and stays in recorded.
Decided ==
    /\ \A r \in DOMAIN store : store[r].status \in Answered =>
           [request |-> r, status |-> store[r].status, object |-> store[r].object] \in recorded
    /\ \A c \in Caller : call[c].op = "create" => call[c].record.status = "PREPARED"

\* An answer about the object of the batch that repeats a decision.
Backed(c, a) ==
    /\ a.object = Sent
    /\ \E d \in recorded :
           /\ d.request = RequestOf(c) /\ d.object = Sent
           /\ d.status \in IF a.accepted THEN {"ACKNOWLEDGED", "ACCEPTED"} ELSE {"FAILED"}

RepliesAgree ==
    \A c \in Caller : \A p \in replies[c] :
        /\ p.record.accepted \in BOOLEAN
        /\ Backed(c, p.record)
        /\ \A q \in replies[c] : p.record.accepted = q.record.accepted

TakenReplied == \A c \in Caller : \A a \in taken[c] : \E p \in replies[c] : p.record = a

Complete == \A o \in broadcast : /\ o = Sent
                                 /\ \A c \in Caller : \E a \in taken[c] : a.accepted

DInv == BasicInv /\ Shape /\ Carried /\ Decided /\ RepliesAgree /\ TakenReplied /\ Complete

-------------------------------------------------------------------------------
LEMMA InitD == DInit => DInv
  BY InitBasic DEF DInit, DInv, Shape, Carried, Decided, RepliesAgree, TakenReplied,
                   Complete, Init, Idle

LEMMA RequestExists ==
  ASSUME NEW c \in Caller PROVE RequestOf(c) \in Request /\ Serves[c] = {RequestOf(c)}
  BY DeliveryAssumption DEF RequestOf

(***************************************************************************)
(* A delivery runs the receive engine of wallet/receive.go unchanged.      *)
(***************************************************************************)
LEMMA StepReceive == ASSUME Carried, DNext PROVE [Next]_vars
<1>1. ASSUME NEW c \in Caller, Invite(c) PROVE Next
  BY <1>1 DEF Invite, Next
<1>2. ASSUME NEW c \in Caller, Decide(c) PROVE Next
  <2>1. PICK op \in Operation \ {"create"}, record \in inbox[c] :
          Mark(c, op, RequestOf(c), record.object)
    BY <1>2 DEF Decide
  <2>2. record.object \in Object
    BY DeliveryAssumption DEF Carried
  <2> QED
    BY <2>1, <2>2, RequestExists DEF Next
<1>3. ASSUME NEW c \in Caller, Conclude(c) PROVE Next
  BY <1>3 DEF Conclude, Next
<1>4. ASSUME NEW c \in Caller, Crash(c) PROVE Next \/ UNCHANGED vars
  BY <1>4 DEF Crash, Next
<1>5. ASSUME NEW c \in Caller, Fetch(c) \/ Reply(c) \/ Post(c) \/ Renew(c) \/ Take(c)
      PROVE  UNCHANGED vars
  BY <1>5 DEF Fetch, Reply, Post, Renew, Take, Publish
<1>6. ASSUME Tick \/ \E o \in Object : Send(o) PROVE UNCHANGED vars
  BY <1>6 DEF Tick, Send
<1> QED
  BY <1>1, <1>2, <1>3, <1>4, <1>5, <1>6 DEF DNext, Recipient

\* The receive engine forgets no reported decision.
LEMMA RecordedGrows == ASSUME [Next]_vars PROVE recorded \subseteq recorded'
  BY DEF Next, Create, Mark, LoadReceive, Commit, Restart, vars

LEMMA DecidedStep == ASSUME BasicInv, Decided, [Next]_vars PROVE Decided'
<1>1. CASE \E c \in Caller, size \in ScriptSize : Create(c, size)
  <2>1. PICK c \in Caller, size \in ScriptSize : Create(c, size)
    BY <1>1
  <2>2. PICK r \in Request :
          call' = [call EXCEPT ![c] =
                      [op |-> "create", request |-> r,
                       record |-> [status |-> "PREPARED", object |-> None, script |-> size]]]
    BY <2>1, ReceiveAssumption DEF Create
  <2> QED
    BY <2>1, <2>2 DEF Create, Decided, BasicInv, TypeOK
<1>2. CASE \E c \in Caller, r \in Request, object \in Object,
               op \in Operation \ {"create"} : Mark(c, op, r, object)
  BY <1>2 DEF Mark, LoadReceive, Decided, BasicInv, TypeOK
<1>3. CASE \E c \in Caller : Commit(c)
  <2>1. PICK c \in Caller : Commit(c)
    BY <1>3
  <2> DEFINE d == call[c]
  <2>2. d \in Draft
    BY <2>1 DEF Commit, BasicInv, TypeOK
  <2>3. d.op # "create" =>
          [request |-> d.request, status |-> d.record.status, object |-> d.record.object]
              \in recorded'
    BY <2>1 DEF Commit
  <2>4. \A r \in DOMAIN store' : store'[r] = IF r = d.request THEN d.record ELSE store[r]
    BY <2>1 DEF Commit
  <2>5. \A r \in DOMAIN store' : r # d.request => r \in DOMAIN store
    BY <2>1 DEF Commit
  <2>6. recorded \subseteq recorded'
    BY RecordedGrows
  <2>7. \A x \in Caller : call'[x] = call[x] \/ call'[x] = Idle
    BY <2>1 DEF Commit, BasicInv, TypeOK
  <2> HIDE DEF d
  <2>8. d.op = "create" => d.record.status = "PREPARED"
    BY DEF Decided, d
  <2>9. ASSUME NEW r \in DOMAIN store', store'[r].status \in Answered
        PROVE  [request |-> r, status |-> store'[r].status, object |-> store'[r].object]
                   \in recorded'
    <3>1. CASE r = d.request
      BY <2>3, <2>4, <2>8, <2>9, <3>1 DEF Answered
    <3>2. CASE r # d.request
      BY <2>4, <2>5, <2>6, <2>9, <3>2 DEF Decided
    <3> QED
      BY <3>1, <3>2
  <2> QED
    BY <2>7, <2>9 DEF Decided, Idle
<1>4. CASE \E C \in SUBSET Caller : Restart(C)
  BY <1>4 DEF Restart, Decided, Idle
<1>5. CASE UNCHANGED vars
  BY <1>5 DEF vars, Decided
<1> QED
  BY <1>1, <1>2, <1>3, <1>4, <1>5 DEF Next

LEMMA BackedStays ==
  ASSUME recorded \subseteq recorded', NEW c \in Caller, NEW a, Backed(c, a)
  PROVE  Backed(c, a)'
  BY DEF Backed, RequestOf

-------------------------------------------------------------------------------
\* Steps of the engine and of the clock touch no message.
LEMMA Quiet ==
  ASSUME DInv, [Next]_vars,
         UNCHANGED <<posted, replies, taken, broadcast>>,
         Shape', \A c \in Caller : inbox'[c] \subseteq inbox[c]
  PROVE  DInv'
<1>1. BasicInv' /\ Decided'
  BY NextBasic, DecidedStep DEF DInv
<1>2. Carried' /\ TakenReplied' /\ Complete'
  BY DEF DInv, Carried, TakenReplied, Complete
<1>3. \A c \in Caller : \A p \in replies[c] : Backed(c, p.record)'
  BY RecordedGrows, BackedStays DEF DInv, RepliesAgree
<1>4. RepliesAgree'
  BY <1>3 DEF DInv, RepliesAgree
<1> QED
  BY <1>1, <1>2, <1>4 DEF DInv

\* What leaves the engine alone keeps what is said about it alone.
LEMMA EngineStays ==
  ASSUME DInv, UNCHANGED vars
  PROVE  /\ BasicInv' /\ Decided'
         /\ \A c \in Caller : \A a : Backed(c, a) => Backed(c, a)'
<1>1. BasicInv' /\ Decided'
  BY NextBasic, DecidedStep DEF DInv
<1>2. recorded \subseteq recorded'
  BY DEF vars
<1> QED
  BY <1>1, <1>2, BackedStays

LEMMA SignedKeeps ==
  ASSUME NEW r, NEW key, NEW f \in DOMAIN r, f # "signature"
  PROVE  RelaySigned(r, key)[f] = r[f] /\ AckSigned(r, key)[f] = r[f]
  BY DEF RelaySigned, AckSigned

LEMMA PublishInv ==
  ASSUME DInv, NEW c \in Caller, NEW record \in Proposal(c), Publish(c, record),
         record.object = Sent
  PROVE  DInv'
<1>1. RelaySigned(record, Sender).object = Sent
  BY SignedKeeps DEF Proposal
<1>2. \A d \in Caller : posted'[d] \subseteq posted[d] \cup {RelaySigned(record, Sender)}
  BY DEF Publish, DInv, Shape
<1>3. Shape'
  BY DEF Publish, DInv, Shape
<1>4. Carried'
  BY <1>1, <1>2 DEF Publish, DInv, Carried
<1>5. RepliesAgree' /\ TakenReplied' /\ Complete'
  BY EngineStays DEF Publish, DInv, RepliesAgree, TakenReplied, Complete
<1> QED
  BY <1>3, <1>4, <1>5, EngineStays DEF Publish, DInv

LEMMA FetchInv == ASSUME DInv, NEW c \in Caller, Fetch(c) PROVE DInv'
<1>1. PICK record \in posted[c] : inbox' = [inbox EXCEPT ![c] = {record}]
  BY DEF Fetch
<1>2. Shape' /\ Carried'
  BY <1>1 DEF Fetch, DInv, Shape, Carried
<1>3. RepliesAgree' /\ TakenReplied' /\ Complete'
  BY EngineStays DEF Fetch, DInv, RepliesAgree, TakenReplied, Complete
<1> QED
  BY <1>2, <1>3, EngineStays DEF Fetch, DInv

LEMMA ReplyInv == ASSUME DInv, NEW c \in Caller, Reply(c) PROVE DInv'
<1> DEFINE request == store[RequestOf(c)]
           verdict == request.status \in {"ACKNOWLEDGED", "ACCEPTED"}
<1>1. PICK relay \in inbox[c] :
        LET ack  == AckFor(c, relay)
            data == MarshalAck(AckSigned(ack, c))
        IN  /\ ack.object = relay.object
            /\ replies[c] = {} \/ \E p \in replies[c] : ValidateImmutable(ack, p.record)
            /\ replies' = [replies EXCEPT ![c] = @ \cup {data}]
  BY DEF Reply
<1> DEFINE ack == AckFor(c, relay)
           data == MarshalAck(AckSigned(ack, c))
<1>2. ack.object = request.object /\ ack.accepted = verdict
  BY DEF AckFor
<1>3. data.record.object = ack.object /\ data.record.accepted = ack.accepted
  <2>1. "object" \in DOMAIN ack /\ "accepted" \in DOMAIN ack
    BY DEF AckFor
  <2>2. AckSigned(ack, c)["object"] = ack["object"] /\ AckSigned(ack, c)["accepted"] = ack["accepted"]
    <3> HIDE DEF ack
    <3> QED
      BY <2>1, SignedKeeps
  <2>3. data.record = AckSigned(ack, c)
    BY DEF MarshalAck
  <2> HIDE DEF ack, data
  <2> QED
    BY <2>2, <2>3
<1>4. ack.object = Sent
  BY <1>1 DEF DInv, Carried
<1>5. [request |-> RequestOf(c), status |-> request.status, object |-> request.object]
         \in recorded
  BY DEF Reply, DInv, Decided, Answered
<1>6. request.status \in Answered
  BY DEF Reply, Answered
<1>7. Backed(c, data.record)
  <2> HIDE DEF data, ack, request
  <2> QED
    BY <1>2, <1>3, <1>4, <1>5, <1>6 DEF Backed, Answered
<1>8. \A p \in replies[c] : p.record.accepted = data.record.accepted
  <2>1. replies[c] = {} \/ \E p \in replies[c] : ValidateImmutable(ack, p.record)
    BY <1>1
  <2>2. ASSUME NEW p \in replies[c], ValidateImmutable(ack, p.record)
        PROVE  ack.accepted = p.record.accepted
    <3> HIDE DEF ack
    <3> QED
      BY <2>2 DEF ValidateImmutable
  <2> HIDE DEF ack, data
  <2> QED
    BY <1>3, <2>1, <2>2 DEF DInv, RepliesAgree
<1>9. data.record.accepted \in BOOLEAN
  <2> HIDE DEF ack, data
  <2> QED
    BY <1>2, <1>3
<1>10. replies' = [replies EXCEPT ![c] = @ \cup {data}]
  BY <1>1
<1> HIDE DEF data, ack, request, verdict
<1>11. \A d \in Caller : replies'[d] = IF d = c THEN replies[c] \cup {data} ELSE replies[d]
  BY <1>10 DEF DInv, Shape
<1>12. UNCHANGED <<vars, now, posted, inbox, taken, broadcast>>
  BY DEF Reply
<1>13. Shape'
  BY <1>10, <1>12 DEF DInv, Shape
<1>14. RepliesAgree'
  <2> SUFFICES ASSUME NEW d \in Caller, NEW p \in replies'[d]
               PROVE  /\ p.record.accepted \in BOOLEAN
                      /\ Backed(d, p.record)'
                      /\ \A q \in replies'[d] : p.record.accepted = q.record.accepted
    BY DEF RepliesAgree
  <2>1. p.record.accepted \in BOOLEAN /\ Backed(d, p.record)
    BY <1>7, <1>9, <1>11 DEF DInv, RepliesAgree
  <2>2. Backed(d, p.record)'
    BY <2>1, <1>12, EngineStays
  <2>3. \A q \in replies'[d] : p.record.accepted = q.record.accepted
    BY <1>8, <1>11 DEF DInv, RepliesAgree
  <2> QED
    BY <2>1, <2>2, <2>3
<1>15. Carried' /\ TakenReplied' /\ Complete'
  BY <1>11, <1>12 DEF DInv, Carried, TakenReplied, Complete
<1> QED
  BY <1>12, <1>13, <1>14, <1>15, EngineStays DEF DInv

LEMMA TakeInv == ASSUME DInv, NEW c \in Caller, Take(c) PROVE DInv'
<1>1. PICK data \in replies[c] : taken' = [taken EXCEPT ![c] = @ \cup {data.record}]
  BY DEF Take
<1>2. UNCHANGED <<vars, now, posted, inbox, replies, broadcast>>
  BY DEF Take
<1>3. \A d \in Caller : taken'[d] = IF d = c THEN taken[c] \cup {data.record} ELSE taken[d]
  BY <1>1 DEF DInv, Shape
<1>4. Shape'
  BY <1>1, <1>2 DEF DInv, Shape
<1>5. Carried' /\ TakenReplied' /\ Complete'
  BY <1>2, <1>3 DEF DInv, Carried, TakenReplied, Complete
<1>6. RepliesAgree'
  BY <1>2, EngineStays DEF DInv, RepliesAgree
<1> QED
  BY <1>2, <1>4, <1>5, <1>6, EngineStays DEF DInv

LEMMA SendInv == ASSUME DInv, NEW o \in Object, Send(o), Caller # {} PROVE DInv'
<1>1. o = Sent
  BY DEF Send, DInv, Carried
<1>2. UNCHANGED <<vars, now, posted, inbox, replies, taken>> /\ broadcast' = {o}
  BY DEF Send
<1>3. Complete'
  BY <1>1, <1>2 DEF Send, Complete
<1>4. Shape' /\ Carried' /\ TakenReplied'
  BY <1>2 DEF DInv, Shape, Carried, TakenReplied
<1>5. RepliesAgree'
  BY <1>2, EngineStays DEF DInv, RepliesAgree
<1> QED
  BY <1>2, <1>3, <1>4, <1>5, EngineStays DEF DInv

LEMMA StepD == ASSUME DInv, [DNext]_dvars, Caller # {} PROVE DInv'
<1>1. ASSUME DNext PROVE [Next]_vars
  BY <1>1, StepReceive DEF DInv
<1>2. ASSUME NEW c \in Caller, Invite(c) \/ Decide(c) \/ Conclude(c) PROVE DInv'
  <2>1. UNCHANGED relayVars /\ DNext
    BY <1>2 DEF Invite, Decide, Conclude, DNext, Recipient
  <2>2. UNCHANGED <<posted, inbox, replies, taken, broadcast>>
    BY <2>1 DEF relayVars
  <2>3. Shape'
    BY <2>2 DEF DInv, Shape
  <2> QED
    BY <1>1, <2>1, <2>2, <2>3, Quiet
<1>3. ASSUME NEW c \in Caller, Crash(c) PROVE DInv'
  <2>1. DNext /\ UNCHANGED <<posted, replies, taken, broadcast>>
    BY <1>3 DEF Crash, DNext, Recipient
  <2>2. inbox' = [inbox EXCEPT ![c] = {}]
    BY <1>3 DEF Crash
  <2>3. Shape' /\ \A d \in Caller : inbox'[d] \subseteq inbox[d]
    BY <2>1, <2>2 DEF DInv, Shape
  <2> QED
    BY <1>1, <2>1, <2>3, Quiet
<1>4. ASSUME NEW c \in Caller, Post(c) PROVE DInv'
  BY <1>4, PublishInv DEF Post
<1>5. ASSUME NEW c \in Caller, Renew(c) PROVE DInv'
  <2>1. PICK record \in Proposal(c), previous \in posted[c] :
          ValidateRenewal(record, previous) /\ Publish(c, record)
    BY <1>5 DEF Renew
  <2>2. record.object = Sent
    BY <2>1 DEF ValidateRenewal, DInv, Carried
  <2> QED
    BY <2>1, <2>2, PublishInv
<1>6. ASSUME Tick PROVE DInv'
  <2>1. UNCHANGED <<vars, posted, inbox, replies, taken, broadcast>>
    BY <1>6 DEF Tick
  <2>2. Shape'
    BY <2>1 DEF DInv, Shape
  <2> QED
    BY <2>1, <2>2, Quiet
<1>7. ASSUME UNCHANGED dvars PROVE DInv'
  <2>1. UNCHANGED <<vars, posted, inbox, replies, taken, broadcast>>
    BY <1>7 DEF dvars, relayVars
  <2>2. Shape'
    BY <2>1 DEF DInv, Shape
  <2> QED
    BY <2>1, <2>2, Quiet
<1> QED
  BY <1>2, <1>3, <1>4, <1>5, <1>6, <1>7, FetchInv, ReplyInv, TakeInv, SendInv
     DEF DNext, Recipient

-------------------------------------------------------------------------------
(***************************************************************************)
(* The receive engine keeps every promise it makes on its own              *)
(* (wallet/receive.go) when it is driven by relay records.                 *)
(***************************************************************************)
THEOREM RunsTheEngine == ASSUME Caller # {} PROVE DSpec => Spec
<1>1. DInit => Init /\ DInv
  BY InitD DEF DInit
<1>2. DInv /\ [DNext]_dvars => [Next]_vars
  BY StepReceive DEF DInv, dvars
<1>3. DInv /\ [DNext]_dvars => DInv'
  BY StepD
<1> QED
  BY <1>1, <1>2, <1>3, PTL DEF DSpec, Spec

(***************************************************************************)
(* Through any renewals, crashes and delays, the answers that a sender     *)
(* verified agree and repeat a committed decision (records.go:371).        *)
(***************************************************************************)
THEOREM AnswersNeverDisagree == ASSUME Caller # {} PROVE DSpec => []AnswersStand
<1>1. DInit => DInv
  BY InitD
<1>2. DInv /\ [DNext]_dvars => DInv'
  BY StepD
<1>3. DInv => AnswersStand
  BY DEF DInv, RepliesAgree, TakenReplied, AnswersStand, Backed
<1> QED
  BY <1>1, <1>2, <1>3, PTL DEF DSpec

(***************************************************************************)
(* Whatever is broadcast was acknowledged by every recipient, as the same  *)
(* object (OFFICIAL_INTEROP.md:184, records.go:290).                       *)
(***************************************************************************)
THEOREM NothingBroadcastUnacknowledged ==
  ASSUME Caller # {} PROVE DSpec => []BroadcastIsAcknowledged
<1>1. DInit => DInv
  BY InitD
<1>2. DInv /\ [DNext]_dvars => DInv'
  BY StepD
<1>3. DInv => BroadcastIsAcknowledged
  <2> SUFFICES ASSUME DInv, NEW o \in broadcast, NEW c \in Caller
               PROVE  \E d \in recorded : /\ d.request = RequestOf(c) /\ d.object = o
                                          /\ d.status \in {"ACKNOWLEDGED", "ACCEPTED"}
    BY DEF BroadcastIsAcknowledged
  <2>1. o = Sent
    BY DEF DInv, Complete
  <2>2. PICK a \in taken[c] : a.accepted
    BY DEF DInv, Complete
  <2>3. Backed(c, a)
    BY DEF DInv, RepliesAgree, TakenReplied
  <2> QED
    BY <2>1, <2>2, <2>3 DEF Backed
<1> QED
  BY <1>1, <1>2, <1>3, PTL DEF DSpec
===============================================================================
