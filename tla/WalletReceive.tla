----------------------------- MODULE WalletReceive -----------------------------
(***************************************************************************)
(* The receive requests of a wallet (wallet/receive.go) in a transactional *)
(* store (storage/).  Callers run concurrently on one Engine.  Every       *)
(* operation that changes a request loads it, checks its status, and       *)
(* writes it back in a transaction of its own: other callers run between   *)
(* the load and the commit, and the host may stop there.                   *)
(***************************************************************************)
EXTENDS Naturals

CONSTANTS Caller,
          Request,      \* request ids that randomID may draw
          Serves,       \* caller -> the requests it is told about
          Object,       \* transfers, by transfer id and object hash
          None,         \* no object yet
          ScriptSize,   \* sizes of the witness scripts that callers pass
          BlobMax,      \* receiveStoreMaxBlob
          Overhead      \* status, object -> the most such a record takes around its script

\* Nothing in the repository writes RELAYED or SETTLED.
Status == {"PREPARED", "RELAYED", "ACKNOWLEDGED", "ACCEPTED", "SETTLED", "FAILED"}

ASSUME ReceiveAssumption == /\ Serves \in [Caller -> SUBSET Request]
                            /\ None \notin Object
                            /\ ScriptSize \subseteq Nat /\ BlobMax \in Nat
                            /\ Overhead \in [Status \X (Object \cup {None}) -> Nat \ {0}]

VARIABLES
    store,     \* request id -> record, for the requests that were committed
    shown,     \* requests whose invoice was returned to a caller
    call,      \* caller -> the operation it is about to commit, or Idle
    recorded   \* (history variable) decisions that callers saw succeed

vars == <<store, shown, call, recorded>>

Record == [status : Status, object : Object \cup {None}, script : ScriptSize]
Operation == {"create", "acknowledge", "accept", "reject"}

Idle == [op |-> "idle"]
Draft == [op : Operation, request : Request, record : Record]
Terminal == {"ACCEPTED", "FAILED"}

TypeOK ==
    /\ DOMAIN store \subseteq Request
    /\ \A r \in DOMAIN store : store[r] \in Record
    /\ shown \subseteq Request
    /\ call \in [Caller -> Draft \cup {Idle}]
    /\ recorded \subseteq [request : Request, status : Status, object : Object]

Init == /\ store = <<>> /\ shown = {} /\ recorded = {}
        /\ call = [c \in Caller |-> Idle]

-------------------------------------------------------------------------------
\* EncodeReceiveRequest and DecodeReceiveRequest limit different things: the
\* script, and the whole record, which grows when a transfer is named in it.
Encodable(record) == record.script <= BlobMax
Decodable(record) == record.script + Overhead[record.status, record.object] <= BlobMax

\* Mutant of AllowedFrom: a decision does not stop the next one.
AllowedFromAny(op) == Status

\* The status a request must have for an operation, and the one it gets.
AllowedFrom(op) == IF op = "acknowledge"
                   THEN {"PREPARED", "RELAYED"}
                   ELSE {"PREPARED", "RELAYED", "ACKNOWLEDGED"}

\* Mutant of StatusAfter: a status that decoding does not know.
StatusAfterForeign(op) == CASE op = "acknowledge" -> "ACKNOWLEDGED"
                            [] op = "accept"      -> "ACCEPTED"
                            [] op = "reject"      -> "REJECTED"

StatusAfter(op) == CASE op = "acknowledge" -> "ACKNOWLEDGED"
                     [] op = "accept"      -> "ACCEPTED"
                     [] op = "reject"      -> "FAILED"

Drafted == {call[c].request : c \in {x \in Caller : call[x] # Idle}}

\* CreateReceive up to putReceive: a fresh random id, seal and invoice.
Create(c, size) ==
    /\ call[c] = Idle
    /\ \E r \in Serves[c] \ (DOMAIN store \cup Drafted) :
           LET record == [status |-> "PREPARED", object |-> None, script |-> size]
           IN  /\ Encodable(record)
               /\ call' = [call EXCEPT ![c] =
                              [op |-> "create", request |-> r, record |-> record]]
    /\ UNCHANGED <<store, shown, recorded>>

\* What LoadReceive finds and can read.
LoadReceive(r) == r \in DOMAIN store /\ Decodable(store[r])

\* MarkRelayAcknowledged, MarkRelayAccepted and MarkRelayRejected up to
\* putReceive.  What they refuse leaves the store as it was, and what was
\* decoded encodes again.
Mark(c, op, r, object) ==
    /\ call[c] = Idle
    /\ r \in Serves[c]
    /\ LoadReceive(r)
    /\ store[r].status \in AllowedFrom(op)
    /\ call' = [call EXCEPT ![c] =
                   [op |-> op, request |-> r,
                    record |-> [store[r] EXCEPT !.status = StatusAfter(op),
                                                !.object = object]]]
    /\ UNCHANGED <<store, shown, recorded>>

\* Mutant of Returned: the invoice is handed out before the commit.
ReturnedEarly(c) == {call[x].request : x \in {y \in Caller : call[y] # Idle}}

\* The invoice that a commit lets its caller show.
Returned(c) == {call[c].request : x \in {y \in {c} : call[c].op = "create"}}

\* putReceive: the record is written and the operation returns.
Commit(c) ==
    /\ call[c] # Idle
    /\ store' = [r \in DOMAIN store \cup {call[c].request} |->
                    IF r = call[c].request THEN call[c].record ELSE store[r]]
    /\ shown' = shown \cup Returned(c)
    /\ recorded' = recorded \cup
           {[request |-> d.request, status |-> d.record.status, object |-> d.record.object] :
                d \in {x \in {call[c]} : x.op # "create"}}
    /\ call' = [call EXCEPT ![c] = Idle]

\* A host stops: what its callers had not committed is gone, callers included.
Restart(C) == /\ \E c \in C : call[c] # Idle
              /\ call' = [c \in Caller |-> IF c \in C THEN Idle ELSE call[c]]
              /\ UNCHANGED <<store, shown, recorded>>

Next == \/ \E c \in Caller, size \in ScriptSize : Create(c, size)
        \/ \E c \in Caller, r \in Request, object \in Object,
              op \in Operation \ {"create"} : Mark(c, op, r, object)
        \/ \E c \in Caller : Commit(c)
        \/ \E C \in SUBSET Caller : Restart(C)

Spec == Init /\ [][Next]_vars

-------------------------------------------------------------------------------
(***************************************************************************)
(* The seal behind an invoice that was returned can be recovered, through  *)
(* any crash (receive.go:46-48).                                           *)
(***************************************************************************)
ShownIsRecoverable == \A r \in shown : r \in DOMAIN store /\ Decodable(store[r])

(***************************************************************************)
(* A decision that a caller saw succeed is the decision on record: no      *)
(* accepted request turns into a failed one or names another object, and   *)
(* no two callers see opposite decisions succeed.                          *)
(***************************************************************************)
DecisionKept ==
    \A d \in recorded : d.status \in Terminal =>
        /\ store[d.request].status = d.status
        /\ store[d.request].object = d.object

(***************************************************************************)
(* A receiver decision is terminal (receive.go:233): no step changes a     *)
(* request that is accepted or failed.                                     *)
(***************************************************************************)
TerminalIsFinal ==
    [][\A r \in DOMAIN store :
           store[r].status \in Terminal => r \in DOMAIN store' /\ store'[r] = store[r]]_vars
================================================================================
