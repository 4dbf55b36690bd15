------------------------------- MODULE Delivery -------------------------------
(***************************************************************************)
(* How a consignment reaches the wallets it pays: the sender publishes a   *)
(* signed relay record for every recipient, recipients decide with the     *)
(* engine of wallet/receive.go and publish signed acknowledgements, and    *)
(* the sender broadcasts when everybody has acknowledged.  The repository  *)
(* holds the records (relay/records.go) and the engine; the hosts that     *)
(* call them and the DKVS service between them are not part of it, and     *)
(* are modelled from what the two packages ask of them.  The service may   *)
(* answer late, not at all, or with an earlier version; recipients may     *)
(* stop at any time.                                                       *)
(***************************************************************************)
EXTENDS WalletReceive, RelayRecords

CONSTANTS Sender,      \* the key of the sender
          Sent,        \* the object of the batch, one for all recipients
          AckKey,      \* recipient (a caller) -> the DKVS key of its answer
          Diligent,    \* recipients whose host keeps polling and answering
          Blob,        \* DKVS backups a record may name, Blank for none
          MaxTime      \* the last tick of the clock

ASSUME DeliveryAssumption ==
    /\ MaxTime \in Nat /\ Sent \in Object
    /\ Sender # Blank /\ Sender \notin Caller
    /\ Diligent \subseteq Caller
    /\ Blank \notin Caller \cup Request
    /\ AckKey \in [Caller -> TemporaryKey]
    /\ \A c \in Caller : \E r \in Request : Serves[c] = {r}

VARIABLES
    now,        \* the clock of every host
    posted,     \* recipient -> the versions of its relay record
    inbox,      \* recipient -> the version it verified last, if any
    replies,    \* recipient -> payloads it published under its answer key
    taken,      \* recipient -> answers the sender has verified
    broadcast   \* objects whose transaction the sender broadcast

relayVars == <<now, posted, inbox, replies, taken, broadcast>>

\* The request of a recipient; its id also names the transfer.
RequestOf(c) == CHOOSE r \in Request : Serves[c] = {r}

DInit == /\ Init
         /\ now = 0 /\ broadcast = {}
         /\ posted = [c \in Caller |-> {}]
         /\ inbox = [c \in Caller |-> {}]
         /\ replies = [c \in Caller |-> {}]
         /\ taken = [c \in Caller |-> {}]

-------------------------------------------------------------------------------
\* Relay records a host may try to sign for a recipient.
Proposal(c) ==
    {[transfer |-> RequestOf(c), recipient |-> c, object |-> o, size |-> 1,
      source |-> "peer", blob |-> b, witness |-> Blank, ackKey |-> AckKey[c],
      expiry |-> e, sender |-> Sender, signature |-> {}] :
        o \in Object, b \in Blob, e \in (now + 1) .. (MaxTime + 1)}

Publish(c, record) ==
    /\ RelayFields(record)
    /\ RelaySigned(record, Sender) \notin posted[c]
    /\ posted' = [posted EXCEPT ![c] = @ \cup {RelaySigned(record, Sender)}]
    /\ UNCHANGED <<vars, now, inbox, replies, taken, broadcast>>

Post(c) ==
    /\ posted[c] = {}
    /\ RequestOf(c) \in shown
    /\ \E record \in Proposal(c) : record.object = Sent /\ Publish(c, record)

\* The sender renews a version it has kept.
Renew(c) ==
    \E record \in Proposal(c), previous \in posted[c] :
        ValidateRenewal(record, previous) /\ Publish(c, record)

\* The service hands a recipient some version of its relay record.
Fetch(c) ==
    /\ \E record \in posted[c] :
           /\ RelayReadable(MarshalRelay(record))
           /\ RelayVerify(record, Sender, now)
           /\ inbox[c] # {record}
           /\ inbox' = [inbox EXCEPT ![c] = {record}]
    /\ UNCHANGED <<vars, now, posted, replies, taken, broadcast>>

\* The host decides about the object it was sent.
Decide(c) ==
    /\ \E op \in Operation \ {"create"}, record \in inbox[c] :
           Mark(c, op, RequestOf(c), record.object)
    /\ UNCHANGED relayVars

\* The answer to a version of the relay record, from the request on record.
AckFor(c, relay) ==
    LET request  == store[RequestOf(c)]
        accepted == request.status \in {"ACKNOWLEDGED", "ACCEPTED"}
    IN  [transfer |-> RequestOf(c), recipient |-> c, relayHash |-> Hash(relay),
         object |-> request.object, accepted |-> accepted,
         reason |-> IF accepted THEN Blank ELSE "rejected", key |-> c, signature |-> {}]

\* A recipient publishes its decision, once it is on record.
Reply(c) ==
    /\ RequestOf(c) \in DOMAIN store
    /\ store[RequestOf(c)].status \in {"ACKNOWLEDGED", "ACCEPTED", "FAILED"}
    /\ \E relay \in inbox[c] :
           LET ack  == AckFor(c, relay)
               data == MarshalAck(AckSigned(ack, c))
           IN  /\ AckFields(ack)
               /\ ack.object = relay.object
               /\ replies[c] = {} \/ \E p \in replies[c] : ValidateImmutable(ack, p.record)
               /\ data \notin replies[c]
               /\ replies' = [replies EXCEPT ![c] = @ \cup {data}]
    /\ UNCHANGED <<vars, now, posted, inbox, taken, broadcast>>

\* The service hands the sender an answer to a version it published.
Take(c) ==
    /\ \E data \in replies[c] :
           /\ AckReadable(data)
           /\ AckVerify(data.record, c)
           /\ \E version \in posted[c] : data.record.relayHash = Hash(version)
           /\ data.record \notin taken[c]
           /\ taken' = [taken EXCEPT ![c] = @ \cup {data.record}]
    /\ UNCHANGED <<vars, now, posted, inbox, replies, broadcast>>

\* The transaction of an object goes out when no answer is missing.
Send(o) ==
    /\ broadcast = {}
    /\ \A c \in Caller : /\ \E version \in posted[c] : version.object = o
                         /\ \E a \in taken[c] : a.accepted
    /\ broadcast' = {o}
    /\ UNCHANGED <<vars, now, posted, inbox, replies, taken>>

Tick == /\ now < MaxTime
        /\ now' = now + 1
        /\ UNCHANGED <<vars, posted, inbox, replies, taken, broadcast>>

\* A recipient's host stops: the verified record and the call are lost.
Crash(c) ==
    /\ call[c] # Idle \/ inbox[c] # {}
    /\ Restart({c}) \/ (call[c] = Idle /\ UNCHANGED vars)
    /\ inbox' = [inbox EXCEPT ![c] = {}]
    /\ UNCHANGED <<now, posted, replies, taken, broadcast>>

Invite(c) == /\ \E size \in ScriptSize : Create(c, size)
             /\ UNCHANGED relayVars

Conclude(c) == Commit(c) /\ UNCHANGED relayVars

Recipient(c) == \/ Invite(c) \/ Fetch(c) \/ Decide(c) \/ Conclude(c)
                \/ Reply(c) \/ Crash(c)

DNext == \/ \E c \in Caller : Recipient(c) \/ Post(c) \/ Renew(c) \/ Take(c)
         \/ \E o \in Object : Send(o)
         \/ Tick

dvars == <<vars, relayVars>>

DSpec == DInit /\ [][DNext]_dvars

(***************************************************************************)
(* Hosts that keep going: the sender renews what has expired, recipients   *)
(* poll, decide and answer again after every crash, the sender polls.      *)
(* Steps that a crash can undo need strong fairness.                       *)
(***************************************************************************)
Expired(c) == \A version \in posted[c] : now >= version.expiry

Undecided(c) == RequestOf(c) \in DOMAIN store /\ store[RequestOf(c)].status = "PREPARED"

Fairness ==
    /\ \A c \in Diligent :
           /\ WF_dvars(Expired(c) /\ Renew(c))
           /\ SF_dvars(Fetch(c))
           /\ SF_dvars(Undecided(c) /\ Decide(c))
           /\ SF_dvars(Conclude(c))
           /\ SF_dvars(Reply(c))
           /\ WF_dvars(Take(c))

FairSpec == DSpec /\ Fairness

-------------------------------------------------------------------------------
(***************************************************************************)
(* What the sender holds for an answer is one: whatever a recipient        *)
(* decides later, after renewals and crashes, no two verified answers      *)
(* disagree, and each repeats a decision of the recipient's wallet that    *)
(* was committed (records.go:371, receive.go:233).                         *)
(***************************************************************************)
AnswersStand ==
    \A c \in Caller : \A a \in taken[c] :
        /\ \A b \in taken[c] : a.accepted = b.accepted /\ a.object = b.object
        /\ \E d \in recorded :
               /\ d.request = RequestOf(c) /\ d.object = a.object
               /\ a.accepted <=> d.status # "FAILED"

(***************************************************************************)
(* Missing one acknowledgement, nothing is broadcast                       *)
(* (OFFICIAL_INTEROP.md:184): every recipient of a broadcast object had    *)
(* acknowledged that very object, although the sender may renew the relay  *)
(* record at any time (records.go:290).                                    *)
(***************************************************************************)
BroadcastIsAcknowledged ==
    \A o \in broadcast, c \in Caller :
        \E d \in recorded : /\ d.request = RequestOf(c) /\ d.object = o
                            /\ d.status \in {"ACKNOWLEDGED", "ACCEPTED"}

(***************************************************************************)
(* No order of expiry, renewal, crash and answer leads to a dead end: a    *)
(* recipient that was sent a relay record is heard in the end              *)
(* (records.go:290, 371).                                                  *)
(***************************************************************************)
Heard == \A c \in Diligent : posted[c] # {} ~> taken[c] # {}
===============================================================================
