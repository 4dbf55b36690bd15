----------------------------- MODULE RelayRecords -----------------------------
(***************************************************************************)
(* The signed records of relay/records.go: a relay record that a sender    *)
(* publishes for a consignment and renews, and the acknowledgement that a  *)
(* recipient publishes for it.  A text, key or hash is a value, Blank if   *)
(* it is empty; a signature is the set of what was signed by whom, empty   *)
(* as long as it is missing; a digest is the data it was taken of.         *)
(***************************************************************************)
EXTENDS Integers

CONSTANTS Blank,        \* an empty string or byte slice
          TemporaryKey  \* DKVS keys of the form /tmp/<64 hex digits>

(***************************************************************************)
(* validateFields: what every operation on a relay record insists on.      *)
(***************************************************************************)
RelayFields(r) ==
    /\ Blank \notin {r.transfer, r.recipient, r.sender}
    /\ r.size > 0
    /\ r.expiry > 0
    /\ r.source # Blank \/ r.blob # Blank
    /\ r.ackKey \in TemporaryKey

AckFields(a) ==
    /\ Blank \notin {a.transfer, a.recipient, a.key}
    /\ a.accepted \/ a.reason # Blank

\* SigningBytes: the whole record except its signature.
SigningBytes(r) == [r EXCEPT !.signature = {}]

\* Sign: the owner of a key puts its signature into a record.
SignatureBy(r, key) == {[by |-> key, over |-> SigningBytes(r)]}
RelaySigned(r, key) == [r EXCEPT !.signature = SignatureBy(r, key)]
AckSigned(a, key) == [a EXCEPT !.signature = SignatureBy(a, key)]

RelayVerify(r, expected, now) ==
    /\ RelayFields(r)
    /\ r.sender = expected
    /\ now < r.expiry
    /\ r.signature = SignatureBy(r, r.sender)

AckVerify(a, expected) ==
    /\ AckFields(a)
    /\ a.key = expected
    /\ a.signature = SignatureBy(a, a.key)

\* Hash: the digest covers the signature.
Hash(r) == [digest |-> r]

(***************************************************************************)
(* MarshalBinary and UnmarshalRelayRecord, UnmarshalAckRecord: a payload   *)
(* starts with the magic of its kind, and only complete, signed records    *)
(* are written or read.                                                    *)
(***************************************************************************)
MarshalRelay(r) == [magic |-> "R11R", record |-> r]
MarshalAck(a) == [magic |-> "R11A", record |-> a]

RelayReadable(data) == /\ data.magic = "R11R"
                       /\ data.record.signature # {}
                       /\ RelayFields(data.record)

AckReadable(data) == /\ data.magic = "R11A"
                     /\ data.record.signature # {}
                     /\ AckFields(data.record)

\* Mutant of ValidateRenewal: a renewal may carry another object.
RenewalOfAnything(r, previous) ==
    /\ r.transfer = previous.transfer /\ r.recipient = previous.recipient
    /\ r.ackKey = previous.ackKey /\ r.sender = previous.sender
    /\ r.expiry > previous.expiry

\* Mutant of ValidateRenewal: the comparison of the expiries is turned round.
RenewalShortens(r, previous) ==
    /\ r.transfer = previous.transfer /\ r.recipient = previous.recipient
    /\ r.object = previous.object /\ r.size = previous.size
    /\ r.ackKey = previous.ackKey /\ r.sender = previous.sender
    /\ r.expiry <= previous.expiry

\* A new version may move the object, name a witness and last longer.
ValidateRenewal(r, previous) ==
    /\ r.transfer = previous.transfer /\ r.recipient = previous.recipient
    /\ r.object = previous.object /\ r.size = previous.size
    /\ r.ackKey = previous.ackKey /\ r.sender = previous.sender
    /\ r.expiry > previous.expiry

\* Mutant of ValidateImmutable: an answer may be turned into the opposite.
ImmutableButVerdict(a, previous) ==
    \A f \in {"transfer", "recipient", "relayHash", "object", "key"} :
        a[f] = previous[f]

\* An acknowledgement may only be signed again.
ValidateImmutable(a, previous) ==
    \A f \in {"transfer", "recipient", "relayHash", "object", "accepted", "reason", "key"} :
        a[f] = previous[f]
===============================================================================
