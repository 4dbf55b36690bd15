------------------------------ MODULE WalletHeads ------------------------------
(***************************************************************************)
(* The heads by which the devices of a wallet agree on its latest state    *)
(* (sync/head.go).  A sequence number is a machine word, a digest is the   *)
(* data it was taken of, and a head is valid or not.                       *)
(***************************************************************************)
EXTENDS Naturals

CONSTANTS Wallet,     \* wallet ids
          StateId,    \* state hashes and operation ids, with their zero
          Zero,       \* the zero of these
          MaxSeq      \* the largest sequence number a word holds

ASSUME HeadAssumption == MaxSeq \in Nat \ {0}

\* wellFormed: this version, and a wallet id of 1 to 128 bytes
Head == [wellFormed : BOOLEAN, wallet : Wallet, seq : 0 .. MaxSeq, state : StateId]

\* Mutant of Validate: sequence numbers may be zero.
ValidateAnySeq(h, wallet) == h.wellFormed /\ h.state # Zero /\ h.wallet = wallet

Validate(h, wallet) == /\ h.wellFormed
                       /\ h.seq # 0
                       /\ h.state # Zero
                       /\ h.wallet = wallet

Hash(h) == [digest |-> h]

\* previous is the set of the one previous head, or empty for none.
ValidateSuccessor(h, previous) ==
    /\ previous = {} => h.seq = 1
    /\ \A p \in previous : h.wallet = p.wallet /\ h.seq = (p.seq + 1) % (MaxSeq + 1)

(***************************************************************************)
(* SelectLatest, one candidate: the verdict after it, or "continue".       *)
(***************************************************************************)
Judged(latest, h, wallet) ==
    IF ~Validate(h, wallet) THEN "invalid"
    ELSE IF \E l \in latest : l.seq = h.seq /\ Hash(l) # Hash(h) THEN "conflict"
    ELSE "continue"

Later(latest, h) == IF \A l \in latest : h.seq > l.seq THEN {h} ELSE latest
================================================================================
