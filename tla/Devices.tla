-------------------------------- MODULE Devices --------------------------------
(***************************************************************************)
(* Sessions of one wallet that advance its head in a shared store, publish *)
(* it, and a restoring device that selects among the heads it is served    *)
(* (storage/memory.go, sync/head.go).  Sessions read and write the store   *)
(* without a transaction around both, so that two of them may build on the *)
(* same head.  Which heads a restoring device is served, in what order and *)
(* how often, is up to the DKVS service.                                   *)
(***************************************************************************)
EXTENDS MemoryStore, WalletHeads

CONSTANTS Mine,        \* the wallet of these sessions
          Builds,      \* session -> the states it arrives at
          Stray,       \* other wallets' and ill-formed heads that may be served as well
          MaxServed    \* bound on the heads served to one selection

ASSUME DeviceAssumption == /\ Key = {"head", "snapshot"}
                           /\ Value = Head
                           /\ Stray \subseteq Head

VARIABLES
    published,   \* heads in the DKVS
    search       \* the running or last selection

deviceVars == <<published, search>>

Idle == [from |-> {}, seen |-> {}, served |-> 0, latest |-> {}, verdict |-> "none"]

DevicesInit == StoreInit /\ published = {} /\ search = Idle

\* A session builds a head on the one it read.
Advance(c, h) ==
    /\ h.state \in Builds[c]
    /\ Validate(h, Mine)
    /\ ValidateSuccessor(h, got[c])
    /\ Put(c, "head", h)
    /\ UNCHANGED deviceVars

\* The snapshot of that head belongs into the same transaction.
Snapshot(c, h) == /\ \E w \in tx[c] : "head" \in DOMAIN w /\ w["head"] = {h}
                  /\ Put(c, "snapshot", h)
                  /\ UNCHANGED deviceVars

\* A session may drop a snapshot, in the same way.
Forget(c) == Delete(c, "snapshot") /\ UNCHANGED deviceVars

\* The outer record of the head on file is signed and sent.
Publish == /\ MayRead /\ ~(data["head"] \subseteq published)
           /\ published' = published \cup data["head"]
           /\ UNCHANGED <<storeVars, search>>

StartSelection ==
    /\ search = Idle
    /\ search' = [Idle EXCEPT !.from = published \cup Stray, !.verdict = "continue"]
    /\ UNCHANGED <<storeVars, published>>

Consider(h) ==
    /\ search.verdict = "continue" /\ h \in search.from
    /\ search.served < MaxServed
    /\ LET verdict == Judged(search.latest, h, Mine)
       IN  search' = [search EXCEPT
                         !.seen = @ \cup {h}, !.served = @ + 1, !.verdict = verdict,
                         !.latest = IF verdict = "continue" THEN Later(@, h) ELSE {}]
    /\ UNCHANGED <<storeVars, published>>

Selected == /\ search.verdict = "continue"
            /\ search' = [search EXCEPT !.verdict = "selected"]
            /\ UNCHANGED <<storeVars, published>>

Return == /\ search.verdict \in {"selected", "conflict", "invalid"}
          /\ search' = Idle
          /\ UNCHANGED <<storeVars, published>>

Session(c) == \/ (Begin(c) \/ Rollback(c) \/ CommitStep(c)) /\ UNCHANGED deviceVars
              \/ Get(c, "head") /\ UNCHANGED deviceVars
              \/ Forget(c)
              \/ \E h \in Head : Advance(c, h) \/ Snapshot(c, h)

DevicesNext == \/ \E c \in Client : Session(c)
               \/ Publish \/ StartSelection \/ Selected \/ Return
               \/ \E h \in Head : Consider(h)

devicesVars == <<storeVars, deviceVars>>

DevicesSpec == DevicesInit /\ [][DevicesNext]_devicesVars

-------------------------------------------------------------------------------
(***************************************************************************)
(* SelectLatest selects the unique highest sequence (head.go:96), in       *)
(* whatever order candidates come and whichever sessions forked: what it   *)
(* returns stands alone at its sequence number, no candidate was built on  *)
(* it, and a conflict is reported only where there is one.                 *)
(***************************************************************************)
SelectedIsLatest ==
    /\ search.verdict = "selected" =>
           \A h \in search.seen : \E l \in search.latest :
               h = l \/ (h.seq < l.seq /\ ~ValidateSuccessor(h, {l}))
    /\ search.verdict = "conflict" =>
           \E h, l \in search.seen : h # l /\ h.seq = l.seq
================================================================================
