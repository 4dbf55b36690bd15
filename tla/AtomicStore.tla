------------------------------ MODULE AtomicStore ------------------------------
(***************************************************************************)
(* What a transactional store promises (storage/store.go:7): the writes of *)
(* a transaction take effect together, when it is committed and once, and  *)
(* a read sees what was committed before it.                               *)
(***************************************************************************)
CONSTANTS Client, Key, Value

VARIABLES data,      \* key -> {value}, or {} if there is none
          pending,   \* client -> the writes of its open transactions, at most one
          got        \* client -> what its last read returned

vars == <<data, pending, got>>

Entry == {{}} \cup {{v} : v \in Value}

Init == /\ data = [k \in Key |-> {}]
        /\ pending = [c \in Client |-> {}]
        /\ got = [c \in Client |-> {}]

Change(c, p) == pending' = [pending EXCEPT ![c] = p] /\ UNCHANGED <<data, got>>

Begin(c) == pending[c] = {} /\ Change(c, {[k \in {} |-> {}]})

Write(c, k, e) ==
    \E w \in pending[c] :
        Change(c, {[x \in DOMAIN w \cup {k} |-> IF x = k THEN e ELSE w[x]]})

Rollback(c) == Change(c, {})

Commit(c) ==
    \E w \in pending[c] :
        /\ data' = [k \in Key |-> IF k \in DOMAIN w THEN w[k] ELSE data[k]]
        /\ pending' = [pending EXCEPT ![c] = {}]
        /\ UNCHANGED got

Read(c, k) == got' = [got EXCEPT ![c] = data[k]] /\ UNCHANGED <<data, pending>>

Next == \E c \in Client : \/ Begin(c) \/ Rollback(c) \/ Commit(c)
                          \/ \E k \in Key : Read(c, k) \/ \E e \in Entry : Write(c, k, e)

Spec == Init /\ [][Next]_vars
================================================================================
