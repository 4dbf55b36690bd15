------------------------------ MODULE MemoryStore ------------------------------
(***************************************************************************)
(* The transactional store of storage/memory.go.  A transaction collects   *)
(* its writes, and Commit applies them one by one, in the order in which   *)
(* Go happens to walk a map, under the write lock; Get takes the read      *)
(* lock, so that it waits for a commit that is under way.                  *)
(***************************************************************************)
CONSTANTS Client,   \* goroutines, each with one transaction at a time
          Key,
          Value

VARIABLES
    data,       \* key -> {value}, or {} if the map has no such key
    tx,         \* client -> {the writes of its transaction}, {} once done
    lock,       \* the client that holds the write lock, if any
    left,       \* the writes that this client has not applied yet
    got         \* client -> what its last Get returned

storeVars == <<data, tx, lock, left, got>>

Entry == {{}} \cup {{v} : v \in Value}

StoreInit == /\ data = [k \in Key |-> {}]
             /\ tx = [c \in Client |-> {}]
             /\ lock = {} /\ left = {}
             /\ got = [c \in Client |-> {}]

Begin(c) == /\ tx[c] = {}
            /\ tx' = [tx EXCEPT ![c] = {[k \in {} |-> {}]}]
            /\ UNCHANGED <<data, lock, left, got>>

\* The writes w with one more for key k; the last write to a key counts.
With(w, k, e) == [x \in DOMAIN w \cup {k} |-> IF x = k THEN e ELSE w[x]]

Write(c, k, e) ==
    /\ c \notin lock
    /\ \E w \in tx[c] : tx' = [tx EXCEPT ![c] = {With(w, k, e)}]
    /\ UNCHANGED <<data, lock, left, got>>

Put(c, k, v) == Write(c, k, {v})

Delete(c, k) == Write(c, k, {})

\* Mutant of MayRead: Get takes no lock.
MayReadAlways == TRUE

\* sync.RWMutex: a writer alone, or readers.
MayRead == lock = {}

\* Commit, in steps: the lock, every write, and the end.
Lock(c) == /\ lock = {}
           /\ \E w \in tx[c] : left' = DOMAIN w
           /\ lock' = {c}
           /\ UNCHANGED <<data, tx, got>>

Apply(c, k) == /\ c \in lock /\ k \in left
               /\ \E w \in tx[c] : data' = [data EXCEPT ![k] = w[k]]
               /\ left' = left \ {k}
               /\ UNCHANGED <<tx, lock, got>>

Unlock(c) == /\ c \in lock /\ left = {}
             /\ tx' = [tx EXCEPT ![c] = {}]
             /\ lock' = {}
             /\ UNCHANGED <<data, left, got>>

Rollback(c) == /\ tx[c] # {} /\ c \notin lock
               /\ tx' = [tx EXCEPT ![c] = {}]
               /\ UNCHANGED <<data, lock, left, got>>

Get(c, k) == /\ MayRead /\ got[c] # data[k]
             /\ got' = [got EXCEPT ![c] = data[k]]
             /\ UNCHANGED <<data, tx, lock, left>>

CommitStep(c) == Lock(c) \/ Unlock(c) \/ \E k \in Key : Apply(c, k)

StoreNext ==
    \E c \in Client :
        \/ Begin(c) \/ Rollback(c) \/ CommitStep(c)
        \/ \E k \in Key : Get(c, k) \/ Delete(c, k) \/ \E v \in Value : Put(c, k, v)

StoreSpec == StoreInit /\ [][StoreNext]_storeVars

-------------------------------------------------------------------------------
(***************************************************************************)
(* The store keeps the contract of store.go, although it writes key by     *)
(* key: a commit takes effect as a whole when it gets the lock, because    *)
(* nobody can see the map before it has been applied.                      *)
(***************************************************************************)
Settled == [k \in Key |-> IF k \in left
                          THEN UNION {w[k] : w \in UNION {tx[c] : c \in lock}}
                          ELSE data[k]]

Contract == INSTANCE AtomicStore
                WITH data <- Settled,
                     pending <- [c \in Client |-> IF c \in lock THEN {} ELSE tx[c]]

KeepsContract == Contract!Spec
================================================================================
