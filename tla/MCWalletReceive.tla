---------------------------- MODULE MCWalletReceive ----------------------------
(***************************************************************************)
(* Two callers: each one serving requests of its own, or both serving all. *)
(***************************************************************************)
EXTENDS WalletReceive

Own == [c \in Caller |-> IF c = "c1" THEN {"r1", "r2"} ELSE {"r3"}]
Shared == [c \in Caller |-> Request]

\* A transfer that is named takes room.
Room == [k \in Status \X (Object \cup {None}) |-> IF k[2] = None THEN 1 ELSE 2]
================================================================================
