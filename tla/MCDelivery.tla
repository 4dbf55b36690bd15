------------------------------ MODULE MCDelivery ------------------------------
(***************************************************************************)
(* A batch to two recipients, each with one request, and a clock of two    *)
(* readings.                                                               *)
(***************************************************************************)
EXTENDS Delivery

OneEach == [c \in Caller |-> IF c = "alice" THEN {"r1"} ELSE {"r2"}]
Answers == [c \in Caller |-> IF c = "alice" THEN "ack1" ELSE "ack2"]

\* A transfer that is named takes room.
Room == [k \in Status \X (Object \cup {None}) |-> IF k[2] = None THEN 1 ELSE 2]
===============================================================================
