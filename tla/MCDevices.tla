------------------------------ MODULE MCDevices ------------------------------
(***************************************************************************)
(* Two sessions of a wallet, two states, and sequence numbers that wrap    *)
(* after 2.                                                                *)
(***************************************************************************)
EXTENDS Devices

BothKeys == {"head", "snapshot"}
OwnStates == [c \in Client |-> IF c = "c1" THEN {"s", "0"} ELSE {"t"}]
Foreign == {[wellFormed |-> TRUE,  wallet |-> "w2", seq |-> 2, state |-> "s"],
            [wellFormed |-> FALSE, wallet |-> "w",  seq |-> 2, state |-> "t"]}

\* A selection reads nothing but what was published before it started, and
\* nothing reads it: it is enough to run it while every session rests.
Apart == search = Idle \/ \A c \in Client : tx[c] = {} /\ got[c] = data["head"]
===============================================================================
