----------------------------- MODULE SupplyPromise -----------------------------
(***************************************************************************)
(* What the holders of a contract are promised about its supply, without   *)
(* operations, amounts in metadata or machine words: genesis creates units *)
(* and rights to create more, a right creates one unit once, and units and *)
(* rights can be burned, on the record.                                    *)
(***************************************************************************)
EXTENDS Integers

CONSTANT Amount     \* what one genesis may create

VARIABLES
    asset,      \* units held by unconsumed assignments
    allowance,  \* inflation rights held by unconsumed assignments
    burned,     \* units burned so far
    forgone,    \* inflation rights burned so far
    maximum     \* what genesis created in total

promiseVars == <<asset, allowance, burned, forgone, maximum>>

Init == asset = 0 /\ allowance = 0 /\ burned = 0 /\ forgone = 0 /\ maximum = 0

\* A contract (or the same contract, read again from its genesis) is opened.
Issue == \E units, rights \in Amount :
             /\ asset' = units
             /\ allowance' = rights
             /\ burned' = 0
             /\ forgone' = 0
             /\ maximum' = units + rights

Inflate == \E units \in 0 .. allowance :
               /\ asset' = asset + units
               /\ allowance' = allowance - units
               /\ UNCHANGED <<burned, forgone, maximum>>

Burn == \E units \in 0 .. asset, rights \in 0 .. allowance :
            /\ asset' = asset - units
            /\ allowance' = allowance - rights
            /\ burned' = burned + units
            /\ forgone' = forgone + rights
            /\ UNCHANGED maximum

Next == Issue \/ Inflate \/ Burn

Spec == Init /\ [][Next]_promiseVars
================================================================================
