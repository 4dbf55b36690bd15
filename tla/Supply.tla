-------------------------------- MODULE Supply --------------------------------
(***************************************************************************)
(* The schema rules at work, abstracted from how a history is disclosed    *)
(* and anchored: a genesis that ValidateGenesis accepts, then arbitrary    *)
(* operations that ValidateTransition accepts, each applied to state that  *)
(* exists.  All the amounts an operation declares are the issuer's choice. *)
(***************************************************************************)
EXTENDS Schemas

VARIABLES
    asset,      \* asset units held by unconsumed assignments
    allowance,  \* inflation rights held by unconsumed assignments
    burned,     \* asset units that accepted operations declared burned
    forgone,    \* inflation rights that accepted operations declared burned
    maximum     \* what genesis created in total

supplyVars == <<asset, allowance, burned, forgone, maximum>>

TypeOK == /\ asset \in Nat
          /\ allowance \in Nat
          /\ burned \in Nat
          /\ forgone \in Nat
          /\ maximum \in Nat

Init == asset = 0 /\ allowance = 0 /\ burned = 0 /\ forgone = 0 /\ maximum = 0

\* A contract (or the same contract, read again from its genesis) is opened.
Issue(out, meta) ==
    /\ GenesisOK(out, meta)
    /\ asset' = out.asset
    /\ allowance' = out.inflation
    /\ burned' = 0
    /\ forgone' = 0
    /\ maximum' = out.asset + out.inflation

\* An accepted operation consumes existing state and creates its outputs.
Operate(type, in, out, meta, signed) ==
    /\ ScriptOK(type, in, out, meta, signed)
    /\ asset' = asset - in.asset + out.asset
    /\ allowance' = allowance - in.inflation + out.inflation
    /\ burned' = burned + IF type = "burn" THEN meta.asset ELSE 0
    /\ forgone' = forgone + IF type = "burn" THEN meta.inflation ELSE 0
    /\ UNCHANGED maximum

\* Mutant of Consumable: inputs are taken at the operation's word.
ConsumableUnresolved == Totals

\* What one operation can consume: state that exists.
Consumable == {in \in Totals : in.asset <= asset /\ in.inflation <= allowance}

Next == \E out \in Totals, meta \in MetaAmounts :
            \/ Issue(out, meta)
            \/ \E in \in Consumable, signed \in BOOLEAN, type \in TransitionType :
                   Operate(type, in, out, meta, signed)

Spec == Init /\ [][Next]_supplyVars

-------------------------------------------------------------------------------
(***************************************************************************)
(* Nothing is created after genesis and nothing disappears unrecorded:     *)
(* whatever transfers, inflations and burns were accepted, the units in    *)
(* circulation, the rights still unused and the amounts burned add up to   *)
(* what genesis created (schemas/transition.go, validateTransitionScript). *)
(***************************************************************************)
SupplyConserved == asset + allowance + burned + forgone = maximum

(***************************************************************************)
(* Operation by operation the rules keep the promise: units appear only    *)
(* where as many rights disappear, and what disappears otherwise is        *)
(* declared as burned, although every sum in the code may wrap.            *)
(***************************************************************************)
Promise == INSTANCE SupplyPromise
PromiseSpec == Promise!Spec
===============================================================================
