------------------------------- MODULE Schemas -------------------------------
(***************************************************************************)
(* The amount rules of the standard RGB11 schemas (schemas/validate.go,    *)
(* schemas/transition.go).  An operation is judged on the state it         *)
(* consumes and creates: which assignment types are listed at all, and the *)
(* total of each:                                                          *)
(*                                                                         *)
(*   asset      assignment type 4000 (ownedAsset)                          *)
(*   inflation  assignment type 4010 (ownedInflation)                      *)
(*                                                                         *)
(* and on the amounts it declares in metadata and global state ("meta"):   *)
(*                                                                         *)
(*   genesis    asset = issuedSupply (2010), inflation = maxSupply (2011)  *)
(*   inflate    asset = issuedSupply (2010), inflation = metadata 1000     *)
(*   burn       asset = metadata 1001,       inflation = metadata 1002     *)
(*                                                                         *)
(* Amounts are machine words: MaxAmount is math.MaxUint64 in the code and  *)
(* a small number in a model, and sums the code does not guard wrap.       *)
(***************************************************************************)
EXTENDS Integers

CONSTANTS Kind,       \* the schema of the contract: "NIA", "CFA", "PFA" or "IFA"
          MaxAmount   \* the largest amount a machine word holds

ASSUME SchemaAssumption == /\ Kind \in {"NIA", "CFA", "PFA", "IFA"}
                           /\ MaxAmount \in Nat \ {0}

Amount == 0 .. MaxAmount
MetaAmounts == [asset : Amount, inflation : Amount]     \* "meta"

\* One side of an operation.  An assignment may be worth nothing, so a type
\* with a total of zero may be listed or not; a type not listed has none.
AssignmentKind == {"asset", "inflation"}
Side == [asset : Amount, inflation : Amount, listed : SUBSET AssignmentKind]
Totals == {t \in Side :
               /\ "asset" \notin t.listed => t.asset = 0
               /\ "inflation" \notin t.listed => t.inflation = 0}
TypesListed(hasAsset, hasInflation) ==
    {k \in AssignmentKind : IF k = "asset" THEN hasAsset ELSE hasInflation}
TransitionType == {"transfer", "inflate", "burn"}

\* Addition of two uint64 values.
Plus(x, y) == (x + y) % (MaxAmount + 1)

(***************************************************************************)
(* validateGenesisScript.                                                  *)
(***************************************************************************)
GenesisScript(out, meta) ==
    /\ out.asset = meta.asset
    /\ Kind = "IFA" => /\ meta.inflation >= meta.asset
                       /\ out.inflation = meta.inflation - meta.asset

(***************************************************************************)
(* validateTransitionScript, one operator per transition type.             *)
(***************************************************************************)
TransferScript(in, out, signed) ==
    /\ in.asset = out.asset
    /\ Kind = "IFA" => in.inflation = out.inflation
    /\ Kind = "PFA" => signed

\* Mutant of InflateScript: the overflow guard is missing.
InflateMayWrap(in, out, meta) ==
    /\ Kind = "IFA"
    /\ out.asset = meta.asset
    /\ out.inflation = meta.inflation
    /\ in.inflation = Plus(meta.asset, meta.inflation)

InflateScript(in, out, meta) ==
    /\ Kind = "IFA"
    /\ out.asset = meta.asset
    /\ out.inflation = meta.inflation
    /\ in.inflation = Plus(meta.asset, meta.inflation)
    /\ Plus(meta.asset, meta.inflation) >= meta.asset

\* Mutant of BurnScript: the overflow guards are missing.
BurnMayWrap(in, out, meta) ==
    /\ Kind = "IFA"
    /\ in.asset = Plus(out.asset, meta.asset)
    /\ in.inflation = Plus(out.inflation, meta.inflation)
    /\ meta.asset # 0 \/ meta.inflation # 0

BurnScript(in, out, meta) ==
    LET assetTotal     == Plus(out.asset, meta.asset)
        inflationTotal == Plus(out.inflation, meta.inflation)
    IN  /\ Kind = "IFA"
        /\ assetTotal >= out.asset
        /\ inflationTotal >= out.inflation
        /\ in.asset = assetTotal
        /\ in.inflation = inflationTotal
        /\ in.asset > 0 => meta.asset # 0
        /\ in.inflation > 0 => meta.inflation # 0
        /\ meta.asset # 0 \/ meta.inflation # 0

(***************************************************************************)
(* enforceOccurrences, before the script, with the tables that the schemas *)
(* carry (issuance/templates/*.rgba).  The schemas other than IFA know one *)
(* type, and ask for it on both sides; an IFA inflation consumes rights    *)
(* and no asset, and creates asset; the other IFA lists may be empty.  The *)
(* largest count, 65535, is that of the encoding.                          *)
(***************************************************************************)
Occurrences(type, from, to) ==
    IF Kind # "IFA"
    THEN /\ "inflation" \notin from \cup to
         /\ "asset" \in to
         /\ type # "genesis" => "asset" \in from
    ELSE type = "inflate" => /\ "asset" \notin from
                             /\ "inflation" \in from
                             /\ "asset" \in to

(***************************************************************************)
(* ValidateGenesis and ValidateTransition on totals.  No sum may exceed a  *)
(* machine word: the code refuses an operation whose input or output total *)
(* overflows.                                                              *)
(***************************************************************************)
GenesisOK(out, meta) ==
    /\ out \in Totals
    /\ Occurrences("genesis", {}, out.listed)
    /\ GenesisScript(out, meta)

ScriptOK(type, in, out, meta, signed) ==
    /\ in \in Totals
    /\ out \in Totals
    /\ Occurrences(type, in.listed, out.listed)
    /\ \/ type = "transfer" /\ TransferScript(in, out, signed)
       \/ type = "inflate"  /\ InflateScript(in, out, meta)
       \/ type = "burn"     /\ BurnScript(in, out, meta)
=============================================================================
