---------------------------- MODULE AVSValueCells ----------------------------
(***************************************************************************)
(* What the operator module's AVS bookkeeping promises its callers: every  *)
(* amount it keeps is a cell of its own, named by its arguments, and one   *)
(* call changes at most one cell.  The cells are the total value of an     *)
(* operator in an AVS, the total value of an AVS, the opted-in amount and  *)
(* value of one asset of an operator in an AVS, and the share of a staker *)
(* in an operator's AVS value.                                             *)
(***************************************************************************)
CONSTANTS
    AVSs,        \* AVS addresses
    OpKeys,      \* operator arguments, valid or not
    Assets,      \* asset ids
    Stakers      \* staker ids

VARIABLES
    avsOperatorTotal,  \* AVSs \X OpKeys -> value
    avsTotal,          \* AVSs -> value
    assetState,        \* Assets \X AVSs \X OpKeys -> [amount, value]
    stakerShare        \* AVSs \X Stakers \X OpKeys -> value

cells == <<avsOperatorTotal, avsTotal, assetState, stakerShare>>

(* f' differs from f in at most the entry k.                               *)
OnlyAt(f, k) == \A j \in DOMAIN f \ {k} : f'[j] = f[j]

ChangeOne(f) == \E k \in DOMAIN f : OnlyAt(f, k)

Init ==
    /\ avsOperatorTotal = [k \in AVSs \X OpKeys |-> 0]
    /\ avsTotal = [a \in AVSs |-> 0]
    /\ assetState = [k \in Assets \X AVSs \X OpKeys |-> [amount |-> 0, value |-> 0]]
    /\ stakerShare = [k \in AVSs \X Stakers \X OpKeys |-> 0]

Next ==
    \/ ChangeOne(avsOperatorTotal) /\ UNCHANGED <<avsTotal, assetState, stakerShare>>
    \/ ChangeOne(avsTotal) /\ UNCHANGED <<avsOperatorTotal, assetState, stakerShare>>
    \/ ChangeOne(assetState) /\ UNCHANGED <<avsOperatorTotal, avsTotal, stakerShare>>
    \/ ChangeOne(stakerShare) /\ UNCHANGED <<avsOperatorTotal, avsTotal, assetState>>

Spec == Init /\ [][Next]_cells

=============================================================================
