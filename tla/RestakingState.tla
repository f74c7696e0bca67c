--------------------------- MODULE RestakingState ---------------------------
(***************************************************************************)
(* The restaking bookkeeping of one staker: its per-asset state in the    *)
(* restaking_assets_manage store (UpdateStakerAssetState, staker_asset.go)*)
(* and its delegations in the delegation store (delegation_state.go):     *)
(* the total delegated per asset, and the undelegatable and pending       *)
(* amounts per operator.  Every update is reached either through a Cosmos *)
(* message, whose writes the SDK discards when the handler returns an     *)
(* error, or through the delegation precompile, whose Run turns the error *)
(* into a successful `false` result (precompiles/delegation/delegation.go)*)
(* so that the writes made before the error stay.                          *)
(*                                                                         *)
(* The only producer of a delegation argument under src/ is the           *)
(* delegation precompile's GetDelegationParamsFromInputs, which yields one *)
(* operator already parsed with sdk.AccAddressFromBech32; so the map      *)
(* argument of UpdateDelegationState holds one valid operator.            *)
(***************************************************************************)
EXTENDS Integers, FiniteSets, SequencesExt

CONSTANTS
    Assets,          \* asset ids of the staker
    Operators,       \* valid operator bech32 addresses
    StakerChanges,   \* StakerSingleAssetOrChangeInfo arguments: [total, canWithdraw, waitUndelegation]
    DelegationChanges, \* DelegationAmounts arguments: [can, wait], or NilAmounts
    Deltas,          \* opAmount arguments of UpdateStakerDelegationTotalAmount
    Paths,           \* subset of {"msg", "precompile"}: how a call reaches the keeper
    MaxAmount,       \* bound on every stored amount (model bound)
    Nil,             \* a nil sdkmath.Int field
    NilAmounts       \* a nil *DelegationAmounts map value

Store == [stakerAsset     : [Assets -> [total : Int, canWithdraw : Int, waitUndelegation : Int]],
          delegationTotal : [Assets -> Int],
          delegationState : [Assets \X Operators -> [can : Int, wait : Int]]]

VARIABLE
    store      \* the committed restaking store

vars == <<store>>

ZeroStore ==
    [stakerAsset     |-> [a \in Assets |-> [total |-> 0, canWithdraw |-> 0, waitUndelegation |-> 0]],
     delegationTotal |-> [a \in Assets |-> 0],
     delegationState |-> [k \in Assets \X Operators |-> [can |-> 0, wait |-> 0]]]

(***************************************************************************)
(* The rule every update of one amount follows (the inline code of        *)
(* UpdateStakerAssetState, and keeper.UpdateAssetValue): a nil change is   *)
(* skipped; a negative change larger than the amount is an error           *)
(* ErrSubAmountIsMoreThanOrigin; a zero change leaves the amount alone.    *)
(***************************************************************************)
(* Mutant: the check against the current amount is dropped.              *)
ApplyChangeUnchecked(cur, delta) ==
    IF delta = Nil THEN [ok |-> TRUE, val |-> cur]
    ELSE [ok |-> TRUE, val |-> cur + delta]

ApplyChange(cur, delta) ==
    CASE delta = Nil              -> [ok |-> TRUE, val |-> cur]
      [] delta < 0 /\ cur < -delta -> [ok |-> FALSE, val |-> cur]
      [] OTHER                    -> [ok |-> TRUE, val |-> cur + delta]

(* Mutant: the change record is stored in place of the updated state.     *)
UpdateStakerAssetStateStoresChange(s, a, ch) ==
    [err |-> FALSE, st |-> [s EXCEPT !.stakerAsset[a] = ch]]

(* UpdateStakerAssetState: the three fields in order; the first failing    *)
(* check returns before the single store.Set, so nothing is written.      *)
UpdateStakerAssetState(s, a, ch) ==
    LET old == s.stakerAsset[a]
        t   == ApplyChange(old.total, ch.total)
        c   == ApplyChange(old.canWithdraw, ch.canWithdraw)
        w   == ApplyChange(old.waitUndelegation, ch.waitUndelegation)
    IN  IF t.ok /\ c.ok /\ w.ok
        THEN [err |-> FALSE,
              st  |-> [s EXCEPT !.stakerAsset[a] =
                         [total |-> t.val, canWithdraw |-> c.val, waitUndelegation |-> w.val]]]
        ELSE [err |-> TRUE, st |-> s]

(* UpdateStakerDelegationTotalAmount: nil or zero returns at once.         *)
UpdateStakerDelegationTotalAmount(s, a, d) ==
    IF d = Nil \/ d = 0 THEN [err |-> FALSE, st |-> s]
    ELSE LET r == ApplyChange(s.delegationTotal[a], d)
         IN  IF r.ok THEN [err |-> FALSE, st |-> [s EXCEPT !.delegationTotal[a] = r.val]]
             ELSE [err |-> TRUE, st |-> s]

(***************************************************************************)
(* UpdateDelegationState: the operators of the map argument in turn; nil  *)
(* entries and entries with both amounts nil are skipped; a failing amount *)
(* update returns the error at once, before this operator's store.Set.     *)
(* The bech32 check of the key always passes: the caller parsed it.        *)
(***************************************************************************)
DelegationStep(acc, a, op, am) ==
    IF acc.err \/ am = NilAmounts \/ (am.can = Nil /\ am.wait = Nil) THEN acc
    ELSE LET old == acc.st.delegationState[<<a, op>>]
             c   == ApplyChange(old.can, am.can)
             w   == ApplyChange(old.wait, am.wait)
         IN  IF c.ok /\ w.ok
             THEN [acc EXCEPT !.st.delegationState[<<a, op>>] = [can |-> c.val, wait |-> w.val]]
             ELSE [acc EXCEPT !.err = TRUE]

UpdateDelegationState(s, a, amounts) ==
    FoldLeft(LAMBDA acc, op : DelegationStep(acc, a, op, amounts[op]),
             [err |-> FALSE, st |-> s], SetToSeq(DOMAIN amounts))

(***************************************************************************)
(* What a caller's state is after the call.  On the message path the SDK   *)
(* discards a failed handler's writes.  On the precompile path Run packs   *)
(* `false` with a nil error for a failed method, so the EVM call succeeds  *)
(* and the writes made before the error are committed.                     *)
(***************************************************************************)
Run(s, r, path) == IF r.err /\ path = "msg" THEN s ELSE r.st

(* Every amount a store holds.                                             *)
StoredAmounts(s) ==
    UNION {{s.stakerAsset[a].total, s.stakerAsset[a].canWithdraw,
            s.stakerAsset[a].waitUndelegation, s.delegationTotal[a]} : a \in Assets}
    \cup UNION {{s.delegationState[k].can, s.delegationState[k].wait} : k \in Assets \X Operators}

Bounded(s) == \A v \in StoredAmounts(s) : v \in Int => v <= MaxAmount

(* One call and what its path commits of its result `res`.               *)
Execute(path, res) ==
    /\ Bounded(res.st)
    /\ store' = Run(store, res, path)

CallUpdateStakerAssetState(path, a, ch) ==
    Execute(path, UpdateStakerAssetState(store, a, ch))

CallUpdateStakerDelegationTotalAmount(path, a, d) ==
    Execute(path, UpdateStakerDelegationTotalAmount(store, a, d))

CallUpdateDelegationState(path, a, amounts) ==
    Execute(path, UpdateDelegationState(store, a, amounts))

(* The map argument: one valid operator and its amounts.                   *)
DelegationArguments == UNION {[{op} -> DelegationChanges] : op \in Operators}

(* An empty store, every key absent: each function reads an absent key as *)
(* zero amounts.                                                           *)
Init == store = ZeroStore

Next ==
    \E path \in Paths, a \in Assets :
        \/ \E ch \in StakerChanges : CallUpdateStakerAssetState(path, a, ch)
        \/ \E d \in Deltas : CallUpdateStakerDelegationTotalAmount(path, a, d)
        \/ \E amounts \in DelegationArguments : CallUpdateDelegationState(path, a, amounts)

Spec == Init /\ [][Next]_vars

(***************************************************************************)
(* Properties                                                              *)
(***************************************************************************)
(* The store holds integer amounts of the three records.                  *)
TypeOK == store \in Store

(* No stored amount is ever negative, whatever sequence of increases and   *)
(* decreases the callers make: the checks of UpdateStakerAssetState,       *)
(* UpdateStakerDelegationTotalAmount and UpdateDelegationState refuse a    *)
(* decrease larger than the amount, field by field and operator by        *)
(* operator.                                                               *)
AmountsNonNegative == \A v \in StoredAmounts(store) : v >= 0

=============================================================================
