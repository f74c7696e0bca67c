-------------------------- MODULE OperatorAVSState --------------------------
(***************************************************************************)
(* The AVS bookkeeping of the operator keeper                             *)
(* (x/operator/keeper/avs_operator_assets_state.go) over its byte-keyed   *)
(* prefix stores.  The keys are built by GetJoinedStoreKey                 *)
(* (x/assets/types/keys.go), which joins its arguments with "/".  The      *)
(* total value of an operator in an AVS and the total value of an AVS live *)
(* in the same prefix store KeyPrefixAVSOperatorAssetsTotalValue, the one  *)
(* under the key avsAddr/operatorAddr, the other under the key avsAddr.    *)
(*                                                                         *)
(* A string is a sequence of one-character strings; a store is a function  *)
(* from the keys written so far to their amount.  Decimal amounts are      *)
(* integers in a fixed unit.                                               *)
(***************************************************************************)
EXTENDS Integers, Sequences, SequencesExt

CONSTANTS
    AVSs,         \* avsAddr arguments
    Operators,    \* operatorAddr arguments that sdk.AccAddressFromBech32 accepts
    BadOperators, \* operatorAddr arguments it rejects ("" among them)
    Assets,       \* assetId arguments
    Stakers,      \* stakerId arguments
    Changes,      \* amount changes a caller passes
    Nil,          \* a nil sdkmath.Int / LegacyDec
    MaxAmount     \* bound on every stored amount (model bound)

OpKeys == Operators \cup BadOperators

Delimiter == <<"/">>          \* utils.DelimiterForCombinedKey

VARIABLES
    totalValueStore,  \* KeyPrefixAVSOperatorAssetsTotalValue: key -> amount
    assetStateStore,  \* KeyPrefixOperatorAVSSingleAssetState: key -> [amount, value]
    shareStore,       \* KeyPrefixAVSOperatorStakerShareState: key -> amount
    lastErr           \* whether the last call returned an error

stores == <<totalValueStore, assetStateStore, shareStore>>
vars == <<totalValueStore, assetStateStore, shareStore, lastErr>>

(* Mutant: the arguments are concatenated without the delimiter.          *)
GetJoinedStoreKeyNoDelimiter(keys) == FlattenSeq(keys)

(* GetJoinedStoreKey: strings.Join(keys, "/").                             *)
GetJoinedStoreKey(keys) ==
    IF keys = <<>> THEN <<>>
    ELSE FoldLeft(LAMBDA acc, k : acc \o Delimiter \o k, Head(keys), Tail(keys))

(* strings.Split(s, "/"): n delimiters give n+1 parts, "" gives one part.  *)
SplitJoined(s) ==
    FoldLeft(LAMBDA parts, c :
                IF <<c>> = Delimiter THEN Append(parts, <<>>)
                ELSE [parts EXCEPT ![Len(parts)] = Append(@, c)],
             << <<>> >>, s)

(* ParseJoinedStoreKey: the parts, or ErrParseJoinedKey when their number  *)
(* is not `number`.                                                        *)
ParseJoinedStoreKey(key, number) ==
    LET parts == SplitJoined(key)
    IN  IF Len(parts) # number THEN [ok |-> FALSE, keys |-> <<>>]
        ELSE [ok |-> TRUE, keys |-> parts]

(***************************************************************************)
(* restakingtype.UpdateAssetValue / UpdateAssetDecValue (not in this      *)
(* repository; the rule of the inline code of UpdateStakerAssetState): a  *)
(* nil change is skipped, a decrease below zero is an error.               *)
(***************************************************************************)
UpdateAssetValue(cur, delta) ==
    CASE delta = Nil               -> [ok |-> TRUE, val |-> cur]
      [] delta < 0 /\ cur < -delta -> [ok |-> FALSE, val |-> cur]
      [] OTHER                     -> [ok |-> TRUE, val |-> cur + delta]

(* store.Has(key) ? unmarshal(store.Get(key)) : default                   *)
Read(store, key, default) == IF key \in DOMAIN store THEN store[key] ELSE default

(* store.Set(key, v)                                                       *)
Set(store, key, v) == (key :> v) @@ store

(* The read-update-write of one amount shared by UpdateAVSOperatorTotalValue, *)
(* UpdateAVSTotalValue and UpdateAVSOperatorStakerShareValue: a nil or    *)
(* zero change returns at once; a failing update returns before the Set.  *)
(* The result is the error returned and the store after the call.         *)
UpdateDecAt(store, key, opAmount) ==
    IF opAmount = Nil \/ opAmount = 0 THEN [err |-> FALSE, st |-> store]
    ELSE LET r == UpdateAssetValue(Read(store, key, 0), opAmount)
         IN  IF r.ok THEN [err |-> FALSE, st |-> Set(store, key, r.val)]
             ELSE [err |-> TRUE, st |-> store]

(* Mutant: the amount is written before the value is checked.             *)
UpdateOperatorAVSAssetsStatePartial(store, key, operatorAddr, change) ==
    LET old == Read(store, key, [amount |-> 0, value |-> 0])
        a   == UpdateAssetValue(old.amount, change.amount)
        v   == UpdateAssetValue(old.value, change.value)
    IN  CASE change.amount = Nil /\ change.value = Nil -> [err |-> FALSE, st |-> store]
          [] operatorAddr \notin Operators            -> [err |-> TRUE, st |-> store]
          [] ~a.ok                                     -> [err |-> TRUE, st |-> store]
          [] ~v.ok -> [err |-> TRUE, st |-> Set(store, key, [old EXCEPT !.amount = a.val])]
          [] OTHER -> [err |-> FALSE, st |-> Set(store, key, [amount |-> a.val, value |-> v.val])]

(* Mutant: the change argument is stored in place of the updated state.   *)
UpdateOperatorAVSAssetsStateStoresChange(store, key, operatorAddr, change) ==
    CASE change.amount = Nil /\ change.value = Nil -> [err |-> FALSE, st |-> store]
      [] operatorAddr \notin Operators            -> [err |-> TRUE, st |-> store]
      [] OTHER                                     -> [err |-> FALSE, st |-> Set(store, key, change)]

(* UpdateOperatorAVSAssetsState on the store under `key`, the joined       *)
(* assetId/avsAddr/operatorAddr: both changes nil returns at once; an      *)
(* operator that is not an account address is an error; the amount and    *)
(* then the value are updated in a copy, and either error returns before  *)
(* the single Set.                                                         *)
UpdateOperatorAVSAssetsStateAt(store, key, operatorAddr, change) ==
    LET old == Read(store, key, [amount |-> 0, value |-> 0])
        a   == UpdateAssetValue(old.amount, change.amount)
        v   == UpdateAssetValue(old.value, change.value)
    IN  CASE change.amount = Nil /\ change.value = Nil -> [err |-> FALSE, st |-> store]
          [] operatorAddr \notin Operators            -> [err |-> TRUE, st |-> store]
          [] ~a.ok \/ ~v.ok                            -> [err |-> TRUE, st |-> store]
          [] OTHER -> [err |-> FALSE, st |-> Set(store, key, [amount |-> a.val, value |-> v.val])]

(* Every amount of a store is within the model bound.                      *)
BoundedAmounts(store) == \A k \in DOMAIN store : store[k] <= MaxAmount

BoundedStates(store) ==
    \A k \in DOMAIN store : \A f \in {"amount", "value"} :
        store[k][f] \in Int => store[k][f] <= MaxAmount

(* A call: its result r is committed to one store and its error recorded. *)
Commit(store, r) ==
    /\ store' = r.st
    /\ lastErr' = r.err

UpdateAVSOperatorTotalValue(avsAddr, operatorAddr, opAmount) ==
    /\ Commit(totalValueStore,
              IF opAmount \in {Nil, 0} THEN [err |-> FALSE, st |-> totalValueStore]
              ELSE IF operatorAddr = <<>> THEN [err |-> TRUE, st |-> totalValueStore]
              ELSE UpdateDecAt(totalValueStore, GetJoinedStoreKey(<<avsAddr, operatorAddr>>), opAmount))
    /\ BoundedAmounts(totalValueStore')
    /\ UNCHANGED <<assetStateStore, shareStore>>

UpdateAVSTotalValue(avsAddr, opAmount) ==
    /\ Commit(totalValueStore, UpdateDecAt(totalValueStore, avsAddr, opAmount))
    /\ BoundedAmounts(totalValueStore')
    /\ UNCHANGED <<assetStateStore, shareStore>>

UpdateOperatorAVSAssetsState(assetId, avsAddr, operatorAddr, change) ==
    /\ Commit(assetStateStore,
              UpdateOperatorAVSAssetsStateAt(assetStateStore,
                  GetJoinedStoreKey(<<assetId, avsAddr, operatorAddr>>), operatorAddr, change))
    /\ BoundedStates(assetStateStore')
    /\ UNCHANGED <<totalValueStore, shareStore>>

UpdateAVSOperatorStakerShareValue(avsAddr, stakerId, operatorAddr, opAmount) ==
    /\ Commit(shareStore,
              UpdateDecAt(shareStore, GetJoinedStoreKey(<<avsAddr, stakerId, operatorAddr>>), opAmount))
    /\ BoundedAmounts(shareStore')
    /\ UNCHANGED <<totalValueStore, assetStateStore>>

Init ==
    /\ totalValueStore = <<>>
    /\ assetStateStore = <<>>
    /\ shareStore = <<>>
    /\ lastErr = FALSE

Next ==
    \/ \E avs \in AVSs, op \in OpKeys, d \in Changes : UpdateAVSOperatorTotalValue(avs, op, d)
    \/ \E avs \in AVSs, d \in Changes : UpdateAVSTotalValue(avs, d)
    \/ \E t \in Assets, avs \in AVSs, op \in OpKeys, ca, cv \in Changes :
          UpdateOperatorAVSAssetsState(t, avs, op, [amount |-> ca, value |-> cv])
    \/ \E avs \in AVSs, s \in Stakers, op \in OpKeys, d \in Changes :
          UpdateAVSOperatorStakerShareValue(avs, s, op, d)

Spec == Init /\ [][Next]_vars

(***************************************************************************)
(* The getters: the value under the key, or ErrNoKeyInTheStore (and, for  *)
(* the AVS-operator total, ErrParameterInvalid on an empty operator).     *)
(***************************************************************************)
GetAt(store, key) ==
    IF key \in DOMAIN store THEN [err |-> FALSE, v |-> store[key]] ELSE [err |-> TRUE, v |-> Nil]

GetAVSOperatorTotalValue(avsAddr, operatorAddr) ==
    IF operatorAddr = <<>> THEN [err |-> TRUE, v |-> Nil]
    ELSE GetAt(totalValueStore, GetJoinedStoreKey(<<avsAddr, operatorAddr>>))

GetAVSTotalValue(avsAddr) == GetAt(totalValueStore, avsAddr)

GetOperatorAVSAssetsState(assetId, avsAddr, operatorAddr) ==
    GetAt(assetStateStore, GetJoinedStoreKey(<<assetId, avsAddr, operatorAddr>>))

GetAVSOperatorStakerShareValue(avsAddr, stakerId, operatorAddr) ==
    GetAt(shareStore, GetJoinedStoreKey(<<avsAddr, stakerId, operatorAddr>>))

(***************************************************************************)
(* Properties                                                              *)
(***************************************************************************)
AmountRecord == [amount : Int, value : Int]

(* The three stores map byte keys to amounts.                             *)
TypeOK ==
    /\ totalValueStore \in [DOMAIN totalValueStore -> Int]
    /\ assetStateStore \in [DOMAIN assetStateStore -> AmountRecord]
    /\ shareStore \in [DOMAIN shareStore -> Int]
    /\ lastErr \in BOOLEAN

(* A call that returns an error has written nothing: in                    *)
(* UpdateOperatorAVSAssetsState the amount is updated and then the value, *)
(* in a copy read from the store, and an error of either returns before   *)
(* the single store.Set; the other updates check before their Set too.    *)
FailedCallWritesNothing == [][lastErr' => UNCHANGED stores]_vars

(***************************************************************************)
(* Refinement: reading every logical amount back through its getter gives *)
(* behaviour of AVSValueCells, in which one call changes at most one cell. *)
(* The AVS totals and the AVS-operator totals share one prefix store, so   *)
(* this is what the delimiter of GetJoinedStoreKey has to ensure.          *)
(***************************************************************************)
(* What a getter returns, an amount it has no key for being zero.         *)
ValueOr(r, zero) == IF r.err THEN zero ELSE r.v

Cells == INSTANCE AVSValueCells WITH
    avsOperatorTotal <- [k \in AVSs \X OpKeys |-> ValueOr(GetAVSOperatorTotalValue(k[1], k[2]), 0)],
    avsTotal         <- [a \in AVSs |-> ValueOr(GetAVSTotalValue(a), 0)],
    assetState       <- [k \in Assets \X AVSs \X OpKeys |->
                           ValueOr(GetOperatorAVSAssetsState(k[1], k[2], k[3]),
                                   [amount |-> 0, value |-> 0])],
    stakerShare      <- [k \in AVSs \X Stakers \X OpKeys |->
                           ValueOr(GetAVSOperatorStakerShareValue(k[1], k[2], k[3]), 0)]

(* Each call of the keeper changes at most one logical amount, and the     *)
(* store starts with every amount zero.                                    *)
RefinesCells == Cells!Spec

=============================================================================
