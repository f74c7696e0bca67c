--------------------------- MODULE MCComponents ---------------------------
(***************************************************************************)
(* The components that share no state with each other, checked in one run: *)
(* each behaviour picks one of them (`part`) and only that one moves, so  *)
(* the states of the run are the sum, not the product, of theirs.  The     *)
(* properties of a component hold trivially in the behaviours of the       *)
(* others, where its variables keep their initial values.                  *)
(*  - opAssets: OperatorAVSState with one AVS, asset, staker and a valid   *)
(*    and an empty operator: the asset-state and share stores;             *)
(*  - opTotals: OperatorAVSState with AVS names "a" and "ac" and operator *)
(*    "c", whose keys would meet without the delimiter: the shared totals *)
(*    store and the refinement of AVSValueCells;                           *)
(*  - avs: AVSPrecompile with two calling contracts and two accounts;      *)
(*  - keys: DogfoodKeys with two-byte integers;                            *)
(*  - params: EpochParams;                                                 *)
(*  - restaking: RestakingState on the message path, with one asset and   *)
(*    two operators;                                                       *)
(*  - codec: ProtoCodec over the values and byte strings of                *)
(*    ProtoCodecSamples, 13-bit ints and 6-bit int32s.  One use of a codec *)
(*    ends after its last Unmarshal; its final state then repeats          *)
(*    (CodecTerminated), as a finished computation does;                   *)
(*  - assets: AssetsPrecompile with one chain, address lengths around the  *)
(*    minimum 2, byte arguments of up to three bytes and oracle infos of    *)
(*    3, 5 and 7 fields, one with a comma in its token description;       *)
(*  - avsTypes: Difference of x/avs/types on lists of up to two of three   *)
(*    names.                                                               *)
(***************************************************************************)
EXTENDS Integers

CONSTANTS
    NilValue,                        \* nil amount of OperatorAVSState
    c1, c2, a1, a2,                  \* contracts and accounts of AVSPrecompile
    ZeroAddress, NilErr, NoInfo, NoCall,
    NilReward,                       \* nil reward of EpochParams
    o1, o2, asset1,                  \* operators and asset of RestakingState
    NilInt, NilDelegation,
    NullPtr,                         \* nil message pointer of ProtoCodec
    NoChain                          \* unregistered chain of AssetsPrecompile

VARIABLES
    part,
    oaTotal, oaAsset, oaShare, oaErr,
    otTotal, otAsset, otShare, otErr,
    avsInfo, last,
    store, written, lastOk,
    mintParams, feeEpoch, feeSigner, lastEnd,
    rsStore,
    msgType, pending, sent, wire, result,
    chains, assetsLast,
    diffArgs, diffOut

OA == INSTANCE OperatorAVSState
        WITH AVSs <- {<<"a">>}, Operators <- {<<"c">>}, BadOperators <- {<<>>},
             Assets <- {<<"t">>}, Stakers <- {<<"s">>}, Changes <- {NilValue, 0, 1, -1},
             Nil <- NilValue, MaxAmount <- 1,
             totalValueStore <- oaTotal, assetStateStore <- oaAsset,
             shareStore <- oaShare, lastErr <- oaErr

OT == INSTANCE OperatorAVSState
        WITH AVSs <- {<<"a">>, <<"a", "c">>}, Operators <- {<<"c">>}, BadOperators <- {<<>>},
             Assets <- {}, Stakers <- {}, Changes <- {NilValue, 0, 1, -1},
             Nil <- NilValue, MaxAmount <- 2,
             totalValueStore <- otTotal, assetStateStore <- otAsset,
             shareStore <- otShare, lastErr <- otErr

A == INSTANCE AVSPrecompile
        WITH Contracts <- {c1, c2}, Accounts <- {a1, a2}, Names <- {"n"}

D == INSTANCE DogfoodKeys
        WITH Uint64Bytes <- 2, Addresses <- {<<5>>, <<6>>}, Heights <- {-1, 0, 255, 256},
             IDs <- {1, 256}, MaxWrites <- 3

P == INSTANCE EpochParams
        WITH Denoms <- {"hua", "1hua"}, ValidDenoms <- {"hua"}, Rewards <- {NilReward, -1, 0, 20},
             Identifiers <- {"day", "week", "hour", ""}, ValidIdentifiers <- {"day", "week", "hour"},
             EpochInfos <- {"day", "week"}, Signers <- {"gov", "anyone"}, Authority <- "gov",
             Nil <- NilReward

(* Changes of StakerSingleAssetOrChangeInfo: a deposit, a withdrawal, a    *)
(* delegation moving can-withdraw out, and a change with a nil field;      *)
(* per-operator DelegationAmounts: a delegation, an undelegation start, a  *)
(* nil entry.                                                              *)
R == INSTANCE RestakingState
        WITH Assets <- {asset1}, Operators <- {o1, o2}, MaxAmount <- 2,
             Nil <- NilInt, NilAmounts <- NilDelegation,
             StakerChanges <-
                { [total |-> 1,      canWithdraw |-> 1,  waitUndelegation |-> NilInt],
                  [total |-> -1,     canWithdraw |-> -1, waitUndelegation |-> NilInt],
                  [total |-> NilInt, canWithdraw |-> -1, waitUndelegation |-> 1] },
             DelegationChanges <-
                { [can |-> 1, wait |-> NilInt], [can |-> -1, wait |-> 1], NilDelegation },
             Deltas <- {NilInt, 0, 1, -1}, Paths <- {"msg"}, store <- rsStore

S == INSTANCE ProtoCodecSamples

C == INSTANCE ProtoCodec
        WITH IntBits <- 13, Int32Bits <- 6, Null <- NullPtr, MsgTypes <- S!MCMsgTypes,
             Samples <- S!MCSamples, RawInputs <- S!MCRawInputs

(* Oracle infos in the documented format: three fields, five fields, and  *)
(* seven with descriptions, once with a comma inside the token's.          *)
AssetsOracleInfo(n, tokenDesc) ==
    [fields |-> n, tokenName |-> <<"ETH">>, chainName |-> <<"Ethereum">>, decimal |-> <<"18">>,
     interval |-> IF n >= 4 THEN <<"30">> ELSE <<>>, contract |-> IF n >= 5 THEN <<"0x1">> ELSE <<>>,
     chainDesc |-> IF n = 7 THEN <<"d">> ELSE <<>>, tokenDesc |-> IF n = 7 THEN tokenDesc ELSE <<>>]

AS == INSTANCE AssetsPrecompile
        WITH ChainIDs <- {1}, AddrLengthArgs <- {0, 1, 2, 3}, MinClientChainAddrLength <- 2,
             MaxChainTokenNameLength <- 1, MaxChainTokenMetaInfoLength <- 1,
             ByteArgs <- {<<>>, <<1>>, <<1, 0, 1>>}, Amounts <- {0, 1},
             OracleInfos <- {AssetsOracleInfo(3, <<>>), AssetsOracleInfo(5, <<>>),
                             AssetsOracleInfo(7, <<"d">>), AssetsOracleInfo(7, <<"d", ",", "e">>)},
             BadOracleStrings <- {<<"ETH", ",", "Ethereum">>}, last <- assetsLast

AT == INSTANCE AVSTypes WITH Names <- 1..3, MaxLen <- 2

Parts == {"opAssets", "opTotals", "avs", "keys", "params", "restaking", "codec", "assets",
          "avsTypes"}

codecVars == <<msgType, pending, sent, wire, result>>
oaVars == <<oaTotal, oaAsset, oaShare, oaErr>>
otVars == <<otTotal, otAsset, otShare, otErr>>
assetsVars == <<chains, assetsLast>>
diffVars == <<diffArgs, diffOut>>
vars == <<part, oaVars, otVars, avsInfo, last, store, written, lastOk,
          mintParams, feeEpoch, feeSigner, lastEnd, rsStore, codecVars, assetsVars, diffVars>>

(* The params of EpochParams in the behaviours of the other parts.         *)
ParamsAtRest ==
    /\ mintParams = [mintDenom |-> "hua", epochReward |-> 20, epochIdentifier |-> "day"]
    /\ feeEpoch = "day"

(* The codec in the behaviours of the other parts: nothing to decode.     *)
CodecAtRest == msgType = "Token" /\ pending = <<>> /\ wire = <<>>

(* One use of the codec has ended: every value is marshalled, the bytes    *)
(* are unmarshalled, and the result is not one to encode again (the values *)
(* came from Marshal, or Unmarshal failed), so no step of it is enabled.   *)
CodecTerminated ==
    /\ part = "codec"
    /\ pending = <<>> /\ result # NullPtr /\ (sent # <<>> \/ C!Failed(result))
    /\ UNCHANGED vars

Init ==
    /\ part \in Parts
    /\ OA!Init /\ OT!Init /\ A!Init /\ D!Init /\ P!Init /\ R!Init
    /\ part # "params" => ParamsAtRest
    /\ C!Init
    /\ part # "codec" => CodecAtRest
    /\ AS!Init
    /\ AT!Init

Next ==
    \/ part = "opAssets" /\ OA!Next
          /\ UNCHANGED <<part, otVars, avsInfo, last, store, written, lastOk, mintParams, feeEpoch, feeSigner, lastEnd, rsStore, codecVars, assetsVars, diffVars>>
    \/ part = "opTotals" /\ OT!Next
          /\ UNCHANGED <<part, oaVars, avsInfo, last, store, written, lastOk, mintParams, feeEpoch, feeSigner, lastEnd, rsStore, codecVars, assetsVars, diffVars>>
    \/ part = "avs" /\ A!Next
          /\ UNCHANGED <<part, oaVars, otVars, store, written, lastOk, mintParams, feeEpoch, feeSigner, lastEnd, rsStore, codecVars, assetsVars, diffVars>>
    \/ part = "keys" /\ D!Next
          /\ UNCHANGED <<part, oaVars, otVars, avsInfo, last, mintParams, feeEpoch, feeSigner, lastEnd, rsStore, codecVars, assetsVars, diffVars>>
    \/ part = "params" /\ P!Next
          /\ UNCHANGED <<part, oaVars, otVars, avsInfo, last, store, written, lastOk, rsStore, codecVars, assetsVars, diffVars>>
    \/ part = "restaking" /\ R!Next
          /\ UNCHANGED <<part, oaVars, otVars, avsInfo, last, store, written, lastOk,
                         mintParams, feeEpoch, feeSigner, lastEnd, codecVars, assetsVars, diffVars>>
    \/ part = "codec" /\ C!Next
          /\ UNCHANGED <<part, oaVars, otVars, avsInfo, last, store, written, lastOk,
                         mintParams, feeEpoch, feeSigner, lastEnd, rsStore, assetsVars, diffVars>>
    \/ part = "assets" /\ AS!Next
          /\ UNCHANGED <<part, oaVars, otVars, avsInfo, last, store, written, lastOk,
                         mintParams, feeEpoch, feeSigner, lastEnd, rsStore, codecVars, diffVars>>
    \/ part = "avsTypes" /\ AT!Next
          /\ UNCHANGED <<part, oaVars, otVars, avsInfo, last, store, written, lastOk,
                         mintParams, feeEpoch, feeSigner, lastEnd, rsStore, codecVars, assetsVars>>
    \/ CodecTerminated

Spec == Init /\ [][Next]_vars

(***************************************************************************)
(* The properties of each part, as stated in its module.                   *)
(***************************************************************************)
(* OperatorAVSState: the stores hold typed amounts under byte-string keys. *)
OpTypeOK == OA!TypeOK

(* OperatorAVSState: a call that returns an error writes nothing, even     *)
(* when the value update fails after the amount update succeeded.         *)
OpFailedCallWritesNothing == OA!FailedCallWritesNothing

(* OperatorAVSState: the shared totals store, read through the getters,    *)
(* behaves as AVSValueCells: one call changes at most one cell.            *)
OpRefinesCells == OT!RefinesCells

(* AVSPrecompile: the owner lists and the last call are well typed.        *)
AVSTypeOK == A!TypeOK

(* AVSPrecompile: every keeper call of a method acting for its caller      *)
(* names the calling contract as the AVS.                                  *)
AVSActsForCallingContract == A!ActsForCallingContract

(* AVSPrecompile: a method returning a nil error returns its output.       *)
AVSSuccessReturnsOutput == A!SuccessReturnsOutput

(* AVSPrecompile: every event names the account the call was made for.    *)
AVSEventNamesCaller == A!EventNamesCaller

(* DogfoodKeys: every key is a byte string.                                *)
KeysTypeOK == D!TypeOK

(* DogfoodKeys: no write overwrites an entry of another kind or argument.  *)
KeysEntriesKeepTheirKeys == D!EntriesKeepTheirKeys

(* DogfoodKeys: the keys of each numeric kind sort in numeric order.       *)
KeysStoreOrderIsNumericOrder == D!StoreOrderIsNumericOrder

(* EpochParams: the params and the last epoch end are well typed.          *)
ParamsTypeOK == P!TypeOK

(* EpochParams: the stored exomint params always pass Validate.            *)
ParamsMintParamsValid == P!MintParamsValid

(* EpochParams: a valid exomint update, zero reward included, is stored as *)
(* given.                                                                  *)
ParamsValidUpdateKeptAsGiven == P!ValidUpdateKeptAsGiven

(* EpochParams: the fee distribution params change only by the authority.  *)
ParamsFeeParamsByAuthority == P!FeeParamsByAuthority

(* RestakingState: the store is well typed.                               *)
RsTypeOK == R!TypeOK

(* RestakingState: through messages, no sequence of calls makes an amount  *)
(* negative.                                                               *)
RsAmountsNonNegative == R!AmountsNonNegative

(* ProtoCodec: the codec state holds byte strings and Unmarshal results.   *)
CodecTypeOK == C!TypeOK

(* ProtoCodec: neither Marshal nor Unmarshal panics, whatever the bytes.   *)
CodecNoPanic == C!NoPanic

(* ProtoCodec: Unmarshal of concatenated encodings is their protobuf merge, *)
(* whatever the Go map order Marshal used.                                 *)
CodecDecodesToMerge == C!DecodesToMerge

(* AssetsPrecompile: stored address lengths passed the minimum.            *)
AssetsTypeOK == AS!TypeOK

(* AssetsPrecompile: registerToken's split of an oracle-info string in the *)
(* documented format returns its five positional fields as written.        *)
AssetsOracleInfoFieldsKept == AS!OracleInfoFieldsKept

(* AssetsPrecompile: registerToken, updateToken, deposits and the         *)
(* delegation precompile derive one asset address from one asset argument. *)
AssetsParsersAgreeOnAssetAddress == AS!ParsersAgreeOnAssetAddress

(* AssetsPrecompile: the whole oracle info, descriptions included, is      *)
(* returned as written by registerToken.                                   *)
AssetsOracleInfoRoundTrip == AS!OracleInfoRoundTrip

(* AVSTypes: Difference of two lists without repeats is their symmetric    *)
(* difference, sorted, each entry once.                                    *)
AVSTypesDifferenceIsSymmetric == AT!DifferenceIsSymmetric

=============================================================================
