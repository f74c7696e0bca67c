# TLA+ models of exocore

This directory holds TLA+ models of the exocore chain modules under `src/`,
the TLC configurations that check them, and `PROJECT.json`. `PROJECT.json`
lists the components, runs, mutants, definition-to-source map, findings and
hazards. The modelling started with the oracle's price aggregation and
crash-recovery core, which `spec.md` describes. It then grows over the
restaking bookkeeping, which `spec.md` leaves to the code.

## 1. The system and its parts

The oracle module turns validators' price messages into one price per round
of each token feeder. Its parts interact as follows.

* **Aggregator context** (`x/oracle/keeper/aggregator`, not in `src/`;
  spec 4.2) holds three things: the round state of each feeder, the validator
  power table and the active params. It has four primitives:
  * `PrepareRoundEndBlock` places each feeder on its current round;
  * `FillPrice` records a vote;
  * `SealRound` finalizes or closes rounds;
  * `SetParams` and `SetValidatorPowers` replace the snapshots.
* **Cache** (`x/oracle/keeper/cache`, not in `src/`; spec 4.1) has a params
  slot and a validator slot, each with an update flag. `CommitCache` reads the
  flags when it persists the replay markers. `SkipCommit` clears them.
* **Process singletons** (`src/x/oracle/keeper/single.go`):
  * `agc` is the committed context;
  * `agcCheckTx` is the speculative context of the CheckTx path;
  * `cs` is the cache;
  * `common.MaxNonce` is a global that `setCommonParams` sets.

  A crash loses all of them.
* **Recovery** (`single.go`: `GetAggregatorContext`,
  `recacheAggregatorContext`, `initAggregatorContext`). The first access after
  a start rebuilds the context. When the store has no replay markers, it
  initialises the context from the current params and validators. Otherwise
  it replays the persisted messages of the last `common.MaxNonce` blocks, but
  never from before the last validator update block. Each replayed block runs
  three steps in order:
  * the latest params snapshot before that block;
  * `PrepareRoundEndBlock(b-1)`;
  * `FillPrice` of the recorded messages, then `SealRound(b)`.

  After the replay, `PrepareRoundEndBlock(to-1)` runs. A recached cache is
  marked `SkipCommit`.
* **Block pipeline** (msg server, EndBlock and CommitCache; not in `src/`;
  spec 2 and 6):
  * a price message is checked against the context and filled in;
  * EndBlock seals the rounds, applies a validator change and new params,
    and prepares the next rounds;
  * CommitCache persists the block's messages, the params snapshot and the
    validator update block, each only when its cache flag is set;
  * at commit the speculative context is dropped.

The restaking bookkeeping consists of:
* staker asset state;
* delegation state;
* operator/AVS asset state;
* the precompiles that call them.

These parts are reached in two ways:
* Through Cosmos messages. The SDK discards a failed handler's writes.
* Through the EVM precompiles. The delegation precompile's `Run` reports a
  failed method as a successful call returning `false`, so the writes the
  method made before the error are committed.

Section 2 describes `RestakingState`, which models the staker asset state,
the delegation state and the delegation precompile's `Run`, and
`OperatorAVSState`, which models the operator/AVS asset state. Section 6
lists the plan for the rest.

The operator/AVS asset state (`x/operator/keeper/avs_operator_assets_state.go`)
keeps four kinds of amounts in three prefix stores:
* the total value of an operator in an AVS, under `avsAddr/operatorAddr`;
* the total value of an AVS, under `avsAddr`, in the same store;
* the opted-in amount and value of one asset, under
  `assetId/avsAddr/operatorAddr`;
* a staker's share, under `avsAddr/stakerId/operatorAddr`.

`GetJoinedStoreKey` (`x/assets/types/keys.go`) builds the keys by joining
its arguments with "/".

The AVS precompile (`precompiles/avs/tx.go`) is how AVS contracts reach
the AVS keeper. Each method checks its arguments, fills a parameter record,
calls the keeper once, emits an event and returns its packed output. The
AVS address is the calling contract, `contract.CallerAddress`, except in
`registerBLSPublicKey` and `operatorSubmitTask`, which take the operator and
the task contract from the arguments. The keeper itself (`x/avs/keeper`) is
not in the repository. The events (`precompiles/avs/events.go`) log the
caller or operator as an address converted from the bech32 string of the
parameters with `common.HexToAddress`.

The assets precompile's parsers (`precompiles/assets/types.go`) check the
ABI-unpacked arguments of `registerOrUpdateClientChain`, `registerToken`,
`updateToken`, the four deposit and withdrawal methods and
`isRegisteredClientChain`. Three of them first look up the client chain:
its `AddressLength`, set by `registerOrUpdateClientChain`, decides how many
bytes of a 32-byte padded address argument are kept. The delegation
precompile's parser (`precompiles/delegation/types.go`) reads the same
table. `registerToken` also parses an oracle-info string of the documented
form `[tokenName],[chainName],[tokenDecimal](,[interval],[contract](,[ChainDesc:{...}],[TokenDesc:{...}]))`.
The precompiles' `Run`, the assets keeper and the ABI are outside the
repository.

The dogfood module keeps its state in one byte-keyed store. The keys are
built in `x/dogfood/types/keys.go`: a prefix byte per kind of entry (an
`iota` block), followed by an account address or by the 8-byte big-endian
form of a height, epoch or id. Heights and epochs are `int64`, and they go
through `SafeInt64ToUint64`, which refuses negative values. The keeper that
writes this store is not in the repository.

Two modules take their schedule from the epochs module:
* **exomint** keeps `Params {MintDenom, EpochReward, EpochIdentifier}`.
  `InitGenesis` stores them, and panics if the identifier has no epoch
  info. `OverrideIfRequired` builds new params from an update, keeping the
  previous value of every field the update leaves unset or invalid.
* **feedistribution** keeps an epoch identifier. `UpdateParams` replaces
  it when the epoch info exists. Its `AfterEpochEnd` hook allocates the
  collected fees at the end of that epoch.

`MultiEpochHooks` (`x/epochs/types/hooks.go`) calls the hooks in turn at
every epoch end.

The messages of `x/reward/types/types.pb.go`, `x/oracle/types/info.pb.go`
and `x/delegation/types/genesis.pb.go` are encoded by code that gogoproto
generates. Every message has four generated functions, all instances of one
template:
* `Size` computes the encoded length;
* `MarshalToSizedBuffer` writes the fields backwards from the end of a
  buffer of exactly `Size` bytes;
* `Marshal` allocates that buffer and returns `dAtA[:n]`;
* `Unmarshal` reads varint tags, checks each known field's wire type and
  length, merges the field into the receiver, and hands unknown fields to
  `skip`.

Every store value, genesis file and message goes through these functions.

## 2. Modules

| module | models | kind |
|---|---|---|
| `OracleAggregator` | the aggregator context as a record value and its primitives as operators; no variables | library, modelled from the spec |
| `OracleRecovery` | one node across blocks, crashes and restarts: the process singletons, the store, the recovery code of `single.go` and the block pipeline | state machine |
| `RestakingState` | the restaking store of one staker: `UpdateStakerAssetState`, `UpdateStakerDelegationTotalAmount`, `UpdateDelegationState` and the delegation precompile's `Run` | state machine |
| `ProtoCodec` | the gogoproto template (`Size`, `MarshalToSizedBuffer`, `Marshal`, `Unmarshal`, `encodeVarint`, `sov`, `skip`) over one schema per message, and one use of a codec: values marshalled back to back, then the bytes unmarshalled | operators and a state machine |
| `MCProtoCodec` | `ProtoCodec` over `ProtoCodecSamples`, for the map-order violation run | MC module |
| `AVSValueCells` | what the operator/AVS bookkeeping promises: each logical amount is a cell of its own, and one call changes at most one cell | abstract specification |
| `OperatorAVSState` | the three prefix stores of the operator/AVS asset state, every update and getter of `avs_operator_assets_state.go` with its error paths, and `GetJoinedStoreKey`/`ParseJoinedStoreKey`; refines `AVSValueCells` | state machine |
| `MCComponents` | the components that share no state, as a sum: each behaviour picks one `part` and only that one moves, so the states are the sum of theirs and each part's properties hold trivially in the others' behaviours. Instances: `OA`, OperatorAVSState with one AVS, asset and staker (the asset-state and share stores); `OT`, OperatorAVSState with AVS names "a" and "ac" and operator "c", whose keys would meet without the delimiter (the shared totals store and the refinement); an empty operator argument in both. `A`, AVSPrecompile with two calling contracts, two accounts, the zero address and one name. `D`, DogfoodKeys with two-byte integers, heights -1, 0, 255 and 256, ids 1 and 256, two addresses and at most three entries. `P`, EpochParams with a valid and an invalid denom, rewards nil, -1, 0 and 20, identifiers "day", "week" (with epoch info), "hour" (well formed, no info) and "", the authority and one other signer. `R`, RestakingState on the message path, with one asset, two operators and amounts up to 2. `C`, ProtoCodec over `ProtoCodecSamples`. `AS`, AssetsPrecompile with one chain, address lengths 0 to 3 around the minimum 2, name and meta-info limits 1, byte arguments of 0, 1 and 3 bytes, amounts 0 and 1, and oracle infos of 3, 5 and 7 fields, one with a comma in its token description. `AT`, AVSTypes with three names and lists of up to two | MC module |
| `AVSPrecompile` | the nine methods of the AVS precompile, with the keeper's answers left free and the AVS owner lists the keeper stores | state machine |
| `DogfoodKeys` | every key function of the dogfood module, its prefix bytes and `SafeInt64ToUint64`, and a store written through them | operators and a state machine |
| `EpochParams` | the exomint params (`Validate`, `OverrideIfRequired`, `Equal`, `InitGenesis`) and the feedistribution params with their epoch-end hook | state machine |
| `ProtoCodecSamples` | the sample values and raw inputs of the codec, shared by `MCProtoCodec` and `MCComponents` | data |
| `AssetsPrecompile` | every parser of the assets precompile and the delegation precompile's `GetDelegationParamsFromInputs`, as operators, called by one action per method over the stored client-chain address lengths | state machine |
| `AVSTypes` | `Difference` of `x/avs/types/types.go` as an operator, and one call of it per step | operators and a state machine |
| `MCOracleRecovery` | model values: one feeder (start 1, interval 3), two validators of unequal power, two params snapshots, two power tables; the action constraint of the recovery run | MC module |

### OracleRecovery: state and actions

Variables:
* `height`.
* Process memory, lost on a crash:
  * `agc` and `agcCheckTx`;
  * `commonMaxNonce`;
  * `cs`;
  * `blockMsgs` and `blockParams`, the uncommitted parts of the current
    block.
* The store:
  * `paramsCur` and `powersCur`;
  * `recentParams` and `recentMsgs`, the replay history keyed by height;
  * `valUpdateBlock`;
  * `prices`, the finalized round results.
* A ghost (`live`, `liveMaxNonce`, `livePrices`, `lastValChange`,
  `liveAtBlockStart`) for the same node had it never crashed. It takes the
  same live steps and never replays, so comparing the two shows whether
  recovery is exact.

Actions:

| action | code |
|---|---|
| `GetAggregatorContext` | the deliver path of `GetAggregatorContext`: `Rebuild` (ResetCaches, then `recacheAggregatorContext` or `initAggregatorContext`) and `SkipCommit` |
| `CheckTxGetContext` | the CheckTx path: `Copy4CheckTx` of `agc`, or a rebuild into `agcCheckTx` when no `agc` exists yet |
| `CheckTxPrice` | the CheckTx check of a price against `agcCheckTx` and its fill |
| `DeliverPrice` | the deliver check of a price and its fill; the message is kept for CommitCache |
| `UpdateParams` | a params update: stored at EndBlock, and put in the cache at once |
| `EndBlock(t)` | EndBlock on the context (seal, validator change `t`, params, prepare), CommitCache, `ResetAggregatorContextCheckTx` and the next height |
| `Crash` | a process restart: the singletons are reset, the uncommitted block is dropped and the ghost rolls back to the block start |

The replay is an operator, not a sequence of steps:
* `ReplayFrom` computes the window start;
* `AdvanceParams` is the params loop;
* `ReplayBlock` replays one block;
* `ReplayBlocks`, which is RECURSIVE, replays the window;
* `ReplayWindow` covers the from >= to branch;
* `Recache` covers the final re-apply of the current params.

This way the whole of `recacheAggregatorContext` is one step, as in the code.

`Spec` assumes no fairness (see Fairness in section 3).

### RestakingState: state and actions

`store` is the committed store. It holds three things:
* `stakerAsset[a]`, the three amounts of `StakerSingleAssetOrChangeInfo`;
* `delegationTotal[a]`;
* `delegationState[a, op]`, the undelegatable and pending amounts per
  operator.

The keeper functions are operators from a store to a result and a new store.
* `ApplyChange` is the per-amount rule: a nil change is skipped, and a
  decrease larger than the amount is an error.
* `UpdateStakerAssetState` checks the three fields in turn and writes once,
  at the end.
* `UpdateDelegationState` folds `DelegationStep` over the map's keys. Each
  step checks and writes one operator, and the first error stops the fold.
* `Run(s, r, path)` is what a caller commits: the old store after an error
  on the message path, and the written store otherwise.

Each action (`CallUpdateStakerAssetState`, `CallUpdateStakerDelegationTotalAmount`,
`CallUpdateDelegationState`) is one call on the message or the precompile
path. The callers of the first two are not under `src/`; the model lets them
pass any argument from the bounded sets. The only producer under `src/` of a
delegation argument, `GetDelegationParamsFromInputs`
(`precompiles/delegation/types.go`), yields a map of one operator that has
passed the bech32 parse, so `CallUpdateDelegationState` passes a one-key map
of a valid operator. Go's random map order therefore plays no part.

### OperatorAVSState: state and actions

A string is a tuple of one-character strings, so "/" inside a key can be
seen. Each store is a function from the keys written so far:
* `totalValueStore` for `KeyPrefixAVSOperatorAssetsTotalValue`;
* `assetStateStore` for `KeyPrefixOperatorAVSSingleAssetState`;
* `shareStore` for `KeyPrefixAVSOperatorStakerShareState`.

`lastErr` is the error the last call returned. Each of the four updates is
one action with the whole handler, in this order:
* the nil/zero early return;
* the operator check (empty for the total, bech32 for the asset state);
* the read with its default;
* `UpdateAssetValue` (for the asset state, on the amount and then the value);
* the single `Set`.

A failing check is a step that sets `lastErr` and writes nothing.
`UpdateAssetValue` and `UpdateAssetDecValue` are outside the repository and
follow the rule of `UpdateStakerAssetState`: a nil change is skipped, and a
decrease below zero is an error.

The getters are operators, each returning the stored value or
`ErrNoKeyInTheStore`. The refinement mapping reads every cell of
`AVSValueCells` through its getter, and a missing key reads as zero.
`RefinesCells` is `AVSValueCells!Spec` as a property.

### AVSPrecompile: state and actions

An address is a model value. Its bech32 string (`sdk.AccAddress(a[:]).String()`)
and its hex string (`common.Address.String()`) are tagged pairs, so they are
injective and never equal each other. An error is `NilErr` or a name, and
`Wrap` keeps a nil error nil, as `errorsmod.Wrap` does.

The state has two variables:
* `avsInfo` is the owner list stored for each AVS address, or `NoInfo`.
  `UpdateAVSInfo` writes it and `GetAVSInfo` reads it. Registration and
  update store the owner list of the parameters, and deregistration removes
  the entry.
* `last` is the last call: its method, its calling contract, the parameters
  it handed to the keeper (or `NoCall`), its error and its output.

Each method is one action, with its checks in the code's order. The
zero-address and empty-string checks are modelled. The `!ok` halves of the
type assertions are not, since ABI unpacking gives every argument its
declared type. What the keeper answers is a free choice (`ok`), because its
checks are not in the repository. The argument parsers
`GetAVSParamsFromInputs`, `GetAVSParamsFromUpdateInputs` and
`GetTaskParamsFromInputs` are also outside the repository. Their result is
a free choice of an error or parsed arguments.

After a successful keeper call the method emits its event: `EventOf` picks
the emitter of `events.go`, and `EmitEvent` keeps the event's name and its
address argument, which `HexToAddress` computes from the parameters' bech32
string. `HexToAddress` of a bech32 string reads no hex digit and is the zero
address; of a hex string it is the address.

### AssetsPrecompile: state and actions

A name or meta-info string is kept as its length, the only thing the
parsers check. A byte argument is a sequence of bytes, and an address cut
to the chain's length is its prefix (`CutAddress`); `hexutil.Encode` is a
tag. The oracle-info string is a sequence of symbols: words, "," and the
markers "ChainDesc:{", "TokenDesc:{" and "}". `SplitComma` is
`strings.Split` (a fold over the symbols), `FindStringSubmatch` is the lazy
regular expression `<marker>(.+?)}` (the leftmost marker, at least one
symbol, up to the first "}" after it), and `ParseOracleInfo` is the
`switch` with its fall-throughs.

The state has two variables:
* `chains`, the `AddressLength` stored for each chain id, or `NoChain`;
* `last`, the last call: its method, error, parsed output and oracle-info
  argument.

Each method is one action that calls its parser with the checks in the
code's order: the chain lookup (`ErrNoClientChainKey` for an unknown
chain), the address lengths, the name and meta-info lengths, the amount and
the oracle info. `registerOrUpdateClientChain` stores the parsed length,
also over the length of a chain already registered.

### DogfoodKeys: state and actions

A key is a sequence of bytes, and an entry is a kind with its argument.
`KeyOf` applies the key function of the entry's kind. `Uint64ToBigEndian`
writes `Uint64Bytes` bytes, most significant first, each reduced modulo 256.
The code writes 8 bytes; the model uses two. An `int64` has the same width
plus a sign.

The state is the store (key to entry), the set of entries written, and
whether the last key function returned ok. The single action `Write(e)`
builds the key of `e`. When the key is ok, `Write(e)` stores `e` under it.
A negative height makes the key function return `(nil, false)`, and nothing
is written. Past `MaxWrites` distinct entries, only entries already written
are written again. The callers are outside the repository, so any entry may
be written at any time.

### EpochParams: state and actions

The state has four variables:
* `mintParams`, the stored exomint params;
* `feeEpoch`, the feedistribution epoch identifier;
* `feeSigner`, the `Authority` field of the message that last set
  `feeEpoch`;
* `lastEnd`, the last epoch end and whether it allocated fees.

`sdk.ValidateDenom` and `ValidateEpochIdentifierString` are outside the
repository. The denoms and identifiers they accept are constants.

`Init` is `InitGenesis`. It starts from a genesis whose params pass
`Validate`, since genesis validation happens outside the repository, and
whose identifier has an epoch info (otherwise the node panics).

There are three actions:
* `UpdateMintParams(p)` stores `OverrideIfRequired(p, mintParams)`. The
  update handler is not in the repository, and this is what
  `OverrideIfRequired` is written for.
* `UpdateParams(signer, id)` is the feedistribution message handler, with
  no authority check. It is disabled when `id` has no epoch info
  (`ErrEpochNotFound`).
* `AfterEpochEnd(id)` allocates fees when `id` equals `feeEpoch`.
  `AllocateTokens` is outside the repository.

### ProtoCodec: state and actions

A message value is a tuple indexed by field number. A string or bytes field
is a tuple of bytes, and a `map<uint64,string>` is a function from keys. A
nil pointer is `Null`. Each message's generated code corresponds to its
schema: the field numbers, their wire types, and how each field is stored
(scalar, string, repeated, map, non-nullable, nullable or repeated embedded
message). The four functions are operators written once over the schema.
* `MarshalToSizedBuffer` keeps `[out, i, size, ok]`, where `out` is
  `dAtA[i:size]` and the bytes below `i` are zeros. Every write checks the
  buffer bounds, and a write out of range is a panic. An embedded message is
  marshalled into `dAtA[:i]`, as in the code.
* `Unmarshal` follows the generated loop step by step:
  * the varint loop with its `shift >= 64` and end-of-input checks;
  * the wire-type and tag checks;
  * the length checks (`< 0`, `postIndex < 0`, `postIndex > l`), with the
    index arithmetic wrapping at the width of `int`;
  * the map-entry loop, whose reads are bounded by `l` and not by
    `postIndex`, and whose `mapkey |=` accumulates;
  * `skip` with its group depth.
  Every step returns an error name or the index reached. A slice with
  bounds out of range is the result `Panic`.

Integers keep their width, scaled down. `IntBits` = 13 stands for the 64
bits of `int`/`uint64`: both 13 and 64 leave the last varint byte only
partly used. `Int32Bits` = 6 stands for 32, so an encoded `int32` is
sign-extended and then truncated, as in the code.

The actions are one use of a codec:
* `MarshalNext` marshals the next value. The set `desc` chooses Go's map
  order (ascending or descending keys).
* `UnmarshalWire` decodes all the bytes into a fresh value.
* `ReencodeDecoded` marshals again a value decoded from raw bytes.

`MergeRef` is the reference: protobuf's merge rule, written directly.

## 3. Runs

| run | cfg | expect | what it shows |
|---|---|---|---|
| recovery_exact | `MCOracleRecovery.cfg` | pass | With a fixed validator set, every restart whose replay window holds at least one block rebuilds exactly the live context and `common.MaxNonce` (`RecoveredContextMatchesLive`). The CheckTx context always has the committed params, powers and round status (`SpeculativeRoundsMatchCommitted`). |
| validator_switch | `MCOracleRecovery_Switch.cfg` | pass | With validator-set changes, `valUpdateBlock` always names the last real change. `SkipCommit` keeps restarts from moving the replay start (`ReplayMarkerIsLastChange`). |
| components | `MCComponents.cfg` | pass | OperatorAVSState: a call that returns an error writes nothing, even when the value update fails after the amount update succeeded (`OpFailedCallWritesNothing`); the AVS totals and the AVS-operator totals share one store, and even with AVS names "a" and "ac" and operator "c" every call changes at most one amount read through the getters, so the keeper implements `AVSValueCells` (`OpRefinesCells`). AVSPrecompile: every keeper call of a method that acts for its caller names the calling contract as the AVS (`AVSActsForCallingContract`). DogfoodKeys: no write overwrites an entry of another kind or argument (`KeysEntriesKeepTheirKeys`); the keys of each height-, epoch- or id-keyed kind sort in numeric order (`KeysStoreOrderIsNumericOrder`). EpochParams: after a valid genesis no sequence of exomint updates stores params that fail `Validate` (`ParamsMintParamsValid`); an update that passes `Validate`, a zero reward included, is stored exactly as given (`ParamsValidUpdateKeptAsGiven`). RestakingState on the message path: no amount goes negative over any sequence of calls (`RsAmountsNonNegative`). ProtoCodec: no input of up to three bytes, and no sample value, makes `Unmarshal` or `Marshal` panic (`CodecNoPanic`); decoding the concatenated encodings of one or two values gives their protobuf merge (`CodecDecodesToMerge`). AssetsPrecompile: the five positional fields of an oracle info in the documented format come back from `registerToken` as written (`AssetsOracleInfoFieldsKept`); under every reachable chain table, `registerToken`, `updateToken`, an LST deposit and a delegation derive the same asset address from the same argument (`AssetsParsersAgreeOnAssetAddress`). AVSTypes: on two lists without repeats, `Difference` returns their symmetric difference, sorted, each entry once (`AVSTypesDifferenceIsSymmetric`). Plus the type invariant of each part except AVSTypes. |
| avs_event_caller | `MCComponents_Events.cfg` | violation | A `registerAVS` by any account emits `AVSRegistered` with the zero address as caller (finding 7). |
| oracle_info_desc | `MCComponents_OracleInfo.cfg` | violation | A token description `d,e` in the oracle-info argument of `registerToken` is returned as `de` (finding 8). |
| avs_register_silent_success | `MCComponents_Silent.cfg` | violation | A `registerAVS` call by a caller missing from the owner list returns a nil error and no output, and registers nothing (finding 5). |
| fee_params_authority | `MCComponents_Authority.cfg` | violation | A `MsgUpdateParams` whose `Authority` is not the keeper's authority still replaces the fee distribution epoch (finding 6). |
| proto_map_order | `MCProtoCodec_MapOrder.cfg` | violation | `Endpoint.Marshal` writes map entries in Go's map order, so one `Source` has two encodings (finding 4). |
| restart_after_marker | `MCOracleRecovery_FromEqTo.cfg` | violation | A restart in the block after the last marker block takes the from >= to branch and has no rounds (finding 1). |
| stale_max_nonce | `MCOracleRecovery_StaleMaxNonce.cfg` | violation | With a process default of `common.MaxNonce` (2) below the stored maxNonce (3), the window is too short and a vote is lost (finding 2). |
| switch_reopens_round | `MCOracleRecovery_SwitchReopen.cfg` | violation | A round force-sealed at a validator change is reopened by the replay, and the restarted node persists a price the network never finalized (finding 3). |

Findings are numbered in the order of `PROJECT.json`:
1. `single.go:98`: the from >= to branch of `recacheAggregatorContext`
   never prepares rounds.
2. `single.go:67`: the replay window is computed from the process-wide
   `common.MaxNonce` before the stored params set it.
3. `single.go:123`: the replay reopens a round that was force-sealed at a
   validator change.
4. `info.pb.go:469`: `Endpoint.Marshal` is not deterministic: the map
   entries follow Go's map iteration order. Spec section 1 requires
   byte-for-byte determinism across nodes. No code under `src/` stores a
   `Source` or an `Endpoint`, so whether these bytes reach state is decided
   outside `src/`.
5. `precompiles/avs/tx.go:47`: `RegisterAVS` refuses a caller that is not
   in the owner list by returning `errorsmod.Wrap(err, ...)`. At that point
   `err` is the nil error of the successful parse, and `Wrap(nil, ...)` is
   nil, so the method returns `(nil, nil)`. The EVM call succeeds with empty
   output, and nothing is registered.
6. `x/feedistribution/keeper/msg_update_params.go:15`: the authority check
   of `UpdateParams` is commented out ("For test purpose, skip for now").
   Any signer can change the fee distribution params.
7. `precompiles/avs/events.go:57`: every emitter converts the bech32
   caller or operator string with `common.HexToAddress`, which yields the
   zero address, so the AVS events never name the account.
8. `precompiles/assets/types.go:213`: `TokenFromInputs` joins the fields
   after the fifth with "" before matching the descriptions, so a comma in
   a chain or token description is lost.

The recovery_exact run constrains restarts with `RestartReplaysABlock`: no
restart in the block right after the last marker block. That case is
exactly finding 1, which has its own run. Without the constraint, the run
would report only that finding and check nothing else.

### Bounds and why they are enough

The runs use the following bounds:
* one feeder, with interval 3 and start 1;
* `MaxHeight` 5, which covers two rounds (based 1 and 4);
* two validators of powers 2 and 1 (or 1 and 2 after a switch), so one
  validator alone can finalize under `pa` but not under `pb`;
* prices {1, 2}, so votes can disagree (the validator_switch run uses {1},
  since its property concerns the replay markers, not the prices);
* snapshot `pa`, with maxNonce 2 and thresholds 50/60;
* snapshot `pb`, with maxNonce 3 and thresholds 50/100, so a params update
  changes both the window and the finality rule.

These bounds are enough for three reasons:
* Restarts happen at every height. Replay windows hold one or two blocks,
  some with recorded votes and some with a params snapshot taking effect in
  the window.
* The from >= to, stale-window and validator-switch cases all occur within
  these bounds.
* A height of 6 gives the same verdicts at four times the cost.

The restaking part of the components run uses the following bounds:
* one asset, and amounts up to `MaxAmount` 2;
* changes of +1 and -1, and nil fields;
* delegation arguments of one of two operators.

Every check is per amount or per operator, so a second asset would only
repeat the first, and two operators give two independent delegation states.

The codec part of the components run uses the following bounds:
* the widths 13 and 6 described in section 2;
* raw inputs of up to three bytes over 17 byte values:
  * tags of fields 1, 2 and 4;
  * tags of field 3 with every wire type, since field 3 is unknown to most
    messages and goes to `skip`;
  * 0x7f and 0xff (a two-byte varint with all 13 bits set, i.e. a length
    of -1);
  * 0x80 (an unfinished varint);
  * 0 and 1;
* two sample values per message type, encoded alone or back to back.

Within three bytes the model reaches every error of the generated loop:
* a negative length;
* a length past the end;
* varint overflow;
* an end group without a start;
* a group skipped whole;
* a wrong wire type for a known field;
* tag 0;
* an unknown field of every wire type.

The samples set every kind of field, including:
* a two-byte `ChainID`;
* a negative `Decimal`, which takes the full width;
* two map keys, one needing a two-byte varint;
* a repeated message whose element is all defaults;
* an empty repeated string.

A map entry with the key field twice needs six bytes and is not reached
(see the hazards in `PROJECT.json`).

The operator/AVS stores never read each other, so two instances check them
apart. Together, the two runs fire all four updates.
* The totals run uses AVS names "a" and "ac" with operator "c". These are
  the smallest names for which the keys would collide without the
  delimiter.
* Amounts are bounded by 1 in the assets run and by 2 in the totals run.
  Both bounds allow a decrease that fails and one that succeeds.
* The changes are nil, 0, 1 and -1. Nil and 0 cover the two early returns,
  and -1 covers the failing decrease.
* The operator is either valid or empty. The empty operator is rejected by
  both the empty check and the bech32 check.

The AVS precompile run uses two calling contracts, so that one contract
could reach another's AVS. It uses two accounts and the zero address, so
an owner list can hold either account, both or neither, and every
zero-address check fires. Every owner-list change is one call, and
`updateAVS` needs one earlier registration, so a depth of 7 covers
register, update by the owner, refused update and re-update.

The dogfood run uses two-byte integers with heights -1, 0, 255 and 256.
These are the boundaries where a key can go wrong:
* the sign (-1 against 0);
* the carry into the next byte (255 against 256). A reversed byte order
  sorts 256 before 255, and an unmasked byte leaves 0..255.

Three entries are enough for two entries of one kind and a third of
another.

The params run covers every branch of `OverrideIfRequired` and `Validate`:
one valid and one invalid value per field, and for the reward the four
classes nil, negative, zero and positive. Every update is one step from any
stored params, so the 120 reachable states hold every combination of the
stored fields.

### Fairness

No run checks a liveness property, and no specification assumes fairness.
Blocks are produced by the consensus engine, not by this code, and what the
code must get right is safety: a restarted node rebuilds the context that a
node without a restart holds. `SealOnValidatorUpdate` even force-closes a
finalizable round without a price at a validator-set change, by the code's
choice, so "every round that reaches the thresholds gets a price" is not a
promise of the code.

Deadlock is checked: at `MaxHeight` a node can still crash and restart.

The components run (`MCComponents.cfg`) checks the independent
components in one run of about 62,000 distinct states, most of them the
codec's initial states. Each part's bounds are given
with `MCComponents` in section 2. They reach the cases the properties are
about: keys of two AVS names that would meet without the delimiter, an
empty operator, a failing value update after a successful amount update,
an owner present only in the new arguments, negative heights and heights
past one byte, a zero and a negative reward, an identifier that is well
formed but has no epoch info, and a signer other than the authority.
Deadlock is checked: every part can always take another call (a dogfood
entry already written can be written again after `MaxWrites`). The
mutants of these components are checked under this run. They substitute
the mutated definition into both OperatorAVSState instances.

One use of a codec is a bounded computation: it ends after its last
`Unmarshal`. In the components run its final state repeats
(`CodecTerminated`, a stuttering step enabled exactly when no codec step
is), so deadlock stays checked for every other part. The map-order run of
`MCProtoCodec` sets `CHECK_DEADLOCK FALSE` for the same reason.

The assets part uses one chain: the properties compare parsers under one
chain's length, and a second chain only repeats the first. Address lengths
0, 1, 2 and 3 with minimum 2 hit the zero check, the minimum check and two
stored lengths; byte arguments of 0, 1 and 3 bytes are shorter than both
lengths, or longer and cut. Oracle infos of 3, 5 and 7 fields take each
case of the `switch`; the 7-field info with "d,e" as token description is
the one whose comma is lost, and a 3-symbol string with two fields is
refused.

## 4. Mutants

Each property of a passing run is broken by a plausible bug in the code it
is about:

| property | mutant |
|---|---|
| `TypeOK` | `PrepareRoundEndBlock` without the started-feeder check; the base block underflows at height 1 |
| `RecoveredContextMatchesLive` | the params loop with `b <= from` instead of `b < from` |
| `SpeculativeRoundsMatchCommitted` | the CheckTx context kept across a commit |
| `ReplayMarkerIsLastChange` | no `SkipCommit` after a recache |
| `RsTypeOK` | `UpdateStakerAssetState` stores the change record instead of the updated state |
| `RsAmountsNonNegative` | `ApplyChange` without the check against the current amount |
| `CodecTypeOK` | `encodeVarint` without its `v >= 1<<7` loop, storing a value above 255 in one byte |
| `CodecNoPanic` | the length read without its `< 0` check |
| `CodecDecodesToMerge` | a map entry for a key already present is dropped instead of replacing the old value |
| `OpTypeOK` | `UpdateOperatorAVSAssetsState` stores the change argument instead of the updated state |
| `OpFailedCallWritesNothing` | the amount is written before the value update is checked |
| `OpRefinesCells` | `GetJoinedStoreKey` concatenating without the "/" delimiter |
| `KeysTypeOK` | `Uint64ToBigEndian` without the reduction modulo 256 |
| `KeysEntriesKeepTheirKeys` | `HeaderBytePrefix` reusing the byte of `ValidatorSetIDBytePrefix` |
| `KeysStoreOrderIsNumericOrder` | `Uint64ToBigEndian` writing the least significant byte first |
| `ParamsTypeOK` | `Params.Copy` inside `OverrideIfRequired` leaving out `EpochIdentifier` |
| `ParamsMintParamsValid` | `OverrideIfRequired` overriding only a nil reward, not a negative one |
| `ParamsValidUpdateKeptAsGiven` | `OverrideIfRequired` treating a zero reward as unset |
| `AVSTypeOK` | the AVS's own address filled in as its owner list |
| `AVSActsForCallingContract` | `BindOperatorToAVS` with the operator and AVS fields swapped |
| `AssetsTypeOK` | `ClientChainInfoFromInputs` without the `MinClientChainAddrLength` check |
| `AssetsOracleInfoFieldsKept` | the `l >= 5` case of the oracle-info switch not falling through to the interval |
| `AssetsParsersAgreeOnAssetAddress` | `GetDelegationParamsFromInputs` keeping the padded asset address |
| `AVSTypesDifferenceIsSymmetric` | `Difference` without the `delete` of an entry of b found in the map |

## 5. Not modelled, and why

* **Nonce bookkeeping.** Per-validator nonces, MaxDetID, several price
  sources per message, and decimals are left out. The model keeps one
  price per validator per round. No property here depends on their detail,
  and duplicate votes are already ignored by `FillPrice`.
* **updatedFeederIDs** (`single.go:14, 210-222`) is left out. It only feeds
  events emitted outside `src/`.
* **Generated protobuf plumbing.** Left out:
  * the `XXX_` methods, including the deterministic `XXX_Marshal` path;
  * the file descriptors and type registration;
  * `MarshalTo` and the getters.

  These call the protobuf runtime, which is outside the repository, or they
  are data. Messages of other packages (`sdk.Coin`, `DelegationAmounts`,
  `UndelegationRecord`, `DelegatedSingleAssetInfo`) are generated by the
  same template and are abstracted to one string field.
* **Oracle store key encoding** (`key_recent_msg.go`) is left out. The model keeps
  maps from height to messages.

* **The AVS keeper** (`x/avs/keeper`) is not in the repository. Its
  answers are free in `AVSPrecompile`. So whether `deregisterAVS` (which
  says "validates that this is owner" but checks nothing) lets a non-owner
  deregister cannot be decided here.
* **The assets keeper and `Run`** of the assets precompile are not in the
  repository. Whether `SetClientChainInfo` refuses to change the address
  length of a chain that already has tokens cannot be decided here.
* **Of an AVS event** only the name and the address argument are kept; the
  other arguments are copied from the parameters unchanged, and `emitEvent`
  cannot fail on the types it packs.
* **AVS types** (`x/avs/types`). Of `types.go` only `Difference` is
  modelled. `ChainIDWithoutRevision` depends on the IBC client's
  revision-format regular expression, which is outside the repository.
  `GenerateAVSAddr` and the task-response digests hash with Keccak-256
  over JSON or ABI encodings, out of TLC's reach. No caller of `Difference`
  is in the repository, so `AVSTypesDifferenceIsSymmetric` checks lists
  without repeats. On a list with repeats it is not the symmetric
  difference: `Difference([x], [x, x])` is `[x]`. This is listed as a
  hazard. `stage.go` and `utils.go` are declarations only; both declare `OperatorOptParams`, `TaskInfoParams` and other
  types in the same package, so the package does not compile as it stands.

## 6. Plan

1. Done: the oracle recovery core and the CheckTx path (this section's
   modules).
2. Done: `RestakingState`, covering the staker asset state, the delegation
   state and the delegation precompile's `Run`. Done: `OperatorAVSState`,
   covering the operator/AVS asset state with its refinement of
   `AVSValueCells`.
3. Done: the AVS precompile methods (`AVSPrecompile`).
4. Done: the generated protobuf codecs (`ProtoCodec`).
5. Done: exomint and feedistribution params (`EpochParams`) and the dogfood
   keys (`DogfoodKeys`). Left: the remaining assets key helpers (`ParseID`,
   `ValidateID`), which nothing under `src/` calls.
6. Done: the AVS precompile events and the assets and delegation
   precompile parsers (`AssetsPrecompile`).
7. Done: `Difference` of the AVS types (`AVSTypes`).
8. An abstract no-crash oracle specification. `OracleRecovery` would be
   shown to refine it under a refinement mapping, over the restarts that the
   findings leave correct.
