-------------------------- MODULE AssetsPrecompile --------------------------
(***************************************************************************)
(* The argument parsers of the assets precompile                            *)
(* (precompiles/assets/types.go) and the methods that call them.  Each     *)
(* parser checks the ABI-unpacked arguments in order and returns at the     *)
(* first failed check; three of them first look up the client chain, whose  *)
(* AddressLength decides how many bytes of an address argument are kept.    *)
(* The precompile's Run and the assets keeper are not in this repository:   *)
(* the only keeper state kept is the AddressLength stored for each chain   *)
(* by registerOrUpdateClientChain, which a successful parse stores.         *)
(*                                                                         *)
(* ABI unpacking hands every argument over with its declared type and     *)
(* count, so the `!ok` and argument-count checks never fire.  A name or    *)
(* meta-info string is kept as its length, the only thing checked of it.    *)
(* The oracle-info string is a sequence of symbols: words, "," and the     *)
(* markers "ChainDesc:{", "TokenDesc:{" and "}".                            *)
(*                                                                         *)
(* The delegation precompile's parser (precompiles/delegation/types.go)   *)
(* reads the same client-chain table and cuts its address arguments the   *)
(* same way; it is modelled here beside the assets parsers.                *)
(***************************************************************************)
EXTENDS Integers, SequencesExt

CONSTANTS
    ChainIDs,                     \* uint32 client chain ids
    AddrLengthArgs,               \* uint8 addressLength arguments
    MinClientChainAddrLength,     \* assetstypes.MinClientChainAddrLength
    MaxChainTokenNameLength,      \* assetstypes.MaxChainTokenNameLength
    MaxChainTokenMetaInfoLength,  \* assetstypes.MaxChainTokenMetaInfoLength
    ByteArgs,                     \* []byte arguments (asset, staker, pubkey)
    Amounts,                      \* *big.Int opAmount arguments
    OracleInfos,                  \* well-formed oracle infos a caller encodes
    BadOracleStrings,             \* oracle-info strings with too few fields
    NoChain,                      \* no ClientChainInfo stored for the id
    NilErr                        \* a nil error

StringLengths == 0 .. MaxChainTokenNameLength + MaxChainTokenMetaInfoLength

(* The operator []byte argument of delegate and undelegate: a bech32       *)
(* string of ExoCoreOperatorAddrLength bytes, one of another length, and   *)
(* one of the right length AccAddressFromBech32 rejects.                    *)
OperatorArgs == {"valid", "wrongLength", "invalid"}

DelegationMethods == {"delegate", "undelegate"}

DepositWithdrawMethods == {"depositLST", "withdrawLST", "depositNST", "withdrawNST"}

(* hexutil.Encode: injective, so the bytes are kept under a tag.           *)
HexEncode(b) == <<"0x", b>>

(* assetstypes.GenerateNSTAddr (outside this repository): the virtual     *)
(* native-restaking address of a chain's address length.                   *)
GenerateNSTAddr(len) == <<"nst", len>>

(* An OracleInfo with no field set.                                        *)
EmptyOracleInfo ==
    [tokenName |-> <<>>, chainName |-> <<>>, decimal |-> <<>>, interval |-> <<>>,
     contract |-> <<>>, chainDesc |-> <<>>, tokenDesc |-> <<>>]

(* strings.Split(s, ","): the pieces between commas, one more than there   *)
(* are commas.                                                              *)
SplitComma(s) ==
    FoldLeft(LAMBDA acc, c : IF c = ","
                             THEN Append(acc, <<>>)
                             ELSE [acc EXCEPT ![Len(acc)] = Append(@, c)],
             <<<<>>>>, s)

(* regexp `<open>(.+?)}`.FindStringSubmatch: Go takes the leftmost match; *)
(* from the first `open` the lazy group takes at least one symbol and ends *)
(* at the first "}" after it.  A later `open` cannot match when the first *)
(* does not.  `found` is len(match) = 2.                                    *)
FindStringSubmatch(s, open) ==
    LET i == SelectInSeq(s, LAMBDA x : x = open)
        J == {j \in (i + 2) .. Len(s) : s[j] = "}"}
    IN  IF i = 0 \/ J = {} THEN [found |-> FALSE, sub |-> <<>>]
                           ELSE [found |-> TRUE, sub |-> SubSeq(s, i + 1, Min(J) - 1)]

(* Mutant: the l >= 5 case does not fall through to the interval.        *)
ParseOracleInfoNoFallthrough(str) ==
    LET parsed == SplitComma(str)
        l      == Len(parsed)
    IN  IF l < 3 THEN [err |-> "ErrInvalidOracleInfo", info |-> EmptyOracleInfo]
        ELSE [err |-> NilErr,
              info |-> [EmptyOracleInfo EXCEPT !.tokenName = parsed[1], !.chainName = parsed[2],
                        !.decimal = parsed[3], !.interval = IF l = 4 THEN parsed[4] ELSE <<>>,
                        !.contract = IF l >= 5 THEN parsed[5] ELSE <<>>]]

(* The oracle-info switch of TokenFromInputs: the fields after the fifth  *)
(* are joined with "" and searched for the two descriptions; the cases    *)
(* fall through to the contract, the interval and the first three fields. *)
ParseOracleInfo(str) ==
    LET parsed == SplitComma(str)
        l      == Len(parsed)
        joined == FlattenSeq(SubSeq(parsed, 6, l))
        tokenDesc == FindStringSubmatch(joined, "TokenDesc:{")
        chainDesc == FindStringSubmatch(joined, "ChainDesc:{")
    IN  IF l < 3 THEN [err |-> "ErrInvalidOracleInfo", info |-> EmptyOracleInfo]
        ELSE [err |-> NilErr,
              info |-> [tokenName |-> parsed[1], chainName |-> parsed[2], decimal |-> parsed[3],
                        interval  |-> IF l >= 4 THEN parsed[4] ELSE <<>>,
                        contract  |-> IF l >= 5 THEN parsed[5] ELSE <<>>,
                        chainDesc |-> IF l > 5 /\ chainDesc.found THEN chainDesc.sub ELSE <<>>,
                        tokenDesc |-> IF l > 5 /\ tokenDesc.found THEN tokenDesc.sub ELSE <<>>]]

(* The documented format of the argument (types.go, above the matchers):  *)
(* '[tokenName],[chainName],[tokenDecimal](,[interval],[contract]          *)
(*  (,[ChainDesc:{...}],[TokenDesc:{...}]))', for 3, 4, 5 or 7 fields.     *)
JoinComma(fs) ==
    FlattenSeq([k \in 1 .. Len(fs) |-> IF k = 1 THEN fs[k] ELSE <<",">> \o fs[k]])

FormatOracleInfo(o) ==
    LET positional == <<o.tokenName, o.chainName, o.decimal, o.interval, o.contract>>
        descs == <<<<"ChainDesc:{">> \o o.chainDesc \o <<"}">>,
                   <<"TokenDesc:{">> \o o.tokenDesc \o <<"}">>>>
    IN  JoinComma(IF o.fields = 7 THEN positional \o descs
                                  ELSE SubSeq(positional, 1, o.fields))

OracleInfoArgs == {FormatOracleInfo(o) : o \in OracleInfos} \cup BadOracleStrings

VARIABLES
    chains,  \* ChainIDs -> AddressLength, or NoChain: the stored ClientChainInfo
    last     \* the last call: method, error, parsed values and the oracle argument

vars == <<chains, last>>

NoValue == "none"

(* GetClientChainInfoByIndex: the keeper's error for an unknown chain.      *)
ChainLookupErr(id) == IF chains[id] = NoChain THEN "ErrNoClientChainKey" ELSE NilErr

(* An address argument cut to the chain's address length; the shorter ones *)
(* are refused with ErrInvalidAddrLength.                                   *)
CutAddress(b, len) == SubSeq(b, 1, len)

(***************************************************************************)
(* The parsers.  Each returns [err, ...]; a non-nil err means the method   *)
(* returns it and the keeper is never called.                              *)
(***************************************************************************)
(* Mutant: addressLength is not checked against the minimum.              *)
ClientChainInfoFromInputsNoMin(id, addressLength, name, metaInfo) ==
    CASE addressLength = 0 -> "ErrContractInputParaOrType"
      [] name = 0 \/ name > MaxChainTokenNameLength -> "ErrInvalidNameLength"
      [] metaInfo = 0 \/ metaInfo > MaxChainTokenMetaInfoLength -> "ErrInvalidMetaInfoLength"
      [] OTHER -> NilErr

ClientChainInfoFromInputs(id, addressLength, name, metaInfo) ==
    CASE addressLength = 0 -> "ErrContractInputParaOrType"
      [] addressLength < MinClientChainAddrLength -> "ErrInvalidAddrLength"
      [] name = 0 \/ name > MaxChainTokenNameLength -> "ErrInvalidNameLength"
      [] metaInfo = 0 \/ metaInfo > MaxChainTokenMetaInfoLength -> "ErrInvalidMetaInfoLength"
      [] OTHER -> NilErr

DepositWithdrawParams(m, id, b, staker, opAmount) ==
    LET len == chains[id] IN
    CASE ChainLookupErr(id) # NilErr -> [err |-> ChainLookupErr(id)]
      [] b = <<>> -> [err |-> "ErrContractInputParaOrType"]
      [] m \in {"depositLST", "withdrawLST"} /\ Len(b) < len -> [err |-> "ErrInvalidAddrLength"]
      [] staker = <<>> -> [err |-> "ErrContractInputParaOrType"]
      [] Len(staker) < len -> [err |-> "ErrInvalidAddrLength"]
      [] opAmount <= 0 -> [err |-> "ErrContractInputParaOrType"]
      [] OTHER -> [err |-> NilErr,
                   assetsAddress |-> IF m \in {"depositLST", "withdrawLST"}
                                     THEN CutAddress(b, len) ELSE GenerateNSTAddr(len),
                   stakerAddress |-> CutAddress(staker, len)]

TokenFromInputs(id, b, name, metaInfo, oracleInfoStr) ==
    LET len == chains[id]
        o   == ParseOracleInfo(oracleInfoStr)
    IN
    CASE ChainLookupErr(id) # NilErr -> [err |-> ChainLookupErr(id)]
      [] Len(b) < len -> [err |-> "ErrInvalidAddrLength"]
      [] name = 0 \/ name > MaxChainTokenNameLength -> [err |-> "ErrInvalidNameLength"]
      [] metaInfo = 0 \/ metaInfo > MaxChainTokenMetaInfoLength -> [err |-> "ErrInvalidMetaInfoLength"]
      [] o.err # NilErr -> [err |-> o.err]
      [] OTHER -> [err |-> NilErr, address |-> HexEncode(CutAddress(b, len)), oracle |-> o.info]

UpdateTokenFromInputs(id, b, metadata) ==
    LET len == chains[id] IN
    CASE ChainLookupErr(id) # NilErr -> [err |-> ChainLookupErr(id)]
      [] Len(b) < len -> [err |-> "ErrInvalidAddrLength"]
      [] metadata > MaxChainTokenMetaInfoLength \/ metadata = 0 -> [err |-> "ErrInvalidMetaInfoLength"]
      [] OTHER -> [err |-> NilErr, address |-> HexEncode(CutAddress(b, len))]

(* Mutant: the asset address is kept with its padding.                    *)
GetDelegationParamsFromInputsNoCut(id, b, staker, operator, opAmount) ==
    LET len == chains[id] IN
    CASE ChainLookupErr(id) # NilErr -> [err |-> ChainLookupErr(id)]
      [] Len(b) < len -> [err |-> "ErrInvalidAddrLength"]
      [] Len(staker) < len -> [err |-> "ErrInvalidAddrLength"]
      [] operator = "wrongLength" -> [err |-> "ErrInputOperatorAddrLength"]
      [] operator = "invalid" -> [err |-> "ErrBech32"]
      [] opAmount <= 0 -> [err |-> "ErrContractInputParaOrType"]
      [] OTHER -> [err |-> NilErr, assetsAddress |-> b,
                   stakerAddress |-> CutAddress(staker, len), operator |-> operator]

(* GetDelegationParamsFromInputs (delegation precompile): the lzNonce is   *)
(* taken as given and not kept.                                            *)
GetDelegationParamsFromInputs(id, b, staker, operator, opAmount) ==
    LET len == chains[id] IN
    CASE ChainLookupErr(id) # NilErr -> [err |-> ChainLookupErr(id)]
      [] Len(b) < len -> [err |-> "ErrInvalidAddrLength"]
      [] Len(staker) < len -> [err |-> "ErrInvalidAddrLength"]
      [] operator = "wrongLength" -> [err |-> "ErrInputOperatorAddrLength"]
      [] operator = "invalid" -> [err |-> "ErrBech32"]
      [] opAmount <= 0 -> [err |-> "ErrContractInputParaOrType"]
      [] OTHER -> [err |-> NilErr, assetsAddress |-> CutAddress(b, len),
                   stakerAddress |-> CutAddress(staker, len), operator |-> operator]

Record(m, r, arg) ==
    last' = [method |-> m, err |-> r.err, arg |-> arg,
             out |-> IF r.err = NilErr THEN r ELSE NoValue]

(***************************************************************************)
(* The methods.  registerOrUpdateClientChain stores the parsed address    *)
(* length, replacing the one of an already registered chain.               *)
(***************************************************************************)
RegisterOrUpdateClientChain(id, addressLength, name, metaInfo) ==
    LET err == ClientChainInfoFromInputs(id, addressLength, name, metaInfo) IN
    /\ chains' = IF err = NilErr THEN [chains EXCEPT ![id] = addressLength] ELSE chains
    /\ Record("registerOrUpdateClientChain", [err |-> err, addressLength |-> addressLength], NoValue)

RegisterToken(id, b, name, metaInfo, oracleInfoStr) ==
    /\ Record("registerToken", TokenFromInputs(id, b, name, metaInfo, oracleInfoStr), oracleInfoStr)
    /\ UNCHANGED chains

UpdateToken(id, b, metadata) ==
    /\ Record("updateToken", UpdateTokenFromInputs(id, b, metadata), NoValue)
    /\ UNCHANGED chains

DepositWithdraw(m, id, b, staker, opAmount) ==
    /\ Record(m, DepositWithdrawParams(m, id, b, staker, opAmount), NoValue)
    /\ UNCHANGED chains

DelegateOrUndelegate(m, id, b, staker, operator, opAmount) ==
    /\ Record(m, GetDelegationParamsFromInputs(id, b, staker, operator, opAmount), NoValue)
    /\ UNCHANGED chains

(* ClientChainIDFromInputs: the id is returned as given.                   *)
IsRegisteredClientChain(id) ==
    /\ Record("isRegisteredClientChain", [err |-> NilErr, id |-> id], NoValue)
    /\ UNCHANGED chains

Init ==
    /\ chains = [id \in ChainIDs |-> NoChain]
    /\ last = [method |-> NoValue, err |-> NilErr, arg |-> NoValue, out |-> NoValue]

Next ==
    \/ \E id \in ChainIDs, a \in AddrLengthArgs, n, mi \in StringLengths :
          RegisterOrUpdateClientChain(id, a, n, mi)
    \/ \E id \in ChainIDs, b \in ByteArgs, n, mi \in StringLengths, s \in OracleInfoArgs :
          RegisterToken(id, b, n, mi, s)
    \/ \E id \in ChainIDs, b \in ByteArgs, mi \in StringLengths : UpdateToken(id, b, mi)
    \/ \E m \in DepositWithdrawMethods, id \in ChainIDs, b, s \in ByteArgs, x \in Amounts :
          DepositWithdraw(m, id, b, s, x)
    \/ \E m \in DelegationMethods, id \in ChainIDs, b, s \in ByteArgs, op \in OperatorArgs, x \in Amounts :
          DelegateOrUndelegate(m, id, b, s, op, x)
    \/ \E id \in ChainIDs : IsRegisteredClientChain(id)

Spec == Init /\ [][Next]_vars

-----------------------------------------------------------------------------
(* Every stored address length passed the minimum, and the last call's    *)
(* error is nil or a named error.                                          *)
TypeOK ==
    /\ \A id \in ChainIDs : chains[id] = NoChain \/ chains[id] \in AddrLengthArgs \ (0 .. MinClientChainAddrLength - 1)
    /\ last.err = NilErr \/ last.err \in STRING

(* The parsers agree on what an asset argument names: under the chain     *)
(* table as it stands, registerToken, updateToken, an LST deposit or       *)
(* withdrawal and a delegation that all accept the same asset bytes derive *)
(* the same asset address from them, so the asset a deposit or delegation *)
(* refers to is the one registered.                                         *)
ParsersAgreeOnAssetAddress ==
    \A id \in ChainIDs, b, s \in ByteArgs :
        LET tok == TokenFromInputs(id, b, 1, 1, FormatOracleInfo(CHOOSE o \in OracleInfos : TRUE))
            upd == UpdateTokenFromInputs(id, b, 1)
            dep == DepositWithdrawParams("depositLST", id, b, s, 1)
            del == GetDelegationParamsFromInputs(id, b, s, "valid", 1)
        IN  /\ tok.err = NilErr /\ upd.err = NilErr => tok.address = upd.address
            /\ tok.err = NilErr /\ dep.err = NilErr => tok.address = HexEncode(dep.assetsAddress)
            /\ tok.err = NilErr /\ del.err = NilErr => tok.address = HexEncode(del.assetsAddress)

(* The oracle info a caller encodes in the documented format is the one   *)
(* registerToken hands on: its token name, chain name, decimal, interval  *)
(* and contract come back from TokenFromInputs' split of the string.       *)
OracleInfoFieldsKept ==
    last.method = "registerToken" /\ last.err = NilErr =>
        \A o \in OracleInfos : FormatOracleInfo(o) = last.arg =>
            /\ last.out.oracle.tokenName = o.tokenName
            /\ last.out.oracle.chainName = o.chainName
            /\ last.out.oracle.decimal = o.decimal
            /\ last.out.oracle.interval = o.interval
            /\ last.out.oracle.contract = o.contract

(* The chain and token descriptions come back as encoded too: the whole   *)
(* OracleInfo a caller writes in the documented format survives parsing.   *)
OracleInfoRoundTrip ==
    last.method = "registerToken" /\ last.err = NilErr =>
        \A o \in OracleInfos : FormatOracleInfo(o) = last.arg =>
            last.out.oracle = [f \in DOMAIN last.out.oracle |-> o[f]]
=============================================================================
