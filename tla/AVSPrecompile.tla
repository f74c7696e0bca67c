--------------------------- MODULE AVSPrecompile ---------------------------
(***************************************************************************)
(* The methods of the AVS precompile (precompiles/avs/tx.go).  Each one    *)
(* checks its arguments, fills a parameter record, calls the AVS keeper    *)
(* once, emits an event (events.go) and returns its ABI-packed output.     *)
(* The keeper (x/avs/keeper) is not part of this repository: its answer   *)
(* to each call is a free choice (success or an error), and the only       *)
(* keeper state kept is the AVS info it stores for UpdateAVSInfo and hands *)
(* back to GetAVSInfo (the owner list of each AVS address).                *)
(*                                                                         *)
(* An address is a model value; its bech32 and hex strings are tagged     *)
(* pairs, so they never equal each other and each is injective.  An error *)
(* is NilErr or the name of the error; errorsmod.Wrap keeps a nil error   *)
(* nil.  ABI unpacking hands every argument over with its declared type,  *)
(* so the `!ok` halves of the type assertions never fire; the zero-address *)
(* and empty-string halves do.                                             *)
(***************************************************************************)
EXTENDS FiniteSets

CONSTANTS
    Contracts,    \* contract.CallerAddress: the contracts calling the precompile
    Accounts,     \* non-zero common.Address arguments
    ZeroAddress,  \* common.Address{}
    Names,        \* non-empty name arguments
    NilErr,       \* a nil error
    NoInfo,       \* GetAVSInfo finds nothing for the address
    NoCall        \* the method returned before calling the keeper

Addresses == Accounts \cup {ZeroAddress}

AccString(a) == <<"bech32", a>>   \* sdk.AccAddress(a[:]).String()
HexString(a) == <<"hex", a>>      \* common.Address.String()

AVSAddresses == {HexString(c) : c \in Contracts}
OwnerStrings == {AccString(a) : a \in Accounts}

(* The operatorAddress argument of challenge: a valid bech32 string, one   *)
(* sdk.AccAddressFromBech32 rejects, and "".                                *)
OperatorArgs == {"valid", "invalid", ""}

(* errorsmod.Wrap(err, msg): nil stays nil.                                *)
Wrap(err, msg) == IF err = NilErr THEN NilErr ELSE msg

(* common.HexToAddress(s): the bytes hex decoding reads from s, right-     *)
(* aligned.  A bech32 string is not hex: decoding stops at its first pair  *)
(* holding a non-hex character, which for the account prefix "exo" is the  *)
(* first pair, so nothing is read and the address is zero.                 *)
HexToAddress(s) == IF s[1] = "hex" THEN s[2] ELSE ZeroAddress

(* emitEvent: a log of the precompile with the event's topic and the      *)
(* packed arguments; only the event and its address argument are kept.     *)
(* The ABI types of an event are fixed, so Pack fails for every call or    *)
(* for none: it is taken to succeed.                                       *)
EmitEvent(name, address) == [name |-> name, address |-> address]

(* The emitters of events.go: each converts the bech32 caller or operator *)
(* string of its parameters with HexToAddress.  TaskInfoParams'           *)
(* CallerAddress is filled by GetTaskParamsFromInputs, outside this        *)
(* repository, and is left unknown.                                        *)
EmitAVSRegistered(p)           == EmitEvent("AVSRegistered", HexToAddress(p.account))
EmitAVSUpdated(p)              == EmitEvent("AVSUpdated", HexToAddress(p.account))
EmitAVSDeregistered(p)         == EmitEvent("AVSDeregistered", HexToAddress(p.account))
EmitOperatorJoined(p)          == EmitEvent("OperatorJoined", HexToAddress(p.account))
EmitOperatorOuted(p)           == EmitEvent("OperatorOuted", HexToAddress(p.account))
EmitTaskCreated(p)             == EmitEvent("TaskCreated", NoCall)
EmitChallengeInitiated(p)      == EmitEvent("ChallengeInitiated", HexToAddress(p.account))
EmitPublicKeyRegistered(p)     == EmitEvent("PublicKeyRegistered", HexToAddress(p.account))
EmitTaskSubmittedByOperator(p) == EmitEvent("TaskSubmittedByOperator", HexToAddress(p.account))

(* No event: the method returned before emitting one.                     *)
NoEvent == EmitEvent("none", NoCall)

(* The event each method emits after a successful keeper call.             *)
EventOf(m, p) ==
    CASE m = "registerAVS"               -> EmitAVSRegistered(p)
      [] m = "updateAVS"                 -> EmitAVSUpdated(p)
      [] m = "deregisterAVS"             -> EmitAVSDeregistered(p)
      [] m = "registerOperatorToAVS"     -> EmitOperatorJoined(p)
      [] m = "deregisterOperatorFromAVS" -> EmitOperatorOuted(p)
      [] m = "createTask"                -> EmitTaskCreated(p)
      [] m = "challenge"                 -> EmitChallengeInitiated(p)
      [] m = "registerBLSPublicKey"      -> EmitPublicKeyRegistered(p)
      [] m = "operatorSubmitTask"        -> EmitTaskSubmittedByOperator(p)

VARIABLES
    avsInfo,  \* AVSAddresses -> owner list, or NoInfo: the keeper's AVS info
    last      \* the last call: method, calling contract, keeper call, error, output, event

vars == <<avsInfo, last>>

Return(m, c, call, err, out, ev) ==
    last' = [method |-> m, contract |-> c, call |-> call, err |-> err, out |-> out, event |-> ev]

(***************************************************************************)
(* The keeper call p, answered ok or not, followed by the event and the   *)
(* packed output.  Only UpdateAVSInfo changes the AVS info modelled here: *)
(* registration and update store the owner list of p, deregistration      *)
(* removes the entry.                                                      *)
(***************************************************************************)
KeeperEffect(p) ==
    CASE p.action = "register" /\ p.keeper = "UpdateAVSInfo" -> [avsInfo EXCEPT ![p.avs] = p.owners]
      [] p.action = "update"                                -> [avsInfo EXCEPT ![p.avs] = p.owners]
      [] p.action = "deregister" /\ p.keeper = "UpdateAVSInfo" -> [avsInfo EXCEPT ![p.avs] = NoInfo]
      [] OTHER                                              -> avsInfo

CallKeeper(m, c, p, ok, out) ==
    IF ok THEN /\ avsInfo' = KeeperEffect(p)
               /\ Return(m, c, p, NilErr, out, EventOf(m, p))
          ELSE /\ Return(m, c, p, "keeper", "none", NoEvent)
               /\ UNCHANGED avsInfo

Fail(m, c, err) == Return(m, c, NoCall, err, "none", NoEvent) /\ UNCHANGED avsInfo

(* Mutant: the AVS address is stored as its own owner list.               *)
AVSParamsOwnerIsAVS(action, c, caller, owners) ==
    [keeper |-> "UpdateAVSInfo", action |-> action, avs |-> HexString(c),
     account |-> AccString(caller), owners |-> {HexString(c)}]

AVSParams(action, c, caller, owners) ==
    [keeper |-> "UpdateAVSInfo", action |-> action, avs |-> HexString(c),
     account |-> AccString(caller), owners |-> owners]

(* RegisterAVS: the owner check compares two fields of the arguments; when *)
(* it fails, err is still the nil error of the successful parse.          *)
RegisterAVS(c, parseErr, caller, owners, ok) ==
    CASE parseErr # NilErr ->
            Fail("registerAVS", c, Wrap(parseErr, "parse args error"))
      [] AccString(caller) \notin owners ->
            Fail("registerAVS", c, Wrap(parseErr, "not qualified to registerOrDeregister"))
      [] OTHER ->
            CallKeeper("registerAVS", c, AVSParams("register", c, caller, owners), ok, "true")

DeregisterAVS(c, caller, name, ok) ==
    CASE caller = ZeroAddress -> Fail("deregisterAVS", c, "ErrContractInputParaOrType")
      [] name = ""            -> Fail("deregisterAVS", c, "ErrContractInputParaOrType")
      [] OTHER ->
            CallKeeper("deregisterAVS", c, AVSParams("deregister", c, caller, {}), ok, "true")

(* UpdateAVS: the caller must be an owner of the info stored before.      *)
UpdateAVS(c, parseErr, caller, owners, ok) ==
    CASE parseErr # NilErr -> Fail("updateAVS", c, Wrap(parseErr, "parse args error"))
      [] avsInfo[HexString(c)] = NoInfo -> Fail("updateAVS", c, "GetAVSInfo")
      [] AccString(caller) \notin avsInfo[HexString(c)] ->
            Fail("updateAVS", c, "not qualified to update")
      [] OTHER ->
            CallKeeper("updateAVS", c, AVSParams("update", c, caller, owners), ok, "true")

OptParams(action, c, caller) ==
    [keeper |-> "OperatorOptAction", action |-> action, avs |-> HexString(c),
     account |-> AccString(caller), owners |-> {}]

(* Mutant: the operator and AVS fields of the opt-in parameters swapped.  *)
BindOperatorToAVSSwapped(c, caller, ok) ==
    IF caller = ZeroAddress THEN Fail("registerOperatorToAVS", c, "ErrContractInputParaOrType")
    ELSE CallKeeper("registerOperatorToAVS", c,
                    [OptParams("register", c, caller) EXCEPT !.avs = AccString(caller),
                                                             !.account = HexString(c)],
                    ok, "true")

BindOperatorToAVS(c, caller, ok) ==
    IF caller = ZeroAddress THEN Fail("registerOperatorToAVS", c, "ErrContractInputParaOrType")
    ELSE CallKeeper("registerOperatorToAVS", c, OptParams("register", c, caller), ok, "true")

UnbindOperatorToAVS(c, caller, ok) ==
    IF caller = ZeroAddress THEN Fail("deregisterOperatorFromAVS", c, "ErrContractInputParaOrType")
    ELSE CallKeeper("deregisterOperatorFromAVS", c, OptParams("deregister", c, caller), ok, "true")

TaskParams(keeper, avs, caller) ==
    [keeper |-> keeper, action |-> "task", avs |-> avs, account |-> caller, owners |-> {}]

(* CreateAVSTask: the task contract is the calling contract; the output is *)
(* the task id the keeper returns.                                         *)
CreateAVSTask(c, parseErr, ok) ==
    IF parseErr # NilErr THEN Fail("createTask", c, parseErr)
    ELSE CallKeeper("createTask", c, TaskParams("CreateAVSTask", HexString(c), NoCall), ok, "taskID")

Challenge(c, caller, operator, ok) ==
    CASE caller = ZeroAddress   -> Fail("challenge", c, "ErrContractInputParaOrType")
      [] operator = ""          -> Fail("challenge", c, "ErrContractInputParaOrType")
      [] operator = "invalid"   -> Fail("challenge", c, "AccAddressFromBech32")
      [] OTHER ->
            CallKeeper("challenge", c,
                       TaskParams("RaiseAndResolveChallenge", HexString(c), AccString(caller)), ok, "true")

(* RegisterBLSPublicKey ignores the calling contract: the operator is the *)
(* address argument.                                                       *)
RegisterBLSPublicKey(c, caller, name, ok) ==
    CASE caller = ZeroAddress -> Fail("registerBLSPublicKey", c, "ErrContractInputParaOrType")
      [] name = ""            -> Fail("registerBLSPublicKey", c, "ErrContractInputParaOrType")
      [] OTHER ->
            CallKeeper("registerBLSPublicKey", c,
                       TaskParams("RegisterBLSPublicKey", NoCall, AccString(caller)), ok, "true")

(* OperatorSubmitTask: operator and task contract both come from the      *)
(* arguments.                                                              *)
OperatorSubmitTask(c, caller, taskAddr, ok) ==
    CASE caller = ZeroAddress   -> Fail("operatorSubmitTask", c, "ErrContractInputParaOrType")
      [] taskAddr = ZeroAddress -> Fail("operatorSubmitTask", c, "ErrContractInputParaOrType")
      [] OTHER ->
            CallKeeper("operatorSubmitTask", c,
                       TaskParams("SetTaskResultInfo", HexString(taskAddr), AccString(caller)), ok, "true")

ParseErrs == {NilErr, "parse"}

Init ==
    /\ avsInfo = [a \in AVSAddresses |-> NoInfo]
    /\ last = [method |-> "none", contract |-> NoCall, call |-> NoCall, err |-> NilErr,
               out |-> "none", event |-> NoEvent]

Next ==
    \E c \in Contracts, caller \in Addresses, ok \in BOOLEAN :
        \/ \E pe \in ParseErrs, owners \in SUBSET OwnerStrings :
              \/ RegisterAVS(c, pe, caller, owners, ok)
              \/ UpdateAVS(c, pe, caller, owners, ok)
        \/ \E name \in Names \cup {""} :
              \/ DeregisterAVS(c, caller, name, ok)
              \/ RegisterBLSPublicKey(c, caller, name, ok)
        \/ BindOperatorToAVS(c, caller, ok)
        \/ UnbindOperatorToAVS(c, caller, ok)
        \/ \E pe \in ParseErrs : CreateAVSTask(c, pe, ok)
        \/ \E op \in OperatorArgs : Challenge(c, caller, op, ok)
        \/ \E t \in Addresses \cup Contracts : OperatorSubmitTask(c, caller, t, ok)

Spec == Init /\ [][Next]_vars

(***************************************************************************)
(* Properties                                                              *)
(***************************************************************************)
Methods == {"registerAVS", "updateAVS", "deregisterAVS", "registerOperatorToAVS",
            "deregisterOperatorFromAVS", "createTask", "registerBLSPublicKey",
            "challenge", "operatorSubmitTask"}

(* The methods that act for the calling contract.                          *)
ContractScoped == Methods \ {"registerBLSPublicKey", "operatorSubmitTask"}

TypeOK ==
    /\ avsInfo \in [AVSAddresses -> SUBSET OwnerStrings \cup {NoInfo}]
    /\ last.method \in Methods \cup {"none"}
    /\ last.out \in {"none", "true", "taskID"}

(* A method that returns a nil error returns its packed output, the way   *)
(* every method of tx.go ends in method.Outputs.Pack: the EVM caller      *)
(* reads success from the error alone.                                     *)
SuccessReturnsOutput == last.err = NilErr /\ last.method # "none" => last.out # "none"

(* Every event a call emits names, as its address argument, the account   *)
(* the call was made for: the caller or operator address argument that    *)
(* the method turned into the bech32 string of its parameters (every      *)
(* event but TaskCreated, whose caller string is filled outside the       *)
(* repository).  An indexer reads who registered, joined or submitted from *)
(* this argument.                                                          *)
EventNamesCaller ==
    last.event.name \notin {"none", "TaskCreated"} =>
        last.event.address = last.call.account[2]

(* Every keeper call of a method that acts for its caller names the        *)
(* calling contract (contract.CallerAddress) as the AVS or task contract,  *)
(* whatever address the arguments carry, so no contract reaches the state *)
(* of another AVS through these methods.                                   *)
ActsForCallingContract ==
    last.method \in ContractScoped /\ last.call # NoCall =>
        last.call.avs = HexString(last.contract)

=============================================================================
