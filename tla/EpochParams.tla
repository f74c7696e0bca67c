---------------------------- MODULE EpochParams ----------------------------
(***************************************************************************)
(* The parameters that tie the exomint and feedistribution modules to the  *)
(* epochs module, and the epoch-end hook that reads them.                  *)
(*  - exomint (x/exomint): Params {MintDenom, EpochReward, EpochIdentifier},*)
(*    set at genesis by InitGenesis, which panics when the identifier has *)
(*    no epoch info, and replaced through OverrideIfRequired, which keeps *)
(*    the previous value of every field the new params leave unset or     *)
(*    invalid;                                                             *)
(*  - feedistribution (x/feedistribution/keeper): its EpochIdentifier,    *)
(*    replaced by UpdateParams when the epoch info exists, and read by     *)
(*    AfterEpochEnd, which allocates the collected fees at the end of that *)
(*    epoch;                                                               *)
(*  - epochs (x/epochs/types/hooks.go): MultiEpochHooks calls every hook   *)
(*    of the list in order at every epoch end.                             *)
(* sdk.ValidateDenom and ValidateEpochIdentifierString are outside the     *)
(* repository: the denoms and identifiers they accept are constants.      *)
(***************************************************************************)
EXTENDS Integers

CONSTANTS
    Denoms,            \* MintDenom arguments
    ValidDenoms,       \* those sdk.ValidateDenom accepts
    Rewards,           \* EpochReward arguments (Nil among them)
    Identifiers,       \* epoch identifier arguments
    ValidIdentifiers,  \* those ValidateEpochIdentifierString accepts
    EpochInfos,        \* identifiers the epochs keeper has an epoch info for
    Signers,           \* the Authority field of a MsgUpdateParams
    Authority,         \* the feedistribution keeper's authority (governance)
    Nil                \* a nil math.Int

Params == [mintDenom : Denoms, epochReward : Rewards, epochIdentifier : Identifiers]

(* ValidateEpochReward: not nil and not below zero; zero disables minting. *)
ValidateEpochReward(r) == r # Nil /\ r >= 0

(* Params.Validate: the first failing check returns its error.             *)
Validate(p) ==
    /\ p.mintDenom \in ValidDenoms
    /\ ValidateEpochReward(p.epochReward)
    /\ p.epochIdentifier \in ValidIdentifiers

(* Mutant: a zero reward is treated as unset and overridden.               *)
OverrideIfRequiredZeroIsUnset(p, prev) ==
    [mintDenom       |-> IF p.mintDenom \in ValidDenoms THEN p.mintDenom ELSE prev.mintDenom,
     epochReward     |-> IF p.epochReward = Nil \/ p.epochReward <= 0
                         THEN prev.epochReward ELSE p.epochReward,
     epochIdentifier |-> IF p.epochIdentifier \in ValidIdentifiers
                         THEN p.epochIdentifier ELSE prev.epochIdentifier]

(* Mutant: the copy made by Params.Copy leaves out EpochIdentifier.       *)
OverrideIfRequiredCopyDropsIdentifier(p, prev) ==
    [mintDenom   |-> IF p.mintDenom \in ValidDenoms THEN p.mintDenom ELSE prev.mintDenom,
     epochReward |-> IF p.epochReward = Nil \/ p.epochReward < 0
                     THEN prev.epochReward ELSE p.epochReward]

(* Mutant: only a nil reward is overridden.                                *)
OverrideIfRequiredNilOnly(p, prev) ==
    [mintDenom       |-> IF p.mintDenom \in ValidDenoms THEN p.mintDenom ELSE prev.mintDenom,
     epochReward     |-> IF p.epochReward = Nil THEN prev.epochReward ELSE p.epochReward,
     epochIdentifier |-> IF p.epochIdentifier \in ValidIdentifiers
                         THEN p.epochIdentifier ELSE prev.epochIdentifier]

(* OverrideIfRequired: field by field, a copy of p with the previous value *)
(* where p's is invalid (nil or negative for the reward).                  *)
OverrideIfRequired(p, prev) ==
    [mintDenom       |-> IF p.mintDenom \in ValidDenoms THEN p.mintDenom ELSE prev.mintDenom,
     epochReward     |-> IF p.epochReward = Nil \/ p.epochReward < 0
                         THEN prev.epochReward ELSE p.epochReward,
     epochIdentifier |-> IF p.epochIdentifier \in ValidIdentifiers
                         THEN p.epochIdentifier ELSE prev.epochIdentifier]

(* Params.Equal: false whenever either reward is nil.                      *)
Equal(p, p2) ==
    /\ p.epochReward # Nil
    /\ p2.epochReward # Nil
    /\ p = p2

VARIABLES
    mintParams,  \* the exomint params in store
    feeEpoch,    \* the feedistribution params' EpochIdentifier in store
    feeSigner,   \* the Authority of the last MsgUpdateParams that changed it
    lastEnd      \* the last epoch end: its identifier and whether fees were allocated

vars == <<mintParams, feeEpoch, feeSigner, lastEnd>>

(* InitGenesis of exomint: SetParams, then a panic unless the identifier   *)
(* has an epoch info; a genesis passes the module's ValidateGenesis first. *)
InitGenesis(g) == g.epochIdentifier \in EpochInfos /\ mintParams = g

Init ==
    /\ \E g \in Params : Validate(g) /\ InitGenesis(g)
    /\ feeEpoch \in EpochInfos
    /\ feeSigner = Authority
    /\ lastEnd = [id |-> "none", allocated |-> FALSE]

(* A parameter update of exomint: the stored params replaced by the new    *)
(* ones with every unset or invalid field taken from the stored ones.     *)
UpdateMintParams(p) ==
    /\ mintParams' = OverrideIfRequired(p, mintParams)
    /\ UNCHANGED <<feeEpoch, feeSigner, lastEnd>>

(* msgServer.UpdateParams of feedistribution: the authority check is      *)
(* commented out; an identifier without epoch info is refused with         *)
(* ErrEpochNotFound, anything else is stored.                              *)
UpdateParams(signer, id) ==
    /\ id \in EpochInfos
    /\ feeEpoch' = id
    /\ feeSigner' = signer
    /\ UNCHANGED <<mintParams, lastEnd>>

(* The end of epoch id: MultiEpochHooks.AfterEpochEnd runs every hook; the *)
(* feedistribution hook allocates the fees when id is its identifier, and *)
(* an error of AllocateTokens is only logged.                              *)
AfterEpochEnd(id) ==
    /\ lastEnd' = [id |-> id, allocated |-> id = feeEpoch]
    /\ UNCHANGED <<mintParams, feeEpoch, feeSigner>>

Next ==
    \/ \E p \in Params : UpdateMintParams(p)
    \/ \E s \in Signers, id \in Identifiers : UpdateParams(s, id)
    \/ \E id \in EpochInfos : AfterEpochEnd(id)

Spec == Init /\ [][Next]_vars

(***************************************************************************)
(* Properties                                                              *)
(***************************************************************************)
TypeOK ==
    /\ mintParams \in Params
    /\ feeEpoch \in Identifiers
    /\ feeSigner \in Signers \cup {Authority}
    /\ lastEnd.allocated \in BOOLEAN

(* Whatever sequence of updates follows a valid genesis, the exomint       *)
(* params in store pass Params.Validate: OverrideIfRequired falls back,    *)
(* field by field, on a value that passed before.                          *)
MintParamsValid == Validate(mintParams)

(* An update whose params pass Validate is stored exactly as given, a zero *)
(* reward included ("we should support 0 rewards"), and Equal says so.     *)
ValidUpdateKeptAsGiven ==
    [][\A p \in Params :
          Validate(p) /\ mintParams' = OverrideIfRequired(p, mintParams) =>
              Equal(mintParams', p)]_vars

(* The feedistribution params change only through a MsgUpdateParams       *)
(* signed by the keeper's authority, as the commented-out check of        *)
(* UpdateParams and the error ErrInvalidSigner say.                        *)
FeeParamsByAuthority == feeSigner = Authority

=============================================================================
