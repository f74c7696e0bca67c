CONSTANTS
    pa = pa
    pb = pb
    f1 = f1
    v1 = v1
    v2 = v2
    Feeders = {f1}
    Validators = {v1, v2}
    Prices = {1, 2}
    ParamIds = {pa, pb}
    ParamsTable <- MCParamsTable
    FeederStart <- MCFeederStart
    FeederInterval <- MCFeederInterval
    NoPrice = NoPrice
    NoRound = NoRound
    NoParams = NoParams
    None = None
    Nil = Nil
    PowerTables <- MCPowerTablesFixed
    InitParams = pb
    InitPowers <- MCPowersA
    DefaultMaxNonce = 2
    SealOnValidatorUpdate = TRUE
    MaxHeight = 5
SPECIFICATION Spec
ACTION_CONSTRAINT RestartReplaysABlock
INVARIANT
    RecoveredContextMatchesLive
