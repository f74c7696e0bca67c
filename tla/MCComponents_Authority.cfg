CONSTANTS
    NilValue = NilValue
    c1 = c1
    c2 = c2
    a1 = a1
    a2 = a2
    ZeroAddress = ZeroAddress
    NilErr = NilErr
    NoInfo = NoInfo
    NoCall = NoCall
    NilReward = NilReward
    o1 = o1
    o2 = o2
    asset1 = asset1
    NilInt = NilInt
    NilDelegation = NilDelegation
    NullPtr = NullPtr
    NoChain = NoChain

SPECIFICATION Spec

INVARIANT
    ParamsFeeParamsByAuthority
