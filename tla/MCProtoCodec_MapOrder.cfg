\* One encode/decode use of a codec ends: its final states have no successor.
CONSTANTS
    NullPtr = NullPtr
    Null <- NullPtr
    IntBits = 13
    Int32Bits = 6
    MsgTypes <- MCMsgTypes
    Samples <- MCSamples
    RawInputs <- MCRawInputs
SPECIFICATION Spec
INVARIANT MarshalIsDeterministic
CHECK_DEADLOCK FALSE
