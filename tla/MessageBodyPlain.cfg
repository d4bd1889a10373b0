SPECIFICATION Spec
CONSTANTS
    Messages <- MCMessages
    MaxChunkExt = 8
    DefaultMaxBody = 17
    ConfigMaxBody = 3
INVARIANT PlainDataIsUnderstood
INVARIANT OverlongIsRejected
CHECK_DEADLOCK FALSE
