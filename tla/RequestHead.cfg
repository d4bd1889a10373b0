SPECIFICATION Spec
CONSTANTS
    Heads <- AllHeads
    MaxUriSize = 12
    MaxHeaderSize = 60
    MaxSizeT = 255
    AllowedMethods <- MCAllowed
    ConfigMaxBody = 5
PROPERTY HeadIsUnderstood
PROPERTY RejectionStands
INVARIANT AddressIsUnderstood
INVARIANT BodyIsInvited
INVARIANT BodyIsNoField
INVARIANT EscapesAreKnown
CHECK_DEADLOCK FALSE
