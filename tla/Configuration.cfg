SPECIFICATION Spec
CONSTANTS
    Sources <- MCSources
    MaxUriSize = 20
    SizeModulus = 1000
    MaxCMBS = 100
    MaxPort = 65535
    IPv6Addresses <- MCIPv6
INVARIANTS ConfigIsUnderstood EveryPathHasALocation LastEndIsNoticed
PROPERTY LoadingEnds
CHECK_DEADLOCK FALSE
