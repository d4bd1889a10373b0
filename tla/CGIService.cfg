SPECIFICATION FairSpec
CONSTANTS
    PipeSize = 2
    ReadSize = 1
    MaxFds = 7
    Errands <- MCErrands
    Calls <- MCCalls
INVARIANT ContentIsOutput
INVARIANT FailureIsReal
INVARIANT ScriptIsTheOneAskedFor
PROPERTY LeavesOneEnd
PROPERTY ExecutionReturns
