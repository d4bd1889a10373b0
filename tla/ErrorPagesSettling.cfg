SPECIFICATION SettlingSpec
CONSTANTS
    Codes = {403, 404, 408, 500}
    MaxDepth = 9
INVARIANT NoEndlessErrors
INVARIANT ReplyIsTheOutcome
