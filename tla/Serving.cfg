CONSTANTS
    c1 = c1
    c2 = c2
    Clients = {c1, c2}
    NoClient = NoClient
    Paths <- MCPaths
    Pieces = {"a", "b", "p", "q", "o"}
    Foreign = "o"
    Shared <- MCShared
    Scenarios <- MCScenarios
SPECIFICATION Spec
INVARIANTS TheBestLocationServes WhatWasAnnouncedIsSent
PROPERTIES  EveryRequestIsAnswered
CHECK_DEADLOCK FALSE
