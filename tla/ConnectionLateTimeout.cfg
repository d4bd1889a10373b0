SPECIFICATION Spec
CONSTANTS
    MaxSends = 2
    MaxReceives = 2
    MaxWaits = 1
    Targets = {"method"}
    Situations = {}
INVARIANT StatusMatchesBody
