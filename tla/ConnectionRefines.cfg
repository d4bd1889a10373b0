SPECIFICATION Spec
CONSTANTS
    MaxSends = 3
    MaxReceives = 3
    MaxWaits = 2
    Targets = {"method", "cgi", "redirect", "unresolved"}
    Situations = {"expect", "extra", "exact", "short"}
PROPERTY ImplementsLifecycle
PROPERTY ErrorsAreNotExecuted
