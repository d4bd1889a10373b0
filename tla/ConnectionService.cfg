SPECIFICATION Spec
CONSTANTS
    MaxSends = 3
    MaxReceives = 3
    MaxWaits = 2
    Targets = {"method", "cgi", "redirect", "unresolved"}
    Situations = {"expect"}
INVARIANT ExecutedOnce
INVARIANT OneFinalReply
INVARIANT DoneMeansDelivered
INVARIANT InterimFirst
INVARIANT StatusMatchesBodyInTurn
