SPECIFICATION FairSpec
CONSTANTS
    Requests <- EveryRequest
    IntegerWords = {"7"}
    NoMaximum = 1000000
INVARIANTS
    TypeOK
    EveryReadBounded
    HandlersReached
    OnlyKnownRefusals
    AcceptedParametersApply
    QueriesExecutable
PROPERTIES
    EveryRequestAnswered
CHECK_DEADLOCK FALSE
