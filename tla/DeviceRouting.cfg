SPECIFICATION RoutingSpec
CONSTANTS
    Cases <- ValidCases
    NoUDP = {"A"}
    Clients = {c1}
    MaxFailures = 1
CHECK_DEADLOCK FALSE
INVARIANTS
    PolicyCarriedOut
    ChoiceKept
PROPERTY
    AllOrNothing
