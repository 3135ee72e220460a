SPECIFICATION RoutingSpec
CONSTANTS
    Cases <- MacCase
    NoUDP = {"A"}
    Clients = {c1}
    MaxFailures = 0
CHECK_DEADLOCK FALSE
INVARIANT NoSilentUDP
