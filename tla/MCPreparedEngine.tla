-------------------------- MODULE MCPreparedEngine --------------------------
EXTENDS PreparedEngine, TLC

Symmetry == Permutations(Conns) \cup Permutations(Pids)

AnyCommand == {"start", "stop"}
NoCommand  == {}

AnyFault   == FaultKinds
Crashless  == {"cmd", "save", "slow", "exit", "reply"}
Survivable == Crashless \cup {"crash"}
SlowOnly   == {"slow"}
CrashBusy  == {"crash", "other"}
=============================================================================
