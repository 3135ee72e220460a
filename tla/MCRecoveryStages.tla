-------------------------- MODULE MCRecoveryStages --------------------------
EXTENDS RecoveryStages, TLC

ClientSymmetry == Permutations(Clients)

AnyFailure == {"call", "save", "crash", "reboot"}
CallOnly   == {"call"}
NoFaults   == {}
=============================================================================
