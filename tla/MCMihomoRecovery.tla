-------------------------- MODULE MCMihomoRecovery --------------------------
(* Instances of MihomoRecovery: what may fail in each run.                 *)
EXTENDS MihomoRecovery

AnyFault    == FaultKinds
GoneOnly    == {"gone"}
NoRecord    == {"gone", "create"}
=============================================================================
