---------------------------- MODULE MCSleepLease ----------------------------
EXTENDS SleepLease

\* Failures the helper is written for: pmset and file errors that leave the
\* old state, an answer that comes too late, both processes dying, and another
\* tool that sets the flag.
Expected == FaultKinds \ {"late"}
Late     == {"late"}
=============================================================================
