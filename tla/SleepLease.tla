----------------------------- MODULE SleepLease -----------------------------
(***************************************************************************)
(* Keeping the Mac awake with its lid closed.  The control service         *)
(* (controlapi/sleep_prevention.go) holds a lease, a connection to the     *)
(* privileged helper; the helper (sleep_prevention_helper.go, the          *)
(* sleep-prevention-hold branch of actions.go) counts the holders, writes  *)
(* the system-wide, persistent pmset flag and keeps a marker file that     *)
(* says that the flag is its own.                                          *)
(*                                                                         *)
(* The helper's mutex covers a whole Acquire, Release or retry, so one of  *)
(* them runs at a time (who, step); but each is several commands, and a    *)
(* crash or another tool can come between two of them.                     *)
(***************************************************************************)
EXTENDS Naturals, FiniteSets

CONSTANTS
    Conns,       \* connections that may exist at the same time
    None,
    Faults,      \* the kinds of failure this instance may inject
    MaxFaults    \* how many of them

\* "late": a pmset command that times out after it has taken effect.
FaultKinds == {"cmd", "late", "file", "timeout", "helperCrash",
               "serviceCrash", "tool"}

ASSUME SleepAssumption ==
    /\ IsFiniteSet(Conns)
    /\ None \notin Conns /\ "retry" \notin Conns /\ "boot" \notin Conns
    /\ "retry" # None /\ "boot" # None
    /\ Faults \subseteq FaultKinds
    /\ MaxFaults \in Nat

VARIABLES
    \* the machine: the pmset flag, whether our write of 1 is outstanding,
    \* and whether another tool set it, before or after we looked
    flag, ours, other,
    \* the helper
    marker, helper, holders, who, step, retriers, hend,
    \* the control service
    requested, call, target, lease, cend, quitting,
    left         \* fault budget

system  == <<flag, ours, other>>
mutex   == <<who, step>>
hlp     == <<marker, helper, holders, who, step, retriers, hend>>
service == <<requested, call, target, lease, cend, quitting>>
vars    == <<system, hlp, service, left>>

HelperEnds == {"none", "queued", "holding", "refused"}
ClientEnds == {"free", "waiting", "held", "closed"}

TypeOK ==
    /\ flag \in BOOLEAN /\ ours \in BOOLEAN /\ other \in {"no", "first", "late"}
    /\ marker \in BOOLEAN /\ helper \in {"down", "serving"}
    /\ holders \in 0..Cardinality(Conns) /\ retriers \in Nat
    /\ who \in Conns \cup {None, "retry", "boot"}
    /\ step \in {"free", "clear", "unmark", "inspect", "mark", "set"}
    /\ hend \in [Conns -> HelperEnds] /\ cend \in [Conns -> ClientEnds]
    /\ requested \in BOOLEAN /\ quitting \in BOOLEAN
    /\ call \in {"none", "acquire", "close"}
    /\ target \in Conns \cup {None} /\ lease \in Conns \cup {None}
    /\ left \in 0..MaxFaults

Init ==
    /\ flag = FALSE /\ ours = FALSE /\ other = "no"
    /\ marker = FALSE /\ helper = "serving" /\ holders = 0
    /\ who = None /\ step = "free" /\ retriers = 0
    /\ hend = [c \in Conns |-> "none"] /\ cend = [c \in Conns |-> "free"]
    /\ requested = FALSE /\ call = "none" /\ target = None /\ lease = None
    /\ quitting = FALSE /\ left = MaxFaults

Fine == UNCHANGED left
Fault(kind) == kind \in Faults /\ left > 0 /\ left' = left - 1

-----------------------------------------------------------------------------
(***************************************************************************)
(* The helper.  releaseOwnedLocked is the steps clear and unmark.          *)
(***************************************************************************)
Idle == helper = "serving" /\ step = "free"
Begin(w, s) == who' = w /\ step' = s
Unlock == Begin(None, "free")

\* The operation that holds the mutex fails: an acquire is refused, every
\* other one leaves (or stays) a background retry.
Failed ==
    /\ Unlock /\ UNCHANGED <<helper, holders>>
    /\ IF who \in Conns /\ hend[who] = "queued"
       THEN hend' = [hend EXCEPT ![who] = "refused"] /\ UNCHANGED retriers
       ELSE /\ hend' = [c \in Conns |-> IF c = who THEN "none" ELSE hend[c]]
            /\ retriers' = IF who = "retry" THEN retriers ELSE retriers + 1

\* The release that holds the mutex is complete.
Released ==
    /\ Unlock /\ UNCHANGED <<helper, holders>>
    /\ hend' = [c \in Conns |-> IF c = who THEN "none" ELSE hend[c]]
    /\ retriers' = IF who = "retry" THEN retriers - 1 ELSE retriers

\* A live lease is shared; otherwise a pending release is finished first.
BeginAcquire(c) ==
    /\ Idle /\ hend[c] = "queued"
    /\ IF holders > 0
       THEN /\ holders' = holders + 1 /\ hend' = [hend EXCEPT ![c] = "holding"]
            /\ UNCHANGED mutex
       ELSE /\ Begin(c, IF marker THEN "clear" ELSE "inspect")
            /\ UNCHANGED <<holders, hend>>
    /\ UNCHANGED <<marker, helper, retriers, system, service>> /\ Fine

\* End of file on the lease connection; the last holder releases.
BeginRelease(c) ==
    /\ Idle /\ hend[c] = "holding" /\ cend[c] = "closed"
    /\ holders' = holders - 1
    /\ IF holders = 1 /\ marker
       THEN Begin(c, "clear") /\ UNCHANGED hend
       ELSE hend' = [hend EXCEPT ![c] = "none"] /\ UNCHANGED mutex
    /\ UNCHANGED <<marker, helper, retriers, system, service>> /\ Fine

\* Mutant: the background retry does not look at the holders.
BeginRetryBlind ==
    /\ Idle /\ retriers > 0 /\ marker /\ Begin("retry", "clear")
    /\ UNCHANGED <<retriers, holders, hend, marker, helper, system, service>>
    /\ Fine

\* A tick of retryRelease: it ends when somebody holds a lease again.
BeginRetry ==
    /\ Idle /\ retriers > 0
    /\ IF holders > 0 \/ ~marker
       THEN retriers' = retriers - 1 /\ UNCHANGED mutex
       ELSE Begin("retry", "clear") /\ UNCHANGED retriers
    /\ UNCHANGED <<holders, hend, marker, helper, system, service>> /\ Fine

\* pmset -a disablesleep 0
Clear ==
    /\ step = "clear" /\ UNCHANGED <<marker, service>>
    /\ \/ /\ flag' = FALSE /\ ours' = FALSE /\ other' = "no" /\ Fine
          /\ step' = "unmark" /\ UNCHANGED <<who, helper, holders, retriers, hend>>
       \/ UNCHANGED system /\ Failed /\ Fault("cmd")
       \/ flag' = FALSE /\ ours' = FALSE /\ other' = "no" /\ Failed /\ Fault("late")

Acquiring == who \in Conns /\ hend[who] = "queued"

Unmark ==
    /\ step = "unmark" /\ UNCHANGED <<system, service>>
    /\ \/ /\ marker' = FALSE /\ Fine
          /\ IF Acquiring
             THEN Begin(who, "inspect") /\ UNCHANGED <<helper, holders, retriers, hend>>
             ELSE Released
       \/ UNCHANGED marker /\ Failed /\ Fault("file")

\* Mutant: the flag is not read before it is taken over.
InspectSkipped ==
    /\ step = "inspect" /\ step' = "mark" /\ Fine
    /\ UNCHANGED <<system, service, marker, who, helper, holders, retriers, hend>>

\* A flag that is set already belongs to another tool: refuse.
Inspect ==
    /\ step = "inspect" /\ UNCHANGED <<system, service, marker>>
    /\ \/ /\ ~flag /\ step' = "mark" /\ Fine
          /\ UNCHANGED <<who, helper, holders, retriers, hend>>
       \/ flag /\ Failed /\ Fine
       \/ Failed /\ Fault("cmd")

\* Mutant: the flag is written without evidence on disk.
MarkSkipped ==
    /\ step = "mark" /\ step' = "set" /\ Fine
    /\ UNCHANGED <<system, service, marker, who, helper, holders, retriers, hend>>

Mark ==
    /\ step = "mark" /\ UNCHANGED <<system, service>>
    /\ \/ /\ marker' = TRUE /\ step' = "set" /\ Fine
          /\ UNCHANGED <<who, helper, holders, retriers, hend>>
       \/ UNCHANGED marker /\ Failed /\ Fault("file")

\* pmset -a disablesleep 1.  When it fails the marker is removed; the result
\* of that removal is ignored.
UnmarkIgnored == marker' = FALSE \/ ("file" \in Faults /\ UNCHANGED marker)

Set ==
    /\ step = "set" /\ UNCHANGED <<other, service>>
    /\ \/ /\ flag' = TRUE /\ ours' = TRUE /\ UNCHANGED <<marker, helper, retriers>>
          /\ holders' = 1 /\ hend' = [hend EXCEPT ![who] = "holding"]
          /\ Unlock /\ Fine
       \/ /\ UNCHANGED <<flag, ours>> /\ UnmarkIgnored
          /\ Failed /\ Fault("cmd")
       \/ /\ flag' = TRUE /\ ours' = TRUE /\ UnmarkIgnored
          /\ Failed /\ Fault("late")

\* The helper dies between any two commands; launchd starts it again, and it
\* reconciles before it serves.  A failed reconciliation is retried later.
HelperCrash ==
    /\ helper = "serving" /\ Fault("helperCrash")
    /\ helper' = "down" /\ holders' = 0 /\ retriers' = 0 /\ Unlock
    /\ hend' = [c \in Conns |-> "none"]
    /\ UNCHANGED <<marker, system, service>>

\* Mutant: a restarted helper does not reconcile.
HelperStartBare ==
    /\ helper = "down" /\ helper' = "serving"
    /\ UNCHANGED <<mutex, marker, holders, retriers, hend, system, service>> /\ Fine

HelperStart ==
    /\ helper = "down" /\ helper' = "serving"
    /\ IF marker THEN Begin("boot", "clear") ELSE UNCHANGED mutex
    /\ UNCHANGED <<marker, holders, retriers, hend, system, service>> /\ Fine

-----------------------------------------------------------------------------
(***************************************************************************)
(* The control service.                                                    *)
(***************************************************************************)
\* SetEnabled(true) up to the answer.  Nobody listens while the helper is
\* down or reconciles.
Enable ==
    /\ ~quitting /\ call = "none" /\ lease = None
    /\ \/ /\ helper = "serving" /\ who # "boot"
          /\ \E c \in Conns :
                /\ cend[c] = "free" /\ hend[c] = "none"
                /\ cend' = [cend EXCEPT ![c] = "waiting"]
                /\ hend' = [hend EXCEPT ![c] = "queued"]
                /\ target' = c
          /\ call' = "acquire" /\ requested' = TRUE
       \/ /\ helper = "down" \/ who = "boot"
          /\ requested' = FALSE /\ UNCHANGED <<call, target, cend, hend>>
    /\ UNCHANGED <<marker, helper, holders, who, step, retriers, lease,
                   quitting, system>> /\ Fine

CallDone(want) == /\ call' = "none" /\ target' = None /\ requested' = want
                  /\ UNCHANGED quitting

\* The answer: requested keeps what Close may have set meanwhile.
Granted ==
    /\ call = "acquire" /\ hend[target] = "holding"
    /\ CallDone(requested) /\ lease' = target
    /\ cend' = [cend EXCEPT ![target] = "held"]
    /\ UNCHANGED <<hlp, system>> /\ Fine

\* Refused, connection lost, or ten seconds without an answer.
NotGranted ==
    /\ call = "acquire"
    /\ (hend[target] \in {"refused", "none"} /\ Fine) \/ Fault("timeout")
    /\ CallDone(FALSE) /\ UNCHANGED <<lease, hlp, system>>
    /\ cend' = [cend EXCEPT ![target] = "closed"]

\* SetEnabled(false): the lease is given up first, its connection closed then.
Disable ==
    /\ ~quitting /\ call = "none" /\ lease # None
    /\ call' = "close" /\ target' = lease /\ lease' = None
    /\ requested' = FALSE
    /\ UNCHANGED <<cend, quitting, hlp, system>> /\ Fine

CloseLease ==
    /\ call = "close" /\ CallDone(requested)
    /\ cend' = [cend EXCEPT ![target] = "closed"]
    /\ UNCHANGED <<lease, hlp, system>> /\ Fine

\* observe: the helper closed the lease connection.
Observe ==
    /\ lease # None /\ hend[lease] = "none"
    /\ lease' = None /\ requested' = FALSE
    /\ cend' = [cend EXCEPT ![lease] = "closed"]
    /\ UNCHANGED <<call, target, quitting, hlp, system>> /\ Fine

\* Serve returns: Close, whatever SetEnabled is doing; then the process exits.
Quit ==
    /\ ~quitting /\ quitting' = TRUE
    /\ requested' = FALSE /\ lease' = None
    /\ cend' = [c \in Conns |-> IF c = lease THEN "closed" ELSE cend[c]]
    /\ UNCHANGED <<call, target, hlp, system>> /\ Fine

\* The process is gone and launchd starts a fresh one; the kernel closes its
\* connections.
Exit ==
    /\ (quitting /\ Fine) \/ Fault("serviceCrash")
    /\ requested' = FALSE /\ call' = "none" /\ target' = None /\ lease' = None
    /\ quitting' = FALSE
    /\ cend' = [c \in Conns |-> IF cend[c] = "free" THEN "free" ELSE "closed"]
    /\ UNCHANGED <<hlp, system>>

\* Both ends are closed.
Forget(c) ==
    /\ cend[c] = "closed" /\ hend[c] \in {"none", "refused"}
    /\ cend' = [cend EXCEPT ![c] = "free"] /\ hend' = [hend EXCEPT ![c] = "none"]
    /\ UNCHANGED <<marker, helper, holders, who, step, retriers, system, requested,
                   call, target, lease, quitting>> /\ Fine

\* Another tool disables sleep, or gives it up.
Looked == marker \/ step \in {"mark", "set"}
OtherTool ==
    /\ Fault("tool") /\ UNCHANGED <<hlp, service>>
    /\ \/ flag' = TRUE /\ other' = (IF Looked THEN "late" ELSE "first") /\ UNCHANGED ours
       \/ flag' = FALSE /\ other' = "no" /\ ours' = FALSE

HelperStep == \/ \E c \in Conns : BeginAcquire(c) \/ BeginRelease(c)
              \/ BeginRetry \/ Clear \/ Unmark \/ Inspect \/ Mark \/ Set
ServiceStep == Granted \/ NotGranted \/ CloseLease \/ Observe
Next == \/ HelperStep \/ HelperCrash \/ HelperStart
        \/ ServiceStep \/ Enable \/ Disable \/ Quit \/ Exit
        \/ \E c \in Conns : Forget(c)
        \/ OtherTool

Spec == Init /\ [][Next]_vars

\* Goroutines run; an answer that is there is read before the deadline; the
\* one second ticker of each retry gets the mutex between two requests, and
\* launchd's KeepAlive starts a helper that is down.  A service that quits
\* exits.  That commands stop failing is the fault budget.
Fairness ==
    /\ \A c \in Conns : SF_vars(BeginAcquire(c)) /\ SF_vars(BeginRelease(c))
    /\ SF_vars(BeginRetry) /\ WF_vars(HelperStart)
    /\ WF_vars(Clear \/ Unmark \/ Inspect \/ Mark \/ Set)
    /\ WF_vars(Granted \/ CloseLease) /\ WF_vars(NotGranted) /\ WF_vars(Observe)
    /\ WF_vars(quitting /\ Exit)

FairSpec == Spec /\ Fairness

-----------------------------------------------------------------------------
\* Our write of the flag is never outstanding without the marker that lets a
\* later helper undo it, whichever command failed or process died in between
\* (lid-closed-sleep-prevention.md: marker before SleepDisabled=1).
OursIsMarked == ours => marker

\* While the service shows an active lease whose connection is up, the helper
\* counts it and the flag is owned: no release or retry of an earlier lease
\* takes it away from under the new one.
ActiveIsHeld ==
    lease # None /\ hend[lease] = "holding" =>
        /\ holders = Cardinality({c \in Conns : hend[c] = "holding" /\ c # who})
        /\ holders > 0 /\ marker /\ (other = "no" /\ ours => flag)
        /\ step \notin {"clear", "unmark"}

\* A flag another tool had set before the helper looked is never cleared by
\* the helper ("refuse to take over", same document).
OthersFlagKept ==
    [][other = "first" /\ other' # "first" => left' < left /\ UNCHANGED <<hlp, service>>]_vars

\* An active lease is always one that was asked for, except in a service
\* that is shutting down.
ActiveIsRequested == lease # None /\ ~quitting => requested

\* What the service shows as active was asked for and is held by the helper,
\* through late answers, a disable in between and retries of old releases.
ActiveIsTrue == ActiveIsHeld /\ ActiveIsRequested

\* However the last client went away, and whatever failed before, the flag
\* does not stay set by us for ever.
Wanted == \E c \in Conns : cend[c] \in {"waiting", "held"}
Restored == []<>(~ours \/ Wanted)

\* The flag goes back to how it was found: cleared if it was ours, left alone
\* if another tool had set it first.
FlagGivenBack == Restored /\ OthersFlagKept

\* The service does not show an active lease that the helper has lost.
LossNoticed == lease # None /\ hend[lease] = "none" ~> lease = None
=============================================================================
