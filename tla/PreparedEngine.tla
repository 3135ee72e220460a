--------------------------- MODULE PreparedEngine ---------------------------
(***************************************************************************)
(* The prepared engine (mihomo/prepared.go) and the leases that keep it    *)
(* (controlapi/policy_workspace_helper.go).  While the gateway is stopped  *)
(* the policy page needs an engine to ask, so the privileged helper starts *)
(* one.  It uses the gateway engine's cache and Tailscale identity:        *)
(* there must never be two of them.                                        *)
(*                                                                         *)
(* Two processes work on it, the helper (one operation at a time, under    *)
(* policyManager.mu) and the command line, and exclude each other with a   *)
(* file lock that is never waited for.  What they know of the engine is a  *)
(* journal on disk, written before the fork and completed after it.        *)
(***************************************************************************)
EXTENDS FiniteSets, Naturals

CONSTANTS
    Conns,       \* lease connections of the control service
    Pids,        \* process identities
    CliOps,      \* what is run on the command line
    Faults,      \* the kinds of failure this instance may inject
    MaxFaults,   \* how many of them
    MaxTries,    \* attempts to stop the engine after the last lease (120)
    MaxStarts    \* attempts to start one whose DNS port was taken (3)

FaultKinds == {"cmd", "save", "slow", "exit", "reply", "crash", "lost",
               "boot", "cli", "other", "busy", "reboot"}
None == "none"

ASSUME PreparedAssumption ==
    /\ MaxFaults \in Nat /\ MaxTries \in Nat \ {0} /\ MaxStarts \in Nat \ {0}
    /\ CliOps \subseteq {"start", "stop"} /\ Faults \subseteq FaultKinds
    /\ None \notin Conns \cup Pids /\ IsFiniteSet(Pids)

VARIABLES
    proc,     \* what runs under each process identity
    journal,  \* prepared-mihomo/state.json
    gateway,  \* the gateway's runtime state file and the engine it names
    lock,     \* who holds the lifecycle lock
    op,       \* the operation of the helper and of the command line
    helper,   \* the helper listens
    conn,     \* the helper's end of each lease connection
    tries,    \* failed attempts of each connection's release
    lease,    \* the service's lease connection, possibly a dead one
    quit,     \* the control service is down
    left,     \* fault budget
    happened  \* history: the kinds of failure so far

disk    == <<journal, gateway>>
service == <<lease, quit>>
leases  == <<conn, tries>>
vars    == <<proc, disk, lock, op, helper, leases, service, left, happened>>

Actors == {"helper", "cli"}
Kinds  == {"prepare", "undo", "start", "stop", "config", "release",
           "reconcile", "other"}
Idle   == [kind |-> None, pc |-> None, child |-> None, by |-> None,
           starts |-> 0, failed |-> FALSE]

TypeOK ==
    /\ proc \in [Pids -> {"free", "prepared", "gateway", "dying"}]
    /\ journal \in [state : {None, "intent", "owned"}, pid : Pids \cup {None},
                    boot : BOOLEAN]
    /\ gateway \in [exists : BOOLEAN, pid : Pids \cup {None}, boot : BOOLEAN]
    /\ lock \in Actors \cup {None}
    /\ op \in [Actors -> [kind : Kinds \cup {None},
                 pc : {None, "lock", "check", "stop", "kill", "gone", "forget",
                       "intent", "fork", "save", "ready", "gateway"},
                 child : Pids \cup {None}, by : Conns \cup {None},
                 starts : 0..MaxStarts, failed : BOOLEAN]]
    /\ helper \in BOOLEAN
    /\ conn \in [Conns -> {"free", "held", "closed", "retry"}]
    /\ tries \in [Conns -> 0..MaxTries]
    /\ lease \in Conns \cup {None} /\ quit \in BOOLEAN
    /\ left \in 0..MaxFaults /\ happened \subseteq FaultKinds

NoJournal == [state |-> None, pid |-> None, boot |-> TRUE]
NoGateway == [exists |-> FALSE, pid |-> None, boot |-> TRUE]

Init ==
    /\ proc = [p \in Pids |-> "free"] /\ journal = NoJournal /\ gateway = NoGateway
    /\ lock = None /\ op = [a \in Actors |-> Idle] /\ helper = TRUE
    /\ conn = [c \in Conns |-> "free"] /\ tries = [c \in Conns |-> 0]
    /\ lease = None /\ quit = FALSE /\ left = MaxFaults
    /\ happened = {}

Running  == {p \in Pids : proc[p] # "free"}
Prepared == {p \in Pids : proc[p] = "prepared"}
Alive(p) == p \in Running
Holders  == {c \in Conns : conn[c] \in {"held", "closed"}}
Free     == helper /\ op["helper"] = Idle        \* nobody holds policyManager.mu

Fine == UNCHANGED <<left, happened>>
Faulty(kinds) == /\ kinds \subseteq Faults /\ left > 0 /\ left' = left - 1
                 /\ happened' = happened \cup kinds
Fault(kind) == Faulty({kind})
\* A failure while the helper reconciles has a kind of its own.
Then(a, kind) == IF op[a].kind = "reconcile" THEN "boot" ELSE kind
Fails(a, kind) == Fault(Then(a, kind))

At(a, pc) == op[a].pc = pc
Step(a, pc) == op' = [op EXCEPT ![a].pc = pc] /\ UNCHANGED <<lock, leases, service>>
Op(kind, c) == [Idle EXCEPT !.kind = kind, !.pc = "lock", !.by = c]
Begin(a, kind, c) == op' = [op EXCEPT ![a] = Op(kind, c)]

\* Close the service's lease; the helper sees the end of the connection.
DropLease ==
    /\ lease' = None
    /\ conn' = [c \in Conns |-> IF c = lease /\ conn[c] = "held" THEN "closed"
                                ELSE conn[c]]

Unlock(a) == lock' = IF lock = a THEN None ELSE lock

\* Mutant: nobody tries again to release an engine.
FailOnce(a) ==
    /\ op' = [op EXCEPT ![a] = Idle] /\ Unlock(a) /\ UNCHANGED quit
    /\ CASE op[a].kind \in {"prepare", "undo"} -> DropLease /\ UNCHANGED tries
         [] op[a].kind = "release" ->
              conn' = [conn EXCEPT ![op[a].by] = "free"] /\ UNCHANGED <<tries, lease>>
         [] OTHER -> UNCHANGED <<leases, lease>>

\* The operation is over: a failed request resets the lease, a failed release
\* sleeps and tries again until it has tried MaxTries times.
Succeed(a) ==
    /\ op' = [op EXCEPT ![a] = Idle] /\ Unlock(a) /\ UNCHANGED service
    /\ IF op[a].kind = "release"
       THEN /\ conn' = [conn EXCEPT ![op[a].by] = "free"]
            /\ tries' = [tries EXCEPT ![op[a].by] = 0]
       ELSE UNCHANGED leases
Fail(a) ==
    /\ op' = [op EXCEPT ![a] = Idle] /\ Unlock(a) /\ UNCHANGED quit
    /\ CASE op[a].kind \in {"prepare", "undo"} -> DropLease /\ UNCHANGED tries
         [] op[a].kind = "release" ->
              LET c == op[a].by
                  last == tries[c] + 1 = MaxTries
              IN  /\ conn' = [conn EXCEPT ![c] = IF last THEN "free" ELSE "retry"]
                  /\ tries' = [tries EXCEPT ![c] = IF last THEN 0 ELSE @ + 1]
                  /\ UNCHANGED lease
         [] OTHER -> UNCHANGED <<leases, lease>>

-----------------------------------------------------------------------------
(***************************************************************************)
(* The steps of an operation under the lifecycle lock.                     *)
(***************************************************************************)
\* AcquireLifecycleLock does not wait.  A release that meets a busy lock comes
\* back 250 ms later.  That is one of its attempts ("busy"); but most such waits
\* are not counted here, for nobody holds the lock through all of the 120.
TakeLock(a) ==
    /\ At(a, "lock") /\ UNCHANGED <<proc, disk, helper>>
    /\ \/ /\ lock = None /\ lock' = a /\ Fine
          /\ op' = [op EXCEPT ![a].pc = "check"] /\ UNCHANGED <<leases, service>>
       \/ /\ lock # None /\ op[a].kind # "release" /\ Fail(a) /\ Fine
       \/ /\ lock # None /\ op[a].kind = "release" /\ Fine
          /\ op' = [op EXCEPT ![a] = Idle]
          /\ conn' = [conn EXCEPT ![op[a].by] = "retry"]
          /\ UNCHANGED <<tries, lock, service>>
       \/ /\ lock # None /\ op[a].kind = "release" /\ Fail(a) /\ Fault("busy")

\* What the operation asks first.  A live engine of this boot with the same
\* configuration is used again; one that does not answer is an error, as are
\* a configuration or a gateway state other than the page's.
Check(a) ==
    /\ At(a, "check") /\ UNCHANGED <<proc, disk, helper>>
    /\ CASE op[a].kind = "prepare" ->
              \/ gateway.exists /\ gateway.boot /\ Succeed(a) /\ Fine
              \/ Fail(a) /\ Fine
              \/ ~gateway.exists /\ Step(a, "stop") /\ Fine
              \/ /\ ~gateway.exists /\ journal.state = "owned" /\ journal.boot
                 /\ Alive(journal.pid)
                 /\ (Succeed(a) /\ Fine) \/ (Fail(a) /\ Fails(a, "cmd"))
         [] op[a].kind = "start" ->
              IF gateway.exists THEN Fail(a) /\ Fine ELSE Step(a, "stop") /\ Fine
         [] op[a].kind = "other" -> Fail(a) /\ Fine
         [] OTHER -> Step(a, "stop") /\ Fine

\* Where an operation goes once no prepared engine is left.
Onward(a) ==
    CASE op[a].kind = "prepare" -> Step(a, "intent")
      [] op[a].kind \in {"start", "stop"} -> Step(a, "gateway")
      [] op[a].kind = "undo" ->
           \/ Fail(a)
           \/ /\ op[a].starts < MaxStarts
              /\ op' = [op EXCEPT ![a].pc = "intent", ![a].kind = "prepare",
                                  ![a].failed = FALSE]
              /\ UNCHANGED <<lock, leases, service>>
      [] OTHER -> Succeed(a)

\* Stopping the gateway goes on when the prepared engine cannot be stopped,
\* but then keeps its runtime state.  An engine whose DNS port was taken is told
\* to stop a second time before another is started.  Everything else fails.
GiveUp(a) ==
    \/ op[a].kind # "stop" /\ Fail(a)
    \/ /\ op[a].kind = "stop" /\ UNCHANGED <<lock, leases, service>>
       /\ op' = [op EXCEPT ![a].pc = "gateway", ![a].failed = TRUE]
    \/ /\ op[a].kind = "undo" /\ ~op[a].failed /\ op[a].starts < MaxStarts
       /\ UNCHANGED <<lock, leases, service>>
       /\ op' = [op EXCEPT ![a].pc = "stop", ![a].failed = TRUE]

\* Mutant: a record without an identity does not stop anybody.
StopCheckLoose(a) ==
    /\ At(a, "stop") /\ UNCHANGED <<proc, disk, helper>> /\ Fine
    /\ IF journal.state = "owned" /\ Alive(journal.pid) THEN Step(a, "kill")
       ELSE Step(a, "forget")

\* stopPreparedLocked: a record of an earlier boot is only forgotten, one of
\* this boot without a process identity stops everybody.
StopCheck(a) ==
    /\ At(a, "stop") /\ UNCHANGED <<proc, disk, helper>> /\ Fine
    /\ CASE journal.state = None -> Onward(a)
         [] journal.state # None /\ ~journal.boot -> Step(a, "forget")
         [] journal.state = "intent" /\ journal.boot -> GiveUp(a)
         [] journal.state = "owned" /\ journal.boot ->
              Step(a, IF Alive(journal.pid) THEN "kill" ELSE "forget")

\* process.StopPID: SIGTERM, or after a while SIGKILL, whose effect it does
\* not wait for.
StopPID(p) ==
    \/ proc' = [proc EXCEPT ![p] = "free"] /\ Fine
    \/ proc[p] # "free" /\ proc' = [proc EXCEPT ![p] = "dying"] /\ Fault("slow")

Kill(a) ==
    /\ At(a, "kill") /\ UNCHANGED <<disk, helper>>
    /\ \/ StopPID(journal.pid) /\ Step(a, "gone")
       \/ UNCHANGED proc /\ GiveUp(a) /\ Fails(a, "cmd")

\* Mutant: a process that was sent SIGKILL counts as gone.
AwaitExitNot(a) ==
    /\ At(a, "gone") /\ UNCHANGED <<proc, disk, helper>> /\ Fine
    /\ Step(a, "forget")

\* The journal is kept until the exact process is gone.
AwaitExit(a) ==
    /\ At(a, "gone") /\ UNCHANGED <<proc, disk, helper>> /\ Fine
    /\ IF Alive(journal.pid) THEN GiveUp(a) ELSE Step(a, "forget")

Forget(a) ==
    /\ At(a, "forget") /\ UNCHANGED <<proc, gateway, helper>>
    /\ \/ journal' = NoJournal /\ Fine
          /\ Onward(a)
       \/ UNCHANGED journal /\ GiveUp(a) /\ Fails(a, "save")

\* startPreparedAttempt: the intent is on disk before the fork.
WriteIntent(a) ==
    /\ At(a, "intent") /\ UNCHANGED <<proc, gateway, helper>>
    /\ \/ /\ journal' = [state |-> "intent", pid |-> None, boot |-> TRUE] /\ Fine
          /\ op' = [op EXCEPT ![a].pc = "fork", ![a].starts = @ + 1]
          /\ UNCHANGED <<lock, leases, service>>
       \/ UNCHANGED journal /\ Fail(a) /\ Fails(a, "save")

\* A new process has an identity that no record names.
Unused == {p \in Pids : proc[p] = "free" /\ p \notin {journal.pid, gateway.pid}}

\* runtime.RemoveState on a path that already reports a failure.
RemoveRecord == journal' = NoJournal \/ ("save" \in Faults /\ UNCHANGED journal)

Fork(a) ==
    /\ At(a, "fork") /\ UNCHANGED <<gateway, helper>>
    /\ \/ \E p \in Unused :
             /\ proc' = [proc EXCEPT ![p] = "prepared"]
             /\ op' = [op EXCEPT ![a].pc = "save", ![a].child = p]
             /\ UNCHANGED <<journal, lock, leases, service>> /\ Fine
       \/ UNCHANGED proc /\ RemoveRecord /\ Fail(a) /\ Fails(a, "cmd")

\* The identity is added; without it the child is stopped again, and the
\* record removed if that was reported as done.  A child that can neither be
\* identified nor stopped is lost.
SaveIdentity(a) ==
    /\ At(a, "save") /\ UNCHANGED <<gateway, helper>>
    /\ LET child == op[a].child IN
       \/ /\ journal' = [state |-> "owned", pid |-> child, boot |-> TRUE]
          /\ UNCHANGED proc /\ Step(a, "ready") /\ Fine
       \/ /\ proc' = [proc EXCEPT ![child] = "free"] /\ RemoveRecord
          /\ Fail(a) /\ Fails(a, "save")
       \/ /\ proc[child] # "free" /\ proc' = [proc EXCEPT ![child] = "dying"]
          /\ RemoveRecord /\ Fail(a) /\ Faulty({"slow", Then(a, "save")})
       \/ UNCHANGED <<proc, journal>> /\ Fail(a) /\ Fails(a, "lost")

\* waitPreparedReady, then the page's question; a failure of the first stops
\* the engine, and a taken DNS port starts another one.
AwaitReady(a) ==
    /\ At(a, "ready") /\ UNCHANGED <<proc, disk, helper>>
    /\ \/ Alive(journal.pid) /\ Succeed(a) /\ Fine
       \/ Alive(journal.pid) /\ Fail(a) /\ Fails(a, "cmd")
       \/ /\ (~Alive(journal.pid) /\ Fine) \/ Fails(a, "cmd")
          /\ op' = [op EXCEPT ![a].kind = "undo", ![a].pc = "stop"]
          /\ UNCHANGED <<lock, leases, service>>

\* Manager.start and Manager.stop as far as they concern the engine: the
\* module GatewayLifecycle has their steps.
StartGateway(a) ==
    /\ At(a, "gateway") /\ op[a].kind = "start" /\ UNCHANGED <<journal, helper>>
    /\ \/ \E p \in Unused :
             /\ proc' = [proc EXCEPT ![p] = "gateway"]
             /\ gateway' = [exists |-> TRUE, pid |-> p, boot |-> TRUE]
             /\ Succeed(a) /\ Fine
       \/ UNCHANGED <<proc, gateway>> /\ Fail(a) /\ Fails(a, "cmd")

StopGateway(a) ==
    /\ At(a, "gateway") /\ op[a].kind = "stop" /\ UNCHANGED <<journal, helper>>
    /\ \/ /\ gateway.exists /\ gateway.boot /\ StopPID(gateway.pid)
          /\ IF op[a].failed THEN UNCHANGED gateway /\ Fail(a)
                             ELSE gateway' = NoGateway /\ Succeed(a)
       \/ /\ ~(gateway.exists /\ gateway.boot) /\ UNCHANGED proc /\ Fine
          /\ gateway' = IF op[a].failed THEN gateway ELSE NoGateway
          /\ IF op[a].failed THEN Fail(a) ELSE Succeed(a)
       \/ UNCHANGED <<proc, gateway>> /\ Fail(a) /\ Fails(a, "cmd")

OpStep(a) == \/ TakeLock(a) \/ Check(a) \/ StopCheck(a) \/ Kill(a)
             \/ AwaitExit(a) \/ Forget(a) \/ WriteIntent(a) \/ Fork(a)
             \/ SaveIdentity(a) \/ AwaitReady(a) \/ StartGateway(a)
             \/ StopGateway(a)

-----------------------------------------------------------------------------
(***************************************************************************)
(* Leases and requests.                                                    *)
(***************************************************************************)
\* HoldPolicyWorkspace; if the answer is late the service closes the connection.
AcquireLease ==
    /\ ~quit /\ lease = None /\ Free
    /\ \E c \in Conns :
          /\ conn[c] = "free"
          /\ \/ conn' = [conn EXCEPT ![c] = "held"] /\ lease' = c /\ Fine
             \/ conn' = [conn EXCEPT ![c] = "closed"] /\ UNCHANGED lease
                /\ Fault("reply")
    /\ UNCHANGED <<proc, disk, lock, op, helper, tries, quit>>

\* A policy request on a lease that the helper does not know (it was started
\* anew) resets it.
RequestPolicies ==
    /\ ~quit /\ lease # None /\ Free
    /\ UNCHANGED <<proc, disk, lock, helper, tries, quit>> /\ Fine
    /\ IF Holders = {} THEN DropLease /\ UNCHANGED op
                       ELSE Begin("helper", "prepare", None) /\ UNCHANGED <<conn, lease>>

\* The user starts or stops the gateway or saves the configuration.
RequestOther ==
    /\ ~quit /\ Free
    /\ \E kind \in {"start", "stop", "config"} : Begin("helper", kind, None)
    /\ UNCHANGED <<proc, disk, lock, helper, leases, service>> /\ Fine

\* The control service ends, in order or not, and is started again.
Quit ==
    /\ ~quit /\ quit' = TRUE /\ DropLease /\ Fine
    /\ UNCHANGED <<proc, disk, lock, op, helper, tries>>
Restart ==
    /\ quit /\ quit' = FALSE /\ Fine
    /\ UNCHANGED <<proc, disk, lock, op, helper, leases, lease>>

\* helperPolicyLeases.release: the last holder stops the engine.
Release(c) ==
    /\ conn[c] = "closed" /\ Free
    /\ IF Holders = {c}
       THEN conn' = [conn EXCEPT ![c] = "retry"] /\ Begin("helper", "release", c)
       ELSE conn' = [conn EXCEPT ![c] = "free"] /\ UNCHANGED op
    /\ UNCHANGED <<proc, disk, lock, helper, tries, service>> /\ Fine

\* Mutant: the background attempt does not look for a new holder.
RetryReleaseBlind(c) ==
    /\ conn[c] = "retry" /\ Free /\ Begin("helper", "release", c)
    /\ UNCHANGED <<proc, disk, lock, helper, leases, service>> /\ Fine

\* 250 ms later: a new holder has taken over, or the next attempt.
RetryRelease(c) ==
    /\ conn[c] = "retry" /\ Free
    /\ IF Holders # {}
       THEN /\ conn' = [conn EXCEPT ![c] = "free"] /\ UNCHANGED op
            /\ tries' = [tries EXCEPT ![c] = 0]
       ELSE Begin("helper", "release", c) /\ UNCHANGED leases
    /\ UNCHANGED <<proc, disk, lock, helper, service>> /\ Fine

-----------------------------------------------------------------------------
(***************************************************************************)
(* What nobody asked for.                                                  *)
(***************************************************************************)
\* The helper dies, and launchd starts it again: it tries once to stop an
\* engine that is left.  Between fork and identity the engine is lost.
HelperCrash ==
    /\ helper /\ helper' = FALSE
    /\ Fault(IF op["helper"].pc \in {"fork", "save"} THEN "lost" ELSE "crash")
    /\ op' = [op EXCEPT !["helper"] = Idle] /\ Unlock("helper")
    /\ conn' = [c \in Conns |-> "free"] /\ tries' = [c \in Conns |-> 0]
    /\ lease' = IF op["helper"].kind \in {"prepare", "undo"} THEN None ELSE lease
    /\ UNCHANGED <<proc, disk, quit>>

\* Mutant: the helper does not reconcile when it starts.
HelperStartBare ==
    /\ ~helper /\ helper' = TRUE /\ Fine
    /\ UNCHANGED <<proc, disk, lock, op, leases, service>>

HelperStart ==
    /\ ~helper /\ helper' = TRUE /\ Begin("helper", "reconcile", None) /\ Fine
    /\ UNCHANGED <<proc, disk, lock, leases, service>>

\* omg start, omg stop, or a command that fails once it has the lock.
CliBegin ==
    /\ op["cli"] = Idle
    /\ \/ \E kind \in CliOps : Begin("cli", kind, None) /\ Fine
       \/ Begin("cli", "other", None) /\ Fault("other")
    /\ UNCHANGED <<proc, disk, lock, helper, leases, service>>

CliCrash ==
    /\ op["cli"] # Idle /\ Fault("cli")
    /\ op' = [op EXCEPT !["cli"] = Idle] /\ Unlock("cli")
    /\ UNCHANGED <<proc, disk, helper, leases, service>>

EngineExits ==
    /\ \E p \in Running : proc[p] # "dying" /\ proc' = [proc EXCEPT ![p] = "free"]
    /\ Fault("exit") /\ UNCHANGED <<disk, lock, op, helper, leases, service>>

KilledIsGone ==
    /\ \E p \in Running : proc[p] = "dying" /\ proc' = [proc EXCEPT ![p] = "free"]
    /\ UNCHANGED <<disk, lock, op, helper, leases, service>> /\ Fine

Reboot ==
    /\ Fault("reboot") /\ proc' = [p \in Pids |-> "free"]
    /\ journal' = [journal EXCEPT !.boot = journal.state = None]
    /\ gateway' = [gateway EXCEPT !.boot = ~gateway.exists]
    /\ lock' = None /\ op' = [a \in Actors |-> Idle] /\ helper' = FALSE
    /\ conn' = [c \in Conns |-> "free"] /\ tries' = [c \in Conns |-> 0]
    /\ lease' = None /\ quit' = TRUE

Next == \/ \E a \in Actors : OpStep(a)
        \/ AcquireLease \/ RequestPolicies \/ RequestOther \/ Quit \/ Restart
        \/ \E c \in Conns : Release(c) \/ RetryRelease(c)
        \/ HelperCrash \/ HelperStart \/ CliBegin \/ CliCrash
        \/ EngineExits \/ KilledIsGone \/ Reboot

Spec == Init /\ [][Next]_vars

\* Operations run on; launchd starts the helper; a killed process goes; and a
\* release gets policyManager.mu in the end, however many requests want it.
Fairness ==
    /\ \A a \in Actors : WF_vars(OpStep(a))
    /\ WF_vars(HelperStart) /\ WF_vars(KilledIsGone)
    /\ \A c \in Conns : SF_vars(Release(c)) /\ SF_vars(RetryRelease(c))
FairSpec == Spec /\ Fairness

-----------------------------------------------------------------------------
\* Prepared and gateway engine, of now or on their way out: never two at a time
\* use the cache and the Tailscale identity (mihomo-profile-overlay.md:263).
\* It holds as long as a process that is told to stop goes at once.
OneEngine   == Cardinality(Running) <= 1
SingleOwner == "slow" \notin happened => OneEngine

\* A prepared engine that runs has a record of this boot: a crash at any point
\* leaves at least the intent, which stops every later start.
EngineIsJournaled ==
    Prepared # {} => journal.state # None /\ journal.boot

\* A release never stops the engine of a page that has a lease meanwhile.
LeasedEngineKept ==
    [][op["helper"].kind = "release" /\ lock = "helper" /\ op' # op
          /\ Prepared' # Prepared => Holders = {}]_vars

\* The record of an identified engine is kept until exactly that process is
\* gone, also when it had to be killed ("ownership retained").
RecordOutlivesEngine ==
    [][journal.state = "owned" /\ journal.boot /\ journal'.state = None
          => ~Alive(journal.pid)]_vars

\* As long as the helper lives, an engine without a lease is waited for by a
\* release whenever it has nothing to do: none is forgotten when leases come
\* and go.
EngineIsWanted ==
    happened \cap {"crash", "lost", "boot"} = {} /\ Free /\ op["cli"] = Idle /\ Prepared # {} =>
        Holders # {} \/ \E c \in Conns : conn[c] = "retry"

\* A prepared engine is always accounted for: by a record for the next helper,
\* and by a lease or a pending release for this one.
EngineIsAccounted == EngineIsJournaled /\ EngineIsWanted

\* Once the control service is gone, so is the prepared engine in the end
\* ("Control Service EOF releases its Helper lease").
Released == quit ~> (~quit \/ Prepared = {})
=============================================================================
