--------------------------- MODULE MihomoRecovery ---------------------------
(***************************************************************************)
(* The control service looks at the gateway every five seconds and, when   *)
(* the engine is missing or its controller refuses connections, restarts   *)
(* it once (controlapi/mihomo_recovery.go).  The user, the command line    *)
(* and the gateway's own operations restart, stop and start the same       *)
(* engine meanwhile.                                                       *)
(*                                                                         *)
(* A round of the monitor takes seconds and holds no lock: between the     *)
(* status it reads and what it does with it any operation may begin or     *)
(* end.  Its guards are a mutex of the service, a file lock of the helper  *)
(* and the command line, which can only be asked about by taking it, and   *)
(* what it remembers of the incident.                                      *)
(***************************************************************************)
EXTENDS Naturals

CONSTANTS
    SameWifi,   \* the topology has a recovery stage that must allow a restart
    Readers,    \* status requests of the interface probe the file lock too
    Faults,     \* the kinds of failure this instance may inject
    MaxFaults,  \* how many of them
    MaxJobs     \* how many operations the user and the command line ask for

FaultKinds == {"gone", "refusing", "cmd", "status", "save", "create",
               "service", "reboot"}

ASSUME RecoveryAssumption ==
    /\ SameWifi \in BOOLEAN /\ Readers \in BOOLEAN
    /\ Faults \subseteq FaultKinds /\ MaxFaults \in Nat /\ MaxJobs \in Nat

None          == "none"
Confirmations == 2      \* mihomoRecoveryHealthyConfirmations
Refusals      == 2

VARIABLES
    engine,  \* what the engine looks like from outside
    gate,    \* the runtime state file: of this boot, none, of an earlier one
    stage,   \* the recovery stage allows a restart
    flock,   \* who holds the lifecycle file lock
    mu,      \* lifecycleMu is held
    job,     \* lifecycle operations: of the service, of the command line,
             \* and of a service that died while the helper was at work
    ctl,     \* mihomoRecoveryController
    mon,     \* the monitor's round
    fresh,   \* history: a healthy status read since the last restart ended
             \* has been counted
    unrecorded,  \* history: the record of a restart could not be written
    left, asked

vars == <<engine, gate, stage, flock, mu, job, ctl, mon, fresh,
          unrecorded, left, asked>>
host == <<engine, gate, stage>>

Actors == {"svc", "cli", "old"}
Kinds  == {"auto", "manual", "restart", "start", "stop", "reload"}
NoJob  == [kind |-> None, pc |-> None, ok |-> FALSE]
NoMon  == [pc |-> None, seen |-> None, old |-> FALSE]
Idle   == [state |-> "idle", reason |-> None, refused |-> 0, healthy |-> 0,
           attempted |-> FALSE, active |-> FALSE]

TypeOK ==
    /\ engine \in {"up", "refusing", "gone"}
    /\ gate \in {"active", "stopped", "interrupted"} /\ stage \in BOOLEAN
    /\ flock \in Actors \cup {"mon", "reader", None} /\ mu \in BOOLEAN
    /\ job \in [Actors -> [kind : Kinds \cup {None}, ok : BOOLEAN,
                           pc : {None, "call", "work", "replace", "done"}]]
    /\ ctl \in [state : {"idle", "observing", "recovering", "failed"},
                reason : {None, "gone", "refusing"}, refused : 0..Refusals,
                healthy : 0..Confirmations - 1,
                attempted : BOOLEAN, active : BOOLEAN]
    /\ mon \in [pc : {None, "probe1", "status", "probe2", "locked2", "stage",
                      "observe", "try", "undo"},
                seen : {None, "healthy", "gone", "refusing"},
                old : BOOLEAN]
    /\ mon.pc = "try" => mon.seen # "healthy"
    /\ fresh \in BOOLEAN /\ unrecorded \in BOOLEAN
    /\ left \in 0..MaxFaults /\ asked \in 0..MaxJobs

Init ==
    /\ engine = "up" /\ gate = "active" /\ stage = TRUE /\ flock = None
    /\ mu = FALSE /\ job = [a \in Actors |-> NoJob] /\ ctl = Idle
    /\ mon = NoMon /\ fresh = TRUE /\ unrecorded = FALSE /\ left = MaxFaults
    /\ asked = 0

Fine == UNCHANGED <<left, unrecorded>>
Fault(kind) == /\ kind \in Faults /\ left > 0 /\ left' = left - 1
               /\ unrecorded' = IF kind = "create" THEN TRUE ELSE unrecorded

-----------------------------------------------------------------------------
(***************************************************************************)
(* The controller: what the monitor's observations and the restarts make   *)
(* of the incident.                                                        *)
(***************************************************************************)
\* Mutant: one healthy status is enough.
ObserveHealthyOnce(c) == IF c.active THEN c ELSE Idle

\* Mutant: an observation counts while a restart is running.
ObserveHealthyAnyTime(c) ==
    IF c.attempted /\ c.healthy + 1 < Confirmations
    THEN [c EXCEPT !.healthy = @ + 1] ELSE Idle

\* After a restart healthy observations must come in a row.
ObserveHealthy(c) ==
    IF c.active THEN c
    ELSE IF c.attempted /\ c.healthy + 1 < Confirmations
         THEN [c EXCEPT !.healthy = @ + 1, !.state = "recovering"]
         ELSE Idle

ObserveUnknown(c) ==
    IF c.active THEN c ELSE [c EXCEPT !.healthy = 0, !.refused = 0]

\* A failure after a restart ends the incident, a first one is observed.
ObserveFailure(c, reason) ==
    CASE c.active -> c
      [] ~c.active /\ c.attempted /\ c.state = "recovering" ->
           [c EXCEPT !.healthy = 0, !.state = "failed", !.reason = reason]
      [] ~c.active /\ c.state # "recovering" /\ c.attempted -> [c EXCEPT !.healthy = 0]
      [] OTHER ->
           LET count == IF c.reason = reason THEN c.refused ELSE 0
           IN  [c EXCEPT !.healthy = 0, !.state = "observing", !.reason = reason,
                  !.refused = IF reason = "gone" \/ count = Refusals THEN count
                              ELSE count + 1]

\* A missing process is acted on at once, a refused connection the second time.
Triggers(c, reason) ==
    /\ ~c.active /\ ~c.attempted /\ c.state # "failed"
    /\ reason = "gone" \/ ObserveFailure(c, reason).refused >= Refusals

BeginRestart(c, reason) ==
    [c EXCEPT !.state = "recovering", !.attempted = TRUE, !.healthy = 0,
              !.active = TRUE, !.reason = reason]

FinishRestart(c, ok, manual) ==
    [c EXCEPT !.active = FALSE, !.state = IF ok THEN "recovering" ELSE "failed",
              !.attempted = @ \/ manual, !.refused = IF manual THEN 0 ELSE @]

\* What the monitor has read is from before a restart that began or ended.
Aged == [mon EXCEPT !.old = mon.seen # None]

-----------------------------------------------------------------------------
(***************************************************************************)
(* Lifecycle operations.                                                   *)
(***************************************************************************)
Begins(a, kind) == job' = [job EXCEPT ![a] = [kind |-> kind, pc |-> "call", ok |-> FALSE]]
Moves(a, pc)    == job' = [job EXCEPT ![a].pc = pc]
Ends(a, ok)     == job' = [job EXCEPT ![a].pc = "done", ![a].ok = ok]
Restarting      == job["svc"].kind \in {"auto", "manual"}
Drop(a)         == flock' = IF flock = a THEN None ELSE flock

\* A request of the user: the mutex is only tried, and what the operation needs
\* of the gateway is asked before it is accepted.
Request(kind) ==
    /\ asked < MaxJobs /\ asked' = asked + 1 /\ ~mu /\ mu' = TRUE
    /\ CASE kind = "start" -> gate = "stopped" /\ (SameWifi => ~stage)
         [] kind = "stop"  -> TRUE
         [] OTHER -> gate = "active" /\ (SameWifi => stage)
    /\ kind = "reload" => engine # "gone"
    /\ Begins("svc", kind)
    /\ IF kind = "manual"
       THEN ctl' = BeginRestart(ctl, ctl.reason) /\ fresh' = FALSE /\ mon' = Aged
       ELSE UNCHANGED <<ctl, fresh, mon>>
    /\ UNCHANGED <<host, flock>> /\ Fine

Command(kind) ==
    /\ asked < MaxJobs /\ asked' = asked + 1 /\ job["cli"] = NoJob
    /\ Begins("cli", kind)
    /\ UNCHANGED <<host, flock, mu, ctl, mon, fresh>> /\ Fine

\* The file lock is not waited for.
Call(a) ==
    /\ job[a].pc = "call" /\ UNCHANGED <<host, mu, ctl, mon, fresh, asked>>
    /\ \/ flock = None /\ flock' = a /\ Moves(a, "work") /\ Fine
       \/ flock # None /\ UNCHANGED flock /\ Ends(a, FALSE) /\ Fine
       \/ UNCHANGED flock /\ Ends(a, FALSE) /\ Fault("cmd")

\* Mutant: a restart does not look whether there is a gateway.
WorkBlind(a) ==
    /\ job[a].pc = "work" /\ UNCHANGED <<mu, ctl, mon, fresh, asked, stage, flock>>
    /\ Moves(a, "replace") /\ engine' = "gone" /\ Fine
    /\ gate' = IF job[a].kind = "start" THEN "active" ELSE gate

\* Under the file lock: what the manager checks, then the old engine goes.
\* The state file of a new gateway is written before its engine is there.
Work(a) ==
    /\ job[a].pc = "work" /\ UNCHANGED <<mu, ctl, mon, fresh, asked, stage>>
    /\ LET kind == job[a].kind
           refused == CASE kind = "start" -> gate # "stopped"
                        [] kind = "stop"  -> FALSE
                        [] OTHER          -> gate # "active"
       IN  \/ /\ refused /\ Ends(a, FALSE) /\ Drop(a)
              /\ UNCHANGED <<engine, gate>> /\ Fine
           \/ /\ ~refused /\ Moves(a, "replace") /\ engine' = "gone" /\ Fine
              /\ gate' = IF kind = "start" THEN "active" ELSE gate
              /\ UNCHANGED flock
           \/ /\ ~refused /\ Ends(a, FALSE) /\ Drop(a)
              /\ UNCHANGED <<engine, gate>> /\ Fault("cmd")

\* The new engine, or none.  A failed start or reload is rolled back, which may
\* not get far enough, and what fails late fails with the new engine running.
Replace(a) ==
    /\ job[a].pc = "replace" /\ Drop(a)
    /\ UNCHANGED <<mu, ctl, mon, fresh, asked, stage>>
    /\ LET kind == job[a].kind IN
       \/ /\ Ends(a, TRUE) /\ Fine
          /\ engine' = (IF kind = "stop" THEN "gone" ELSE "up")
          /\ gate' = (IF kind = "stop" THEN "stopped" ELSE gate)
       \/ /\ Ends(a, FALSE) /\ Fault("cmd")
          /\ engine' \in (IF kind = "stop" THEN {"gone"} ELSE {"gone", "up"})
          /\ gate' \in (IF kind \in {"start", "reload"} /\ engine' = "gone"
                       THEN {gate, "stopped"} ELSE {gate})

\* Mutant: the operation ends without the mutex being given back.
ConcludeLocked ==
    /\ job["svc"].pc = "done" /\ job' = [job EXCEPT !["svc"] = NoJob]
    /\ mu' = (mu /\ ~job["svc"].ok)
    /\ IF Restarting
       THEN /\ ctl' = FinishRestart(ctl, job["svc"].ok, job["svc"].kind = "manual")
            /\ mon' = Aged
       ELSE UNCHANGED <<ctl, mon>>
    /\ UNCHANGED <<stage, engine, gate, flock, fresh, asked>> /\ Fine

\* recordReloadRecoveryFailure: a reload has left no gateway, and can tell.
Lowered == ~job["svc"].ok /\ job["svc"].kind = "reload" /\ gate = "stopped"

\* The end of runOperationLocked: the stage, the controller, the mutex.
Conclude ==
    /\ job["svc"].pc = "done" /\ job' = [job EXCEPT !["svc"] = NoJob]
    /\ mu' = FALSE
    /\ \/ /\ Fine
          /\ stage' = (IF job["svc"].ok /\ SameWifi /\ job["svc"].kind \in {"start", "stop"}
                       THEN job["svc"].kind = "start" ELSE stage)
       \/ SameWifi /\ Lowered /\ stage' = FALSE /\ Fine
       \/ UNCHANGED stage /\ Fault("save")
    /\ IF Restarting
       THEN /\ ctl' = FinishRestart(ctl, job["svc"].ok, job["svc"].kind = "manual")
            /\ mon' = Aged
       ELSE UNCHANGED <<ctl, mon>>
    /\ UNCHANGED <<engine, gate, flock, fresh, asked>>

Finish(a) ==
    /\ a # "svc" /\ job[a].pc = "done" /\ job' = [job EXCEPT ![a] = NoJob]
    /\ UNCHANGED <<host, flock, mu, ctl, mon, fresh, asked>> /\ Fine

-----------------------------------------------------------------------------
(***************************************************************************)
(* A round of the monitor (evaluateMihomoRecovery).                        *)
(***************************************************************************)
Others == UNCHANGED <<host, job, asked>>
Unknown == ctl' = ObserveUnknown(ctl) /\ mon' = NoMon

\* LifecycleOperationInProgress takes the file lock and gives it back.
Probe(from, to) ==
    /\ mon.pc = from /\ Others /\ UNCHANGED <<mu, fresh>> /\ Fine
    /\ \/ /\ flock = None /\ flock' = "mon"
          /\ mon' = [mon EXCEPT !.pc = to] /\ UNCHANGED ctl
       \/ flock # None /\ Unknown /\ UNCHANGED flock
ProbeFree(from, to) ==
    /\ mon.pc = from /\ flock = "mon" /\ flock' = None
    /\ mon' = [mon EXCEPT !.pc = to]
    /\ Others /\ UNCHANGED <<mu, ctl, fresh>> /\ Fine

Probe1    == Probe(None, "probe1")
Probe1End == ProbeFree("probe1", "status")

\* The status of an engine that is neither missing nor refusing is healthy.
ReadStatus ==
    /\ mon.pc = "status" /\ Others /\ UNCHANGED <<flock, mu, fresh>>
    /\ \/ gate # "active" /\ Unknown /\ Fine
       \/ Unknown /\ Fault("status")
       \/ /\ gate = "active" /\ Fine /\ UNCHANGED ctl
          /\ mon' = [mon EXCEPT !.old = FALSE,
                       !.pc = IF engine = "up" THEN "observe" ELSE "probe2",
                       !.seen = IF engine = "up" THEN "healthy" ELSE engine]

Probe2    == Probe("probe2", "locked2")
Probe2End == ProbeFree("locked2", "stage")

ReadStage ==
    /\ mon.pc = "stage" /\ Others /\ UNCHANGED <<flock, mu, fresh>> /\ Fine
    /\ IF SameWifi /\ ~stage THEN Unknown
       ELSE mon' = [mon EXCEPT !.pc = "observe"] /\ UNCHANGED ctl

Observe ==
    /\ mon.pc = "observe" /\ Others /\ UNCHANGED <<flock, mu>> /\ Fine
    /\ IF mon.seen = "healthy"
       THEN /\ ctl' = ObserveHealthy(ctl) /\ mon' = NoMon
            /\ fresh' = (fresh \/ (~ctl.active /\ ~mon.old))
       ELSE /\ ctl' = ObserveFailure(ctl, mon.seen) /\ UNCHANGED fresh
            /\ mon' = IF Triggers(ctl, mon.seen) THEN [mon EXCEPT !.pc = "try"]
                      ELSE NoMon

\* TryLock, begin and the goroutine.  When the operation cannot be written down
\* the mutex is given back before the controller hears of it.
TryRestart ==
    /\ mon.pc = "try" /\ UNCHANGED <<host, flock, asked>>
    /\ IF mu \/ ctl.attempted \/ ctl.state \in {"recovering", "failed"}
       THEN mon' = NoMon /\ UNCHANGED <<mu, job, ctl, fresh>> /\ Fine
       ELSE /\ ctl' = BeginRestart(ctl, mon.seen) /\ fresh' = FALSE
            /\ \/ /\ mu' = TRUE /\ Begins("svc", "auto")
                  /\ mon' = NoMon /\ Fine
               \/ /\ mon' = [mon EXCEPT !.pc = "undo"]
                  /\ UNCHANGED <<mu, job>> /\ Fault("create")
UndoRestart ==
    /\ mon.pc = "undo" /\ mon' = NoMon /\ ctl' = FinishRestart(ctl, FALSE, FALSE)
    /\ Others /\ UNCHANGED <<flock, mu, fresh>> /\ Fine

Round == \/ Probe1 \/ Probe1End \/ ReadStatus \/ Probe2 \/ Probe2End
         \/ ReadStage \/ Observe \/ TryRestart \/ UndoRestart

-----------------------------------------------------------------------------
\* observeGateway asks for the lock around each status of the interface.
ReaderProbe == /\ Readers /\ flock = None /\ flock' = "reader"
               /\ Others /\ UNCHANGED <<mu, ctl, mon, fresh>> /\ Fine
ReaderEnd   == /\ flock = "reader" /\ flock' = None
               /\ Others /\ UNCHANGED <<mu, ctl, mon, fresh>> /\ Fine

EngineFails ==
    /\ engine # "gone" /\ \A a \in Actors : job[a].pc # "replace"
    /\ \E e \in {"gone", "refusing"} \ {engine} : engine' = e /\ Fault(e)
    /\ UNCHANGED <<gate, stage, flock, mu, job, ctl, mon, fresh, asked>>

\* The controller listens again by itself.
EngineRecovers ==
    /\ engine = "refusing" /\ engine' = "up" /\ Fine
    /\ UNCHANGED <<gate, stage, flock, mu, job, ctl, mon, fresh, asked>>

\* The service dies and is started again: what it knew is lost, the helper
\* finishes what it has begun and what it has been told to begin.
ServiceRestart ==
    /\ Fault("service") /\ mu' = FALSE /\ ctl' = Idle /\ mon' = NoMon
    /\ fresh' = TRUE
    /\ \/ /\ job["svc"].pc \in {"call", "work", "replace"} /\ job["old"] = NoJob
          /\ job' = [job EXCEPT !["old"] = job["svc"], !["svc"] = NoJob]
       \/ /\ job["svc"].pc \notin {"work", "replace"}
          /\ job' = [job EXCEPT !["svc"] = NoJob]
    /\ flock' = CASE flock = "svc" -> "old"
                  [] flock \in {"mon", "reader"} -> None
                  [] OTHER -> flock
    /\ UNCHANGED <<host, asked>>

Reboot ==
    /\ Fault("reboot") /\ engine' = "gone"
    /\ gate' = (IF gate = "stopped" THEN "stopped" ELSE "interrupted")
    /\ mu' = FALSE /\ flock' = None /\ job' = [a \in Actors |-> NoJob]
    /\ ctl' = Idle /\ mon' = NoMon /\ fresh' = TRUE /\ UNCHANGED <<stage, asked>>

JobStep(a) == Call(a) \/ Work(a) \/ Replace(a) \/ Finish(a)

Next ==
    \/ \E kind \in {"manual", "start", "stop", "reload"} : Request(kind)
    \/ \E kind \in {"restart", "start", "stop"} : Command(kind)
    \/ \E a \in Actors : JobStep(a)
    \/ Conclude \/ Round \/ ReaderProbe \/ ReaderEnd
    \/ EngineFails \/ EngineRecovers \/ ServiceRestart \/ Reboot

Spec == Init /\ [][Next]_vars

\* Operations run on, under their timeouts; the ticker fires.
FairSpec == /\ Spec /\ WF_vars(Round) /\ WF_vars(Conclude) /\ WF_vars(ReaderEnd)
            /\ \A a \in Actors : WF_vars(JobStep(a))

-----------------------------------------------------------------------------
AutoBegins == job["svc"].kind # "auto" /\ job'["svc"].kind = "auto"

\* At most one attempt per incident (gateway-lifecycle.md:238): after a restart,
\* automatic or not, nothing is restarted automatically before a status that
\* was read after that restart has shown a healthy engine; as long as every restart
\* could be recorded.
OneAttempt == [][AutoBegins => fresh \/ unrecorded]_vars

\* A restart that comes too late, after the gateway was stopped or the Mac was
\* rebooted, starts no engine.
NoEngineWithoutGateway ==
    gate # "active" /\ (\A a \in Actors : job[a].pc # "replace") => engine = "gone"

\* While the engine is being restarted that is what the interface shows: it
\* offers no second restart ("no manual card appears while ... being recovered").
ShownInAnyCase ==
    Restarting /\ job["svc"].pc # "done" => ctl.state = "recovering"

\* The same as long as every restart could be recorded.
ShownWhileRestarting == unrecorded \/ ShownInAnyCase

\* A failure does not stay unnoticed: again and again the engine is back, the
\* gateway gone, a restart not allowed, or the failure shown.
FailureHandled ==
    []<>(engine = "up" \/ gate # "active" \/ ctl.state = "failed" \/ (SameWifi /\ ~stage))

\* Once the engine stays healthy the incident is over.
IncidentEnds == <>[](engine = "up" /\ gate = "active") => <>[](ctl = Idle)

\* Every incident is settled: a failure is repaired, withdrawn or shown, and
\* what is repaired is shown no longer.  The interface's probes may meet those
\* of the monitor, so that this is about the time after the last of them.
IncidentsSettle == <>[](flock # "reader") => FailureHandled /\ IncidentEnds

\* After the command one waits for new, consecutive healthy statuses
\* (gateway-lifecycle.md:239): none of them was read before the restart ended.
ConfirmedByNewStatus ==
    [][Observe /\ mon.seen = "healthy" /\ ctl.attempted /\ ~ctl.active => ~mon.old]_vars

\* The second probe is there "to close the observation-to-action race with an
\* external omg lifecycle command" (mihomo_recovery.go:205): an engine that a
\* command has meanwhile replaced is not restarted.
RestartsFailedEngine == [][AutoBegins => engine # "up"]_vars

\* An operation is told that another one is running only if one is.
RefusedByOperation ==
    [][\A a \in Actors : job[a].pc = "call" /\ job'[a].pc = "done" /\ left' = left
         => \E b \in Actors \ {a} : job[b].pc \in {"work", "replace"}]_vars
=============================================================================
