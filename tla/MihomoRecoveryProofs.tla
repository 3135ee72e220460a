------------------------ MODULE MihomoRecoveryProofs ------------------------
(***************************************************************************)
(* Proofs about what keeps a running engine right: about MihomoRecovery,   *)
(* for any number of failures and operations (its types, that a late       *)
(* restart starts no engine, that there is one automatic restart per       *)
(* incident), and, from the heading "Lists that are put together from      *)
(* lists" on, about DeviceRouting, for every valid document, source and    *)
(* sequence of requests (a change of mode is whole, a selection is kept,   *)
(* a policy is carried out).                                               *)
(***************************************************************************)
EXTENDS MihomoRecovery, DeviceRouting, FiniteSetTheorems, SequenceTheorems,
        WellFoundedInduction, TLAPS

\* What a controller is.
Controllers ==
    [state : {"idle", "observing", "recovering", "failed"},
     reason : {None, "gone", "refusing"}, refused : 0..Refusals,
     healthy : 0..Confirmations - 1, attempted : BOOLEAN, active : BOOLEAN]

\* Each function of the controller returns a controller.
LEMMA ControllerTypes ==
    ASSUME NEW c \in Controllers, NEW r \in {None, "gone", "refusing"},
           NEW ok \in BOOLEAN, NEW manual \in BOOLEAN
    PROVE  /\ Idle \in Controllers /\ ObserveHealthy(c) \in Controllers
           /\ ObserveUnknown(c) \in Controllers
           /\ ObserveFailure(c, r) \in Controllers
           /\ BeginRestart(c, r) \in Controllers
           /\ FinishRestart(c, ok, manual) \in Controllers
  <1>1. Idle \in Controllers
    BY DEF Idle, Controllers, None, Refusals, Confirmations
  <1>2. ObserveHealthy(c) \in Controllers
    <2>1. CASE c.attempted /\ c.healthy + 1 < Confirmations
      <3>1. c.healthy + 1 \in 0..Confirmations - 1
        BY <2>1 DEF Controllers, Confirmations
      <3>2. [c EXCEPT !.healthy = @ + 1, !.state = "recovering"] \in Controllers
        BY <3>1 DEF Controllers
      <3> QED BY <2>1, <3>2 DEF ObserveHealthy
    <2>2. CASE ~(c.attempted /\ c.healthy + 1 < Confirmations)
      BY <1>1, <2>2 DEF ObserveHealthy
    <2> QED BY <2>1, <2>2
  <1> DEFINE Zero == 0 \in 0..Confirmations - 1 /\ 0 \in 0..Refusals
  <1>z. Zero
    BY DEF Confirmations, Refusals
  <1> HIDE DEF Zero
  <1>3. ObserveUnknown(c) \in Controllers
    BY <1>z DEF ObserveUnknown, Controllers, Zero
  <1>4. ObserveFailure(c, r) \in Controllers
    <2> DEFINE count == IF c.reason = r THEN c.refused ELSE 0
               next  == IF r = "gone" \/ count = Refusals THEN count ELSE count + 1
    <2>1. next \in 0..Refusals
      BY DEF Controllers, Refusals
    <2> HIDE DEF next
    <2>2. CASE c.active \/ c.attempted
      BY <1>z, <2>2 DEF ObserveFailure, Controllers, Zero
    <2>3. CASE ~c.active /\ ~c.attempted
      <3>1. ObserveFailure(c, r) =
              [c EXCEPT !.healthy = 0, !.state = "observing", !.reason = r,
                        !.refused = next]
        BY <2>3 DEF ObserveFailure, next
      <3> QED BY <1>z, <2>1, <3>1 DEF Controllers, Zero
    <2> QED BY <2>2, <2>3
  <1>5. BeginRestart(c, r) \in Controllers
    BY <1>z DEF BeginRestart, Controllers, Zero
  <1>6. FinishRestart(c, ok, manual) \in Controllers
    BY <1>z DEF FinishRestart, Controllers, Zero
  <1> QED BY <1>1, <1>2, <1>3, <1>4, <1>5, <1>6

Jobs == [kind : Kinds \cup {None}, ok : BOOLEAN,
         pc : {None, "call", "work", "replace", "done"}]
Rounds == [pc : {None, "probe1", "status", "probe2", "locked2", "stage",
                 "observe", "try", "undo"},
           seen : {None, "healthy", "gone", "refusing"},
           old : BOOLEAN]

LEMMA Parts ==
    TypeOK <=>
      /\ engine \in {"up", "refusing", "gone"}
      /\ gate \in {"active", "stopped", "interrupted"} /\ stage \in BOOLEAN
      /\ flock \in Actors \cup {"mon", "reader", None} /\ mu \in BOOLEAN
      /\ job \in [Actors -> Jobs] /\ ctl \in Controllers /\ mon \in Rounds
      /\ (mon.pc = "try" => mon.seen # "healthy")
      /\ fresh \in BOOLEAN /\ unrecorded \in BOOLEAN
      /\ left \in 0..MaxFaults /\ asked \in 0..MaxJobs
  BY DEF TypeOK, Jobs, Controllers, Rounds

LEMMA TypeInit == Init => TypeOK
  <1> SUFFICES ASSUME Init PROVE TypeOK
    OBVIOUS
  <1>1. NoJob \in Jobs /\ NoMon \in Rounds /\ Idle \in Controllers
    BY DEF NoJob, Jobs, NoMon, Rounds, Idle, Controllers, None, Refusals,
           Confirmations
  <1>2. MaxFaults \in 0..MaxFaults /\ 0 \in 0..MaxJobs /\ NoMon.pc # "try"
    BY RecoveryAssumption DEF NoMon, None
  <1> QED BY <1>1, <1>2, Parts DEF Init

\* A budget is never overdrawn.
LEMMA Budget ==
    ASSUME left \in 0..MaxFaults, unrecorded \in BOOLEAN, NEW kind,
           Fine \/ Fault(kind)
    PROVE  left' \in 0..MaxFaults /\ unrecorded' \in BOOLEAN
  <1>1. left' = left \/ (left > 0 /\ left' = left - 1)
    BY Zenon DEF Fine, Fault
  <1>2. unrecorded' = TRUE \/ unrecorded' = unrecorded
    BY DEF Fine, Fault
  <1>3. left' \in 0..MaxFaults
    BY <1>1, RecoveryAssumption
  <1> QED BY Zenon, <1>2, <1>3

\* The steps of an operation keep the job well-formed.
LEMMA BeginType ==
    ASSUME job \in [Actors -> Jobs], NEW a \in Actors, NEW kind \in Kinds,
           Begins(a, kind)
    PROVE  job' \in [Actors -> Jobs]
  <1>1. [kind |-> kind, pc |-> "call", ok |-> FALSE] \in Jobs
    BY DEF Jobs
  <1> QED BY <1>1 DEF Begins

LEMMA MoveType ==
    ASSUME job \in [Actors -> Jobs], NEW a \in Actors,
           NEW pc \in {"call", "work", "replace", "done"}, Moves(a, pc)
    PROVE  job' \in [Actors -> Jobs]
  <1>1. [job[a] EXCEPT !.pc = pc] \in Jobs
    BY DEF Jobs
  <1> QED BY <1>1 DEF Moves, Jobs

LEMMA EndType ==
    ASSUME job \in [Actors -> Jobs], NEW a \in Actors, NEW ok \in BOOLEAN,
           Ends(a, ok)
    PROVE  job' \in [Actors -> Jobs]
  <1>1. [[job[a] EXCEPT !.pc = "done"] EXCEPT !.ok = ok] \in Jobs
    BY DEF Jobs
  <1>2. job' = [job EXCEPT ![a] = [[job[a] EXCEPT !.pc = "done"] EXCEPT !.ok = ok]]
    BY DEF Ends, Jobs
  <1> QED BY <1>1, <1>2

LEMMA TypeStep == TypeOK /\ [Next]_vars => TypeOK'
  <1> SUFFICES ASSUME TypeOK, [Next]_vars PROVE TypeOK'
    OBVIOUS
  <1>t. /\ engine \in {"up", "refusing", "gone"}
        /\ gate \in {"active", "stopped", "interrupted"} /\ stage \in BOOLEAN
        /\ flock \in Actors \cup {"mon", "reader", None} /\ mu \in BOOLEAN
        /\ job \in [Actors -> Jobs] /\ ctl \in Controllers /\ mon \in Rounds
        /\ (mon.pc = "try" => mon.seen # "healthy")
        /\ fresh \in BOOLEAN /\ unrecorded \in BOOLEAN
        /\ left \in 0..MaxFaults /\ asked \in 0..MaxJobs
    BY Parts
  <1>g. (/\ engine' \in {"up", "refusing", "gone"}
         /\ gate' \in {"active", "stopped", "interrupted"} /\ stage' \in BOOLEAN
         /\ flock' \in Actors \cup {"mon", "reader", None} /\ mu' \in BOOLEAN
         /\ job' \in [Actors -> Jobs] /\ ctl' \in Controllers /\ mon' \in Rounds
         /\ (mon'.pc = "try" => mon'.seen # "healthy")
         /\ fresh' \in BOOLEAN /\ unrecorded' \in BOOLEAN
         /\ left' \in 0..MaxFaults /\ asked' \in 0..MaxJobs)
        => TypeOK'
    BY DEF TypeOK, Jobs, Controllers, Rounds
  <1>n. NoJob \in Jobs /\ NoMon \in Rounds /\ Aged \in Rounds /\ Idle \in Controllers
        /\ NoMon.pc # "try" /\ Aged.pc = mon.pc /\ Aged.seen = mon.seen
    <2>1. NoJob \in Jobs /\ NoMon \in Rounds /\ NoMon.pc # "try"
      BY DEF NoJob, Jobs, NoMon, Rounds, None
    <2>2. Idle \in Controllers
      BY DEF Idle, Controllers, None, Refusals, Confirmations
    <2>3. Aged \in Rounds /\ Aged.pc = mon.pc /\ Aged.seen = mon.seen
      BY <1>t DEF Aged, Rounds
    <2> QED BY <2>1, <2>2, <2>3
  <1>a. "svc" \in Actors /\ "cli" \in Actors /\ "old" \in Actors
    BY DEF Actors
  <1>k. asked < MaxJobs => asked + 1 \in 0..MaxJobs
    BY <1>t, RecoveryAssumption
  <1>u. ctl.reason \in {None, "gone", "refusing"} /\ job["svc"].ok \in BOOLEAN
    BY <1>t, <1>a DEF Controllers, Jobs
  <1>1. ASSUME NEW kind \in {"manual", "start", "stop", "reload"}, Request(kind)
        PROVE  TypeOK'
    <2>1. BeginRestart(ctl, ctl.reason) \in Controllers
      BY <1>t, <1>u, ControllerTypes
    <2>2. job' \in [Actors -> Jobs]
      BY <1>1, <1>t, <1>a, BeginType DEF Request, Kinds
    <2> QED BY <1>1, <1>t, <1>g, <1>n, <1>k, <2>1, <2>2, Budget
            DEF Request, host
  <1>2. ASSUME NEW kind \in {"restart", "start", "stop"}, Command(kind)
        PROVE  TypeOK'
    <2>1. job' \in [Actors -> Jobs]
      BY <1>2, <1>t, <1>a, BeginType DEF Command, Kinds
    <2> QED BY <1>2, <1>t, <1>g, <1>k, <2>1, Budget DEF Command, host
  <1>3. ASSUME NEW a \in Actors, JobStep(a) PROVE TypeOK'
    <2>1. CASE Call(a)
      <3>1. job' \in [Actors -> Jobs]
        BY <2>1, <1>t, MoveType, EndType DEF Call
      <3>2. left' \in 0..MaxFaults /\ unrecorded' \in BOOLEAN
        BY <2>1, <1>t, Budget DEF Call
      <3> QED BY <2>1, <1>t, <1>g, <3>1, <3>2 DEF Call, host
    <2>2. CASE Work(a)
      <3>1. job' \in [Actors -> Jobs]
        BY <2>2, <1>t, MoveType, EndType DEF Work
      <3>2. left' \in 0..MaxFaults /\ unrecorded' \in BOOLEAN
        BY <2>2, <1>t, Budget DEF Work
      <3> QED BY <2>2, <1>t, <1>g, <3>1, <3>2 DEF Work, Drop
    <2>3. CASE Replace(a)
      <3>1. job' \in [Actors -> Jobs]
        BY <2>3, <1>t, EndType DEF Replace
      <3>2. left' \in 0..MaxFaults /\ unrecorded' \in BOOLEAN
        BY <2>3, <1>t, Budget DEF Replace
      <3> QED BY <2>3, <1>t, <1>g, <3>1, <3>2 DEF Replace, Drop
    <2>4. CASE Finish(a)
      <3>1. job' \in [Actors -> Jobs]
        BY <2>4, <1>t, <1>n DEF Finish
      <3> QED BY <2>4, <1>t, <1>g, <3>1 DEF Finish, host, Fine
    <2> QED BY <1>3, <2>1, <2>2, <2>3, <2>4 DEF JobStep
  <1>4. CASE Conclude
    <2>1. job' \in [Actors -> Jobs]
      BY <1>4, <1>t, <1>n DEF Conclude
    <2>2. FinishRestart(ctl, job["svc"].ok, job["svc"].kind = "manual") \in Controllers
      BY <1>t, <1>u, ControllerTypes
    <2>3. left' \in 0..MaxFaults /\ unrecorded' \in BOOLEAN
      BY <1>4, <1>t, Budget DEF Conclude
    <2> QED BY <1>4, <1>t, <1>g, <1>n, <2>1, <2>2, <2>3 DEF Conclude
  <1>5. CASE Round
    <2>u. ObserveUnknown(ctl) \in Controllers
      BY <1>t, ControllerTypes
    <2>1. ASSUME NEW from, NEW to \in {"probe1", "locked2"}, Probe(from, to)
          PROVE  TypeOK'
      BY <2>1, <1>t, <1>g, <1>n, <2>u DEF Probe, Others, host, Fine, Unknown, Rounds
    <2>2. ASSUME NEW from, NEW to \in {"status", "stage"}, ProbeFree(from, to)
          PROVE  TypeOK'
      BY <2>2, <1>t, <1>g DEF ProbeFree, Others, host, Fine, Rounds
    <2>3. CASE ReadStatus
      <3>1. left' \in 0..MaxFaults /\ unrecorded' \in BOOLEAN
        BY <2>3, <1>t, Budget DEF ReadStatus
      <3>2. mon' \in Rounds /\ (mon'.pc = "try" => mon'.seen # "healthy")
        BY <2>3, <1>t, <1>n DEF ReadStatus, Unknown, Rounds
      <3> QED BY <2>3, <1>t, <1>g, <2>u, <3>1, <3>2
              DEF ReadStatus, Others, host, Unknown
    <2>4. CASE ReadStage
      BY <2>4, <1>t, <1>g, <1>n, <2>u DEF ReadStage, Others, host, Fine, Unknown, Rounds
    <2>5. CASE Observe
      <3>1. ObserveHealthy(ctl) \in Controllers
        BY <1>t, ControllerTypes
      <3>2. mon.seen # "healthy" =>
              ObserveFailure(ctl, mon.seen) \in Controllers
        BY <1>t, ControllerTypes DEF Rounds
      <3>3. fresh' \in BOOLEAN
        BY <2>5, <1>t DEF Observe
      <3>4. mon' \in Rounds /\ (mon'.pc = "try" => mon'.seen # "healthy")
        BY <2>5, <1>t, <1>n DEF Observe, Rounds
      <3> QED BY <2>5, <1>t, <1>g, <3>1, <3>2, <3>3, <3>4 DEF Observe, Others, host, Fine
    <2>6. CASE TryRestart
      <3>1. BeginRestart(ctl, mon.seen) \in Controllers
        BY <2>6, <1>t, ControllerTypes DEF TryRestart, Rounds
      <3>2. job' \in [Actors -> Jobs]
        BY <2>6, <1>t, <1>a, BeginType DEF TryRestart, Kinds
      <3>3. left' \in 0..MaxFaults /\ unrecorded' \in BOOLEAN
        BY <2>6, <1>t, Budget DEF TryRestart
      <3>4. mon' \in Rounds /\ mon'.pc # "try"
        BY <2>6, <1>t, <1>n DEF TryRestart, Rounds
      <3> QED BY <2>6, <1>t, <1>g, <3>1, <3>2, <3>3, <3>4 DEF TryRestart, host
    <2>7. CASE UndoRestart
      <3>1. FinishRestart(ctl, FALSE, FALSE) \in Controllers
        BY <1>t, ControllerTypes, <1>u
      <3> QED BY <2>7, <1>t, <1>g, <1>n, <3>1 DEF UndoRestart, Others, host, Fine
    <2> QED BY <1>5, <2>1, <2>2, <2>3, <2>4, <2>5, <2>6, <2>7
            DEF Round, Probe1, Probe1End, Probe2, Probe2End
  <1>6. CASE ReaderProbe \/ ReaderEnd
    BY <1>6, <1>t, <1>g DEF ReaderProbe, ReaderEnd, Others, host, Fine
  <1>7. CASE EngineFails \/ EngineRecovers
    <2>1. left' \in 0..MaxFaults /\ unrecorded' \in BOOLEAN
      BY <1>7, <1>t, Budget DEF EngineFails, EngineRecovers
    <2> QED BY <1>7, <1>t, <1>g, <2>1 DEF EngineFails, EngineRecovers
  <1>8. CASE ServiceRestart
    <2>1. left' \in 0..MaxFaults /\ unrecorded' \in BOOLEAN
      BY <1>8, <1>t, Budget DEF ServiceRestart
    <2>2. job' \in [Actors -> Jobs]
      BY <1>8, <1>t, <1>n, <1>a DEF ServiceRestart
    <2>3. flock' \in Actors \cup {"mon", "reader", None}
      BY <1>8, <1>t, <1>a DEF ServiceRestart
    <2> QED BY <1>8, <1>t, <1>g, <1>n, <2>1, <2>2, <2>3 DEF ServiceRestart, host
  <1>9. CASE Reboot
    <2>1. left' \in 0..MaxFaults /\ unrecorded' \in BOOLEAN
      BY <1>9, <1>t, Budget DEF Reboot
    <2>2. job' \in [Actors -> Jobs]
      BY <1>9, <1>n DEF Reboot
    <2> QED BY <1>9, <1>t, <1>g, <1>n, <2>1, <2>2 DEF Reboot
  <1>10. CASE UNCHANGED vars
    BY <1>10, <1>t, <1>g DEF vars
  <1> QED BY <1>1, <1>2, <1>3, <1>4, <1>5, <1>6, <1>7, <1>8, <1>9, <1>10 DEF Next

\* Every variable keeps its type, whatever is asked and whatever fails.
THEOREM TypeCorrect == Spec => []TypeOK
  BY TypeInit, TypeStep, PTL DEF Spec

-----------------------------------------------------------------------------
(***************************************************************************)
(* A late restart starts no engine.  Only the holder of the file lock is   *)
(* at work, and a restart at work has found a gateway.                     *)
(***************************************************************************)
AtWork(a) == job[a].pc \in {"work", "replace"}

LockInv ==
    /\ \A a \in Actors : AtWork(a) => flock = a
    /\ \A a \in Actors : job[a].pc = "replace" /\ job[a].kind # "stop" => gate = "active"
    /\ \A a \in Actors : job[a].pc = "replace" => engine = "gone"
    /\ NoEngineWithoutGateway

LEMMA LockInit == Init => LockInv
  BY DEF Init, LockInv, AtWork, NoEngineWithoutGateway, NoJob, None, Actors

\* What a step of an operation makes of the jobs.
LEMMA JobSteps ==
    ASSUME TypeOK, NEW a \in Actors, NEW b \in Actors
    PROVE  /\ \A kind : Begins(a, kind) =>
                job'[b] = IF b = a THEN [kind |-> kind, pc |-> "call", ok |-> FALSE]
                          ELSE job[b]
           /\ \A pc : Moves(a, pc) =>
                /\ job'[b].kind = job[b].kind
                /\ job'[b].pc = IF b = a THEN pc ELSE job[b].pc
           /\ \A ok : Ends(a, ok) =>
                /\ job'[b].kind = job[b].kind
                /\ job'[b].pc = IF b = a THEN "done" ELSE job[b].pc
  <1>j. job \in [Actors -> Jobs] /\ job[b] \in Jobs
    BY Parts
  <1>1. ASSUME NEW kind, Begins(a, kind)
        PROVE  job'[b] = IF b = a THEN [kind |-> kind, pc |-> "call", ok |-> FALSE]
                         ELSE job[b]
    BY <1>1, <1>j DEF Begins
  <1>2. ASSUME NEW pc, Moves(a, pc)
        PROVE  /\ job'[b].kind = job[b].kind
               /\ job'[b].pc = IF b = a THEN pc ELSE job[b].pc
    BY <1>2, <1>j DEF Moves, Jobs
  <1>3. ASSUME NEW ok, Ends(a, ok)
        PROVE  /\ job'[b].kind = job[b].kind
               /\ job'[b].pc = IF b = a THEN "done" ELSE job[b].pc
    <2>1. job' = [job EXCEPT ![a] = [[job[a] EXCEPT !.pc = "done"] EXCEPT !.ok = ok]]
      BY <1>3, <1>j DEF Ends, Jobs
    <2> QED BY <2>1, <1>j DEF Jobs
  <1> QED BY <1>1, <1>2, <1>3

LEMMA LockStep == TypeOK /\ LockInv /\ [Next]_vars => LockInv'
  <1> SUFFICES ASSUME TypeOK, LockInv, [Next]_vars PROVE LockInv'
    OBVIOUS
  <1> USE DEF LockInv, AtWork, NoEngineWithoutGateway
  <1>j. job \in [Actors -> Jobs]
    BY Parts
  <1>a. "svc" \in Actors /\ "cli" \in Actors /\ "old" \in Actors
        /\ None \notin Actors /\ "mon" \notin Actors /\ "reader" \notin Actors
    BY DEF Actors, None
  <1>1. ASSUME NEW kind \in {"manual", "start", "stop", "reload"}, Request(kind)
        PROVE  LockInv'
    <2>1. \A b \in Actors : job'[b] =
            IF b = "svc" THEN [kind |-> kind, pc |-> "call", ok |-> FALSE] ELSE job[b]
      BY <1>1, <1>a, JobSteps DEF Request
    <2> QED BY <1>1, <2>1, <1>a DEF Request, host
  <1>2. ASSUME NEW kind \in {"restart", "start", "stop"}, Command(kind)
        PROVE  LockInv'
    <2>1. \A b \in Actors : job'[b] =
            IF b = "cli" THEN [kind |-> kind, pc |-> "call", ok |-> FALSE] ELSE job[b]
      BY <1>2, <1>a, JobSteps DEF Command
    <2> QED BY <1>2, <2>1, <1>a DEF Command, host
  <1>3. ASSUME NEW a \in Actors, JobStep(a) PROVE LockInv'
    <2>1. CASE Call(a)
      <3>1. \A b \in Actors :
              /\ job'[b].kind = job[b].kind
              /\ job'[b].pc = job[b].pc \/ (b = a /\ job'[b].pc = "done")
                   \/ (b = a /\ job'[b].pc = "work" /\ flock = None /\ flock' = a)
        BY <2>1, JobSteps DEF Call
      <3>2. UNCHANGED host /\ (flock' = flock \/ (flock = None /\ flock' = a))
        BY <2>1 DEF Call
      <3> QED BY <3>1, <3>2, <1>a DEF host
    <2>2. CASE Work(a)
      <3>1. \A b \in Actors : job'[b].kind = job[b].kind /\ (b # a => job'[b].pc = job[b].pc)
        BY <2>2, JobSteps DEF Work
      <3>2. \/ job'[a].pc = "done" /\ Drop(a) /\ UNCHANGED <<engine, gate>>
            \/ /\ job'[a].pc = "replace" /\ engine' = "gone" /\ flock' = flock
               /\ job[a].kind = "start" => gate' = "active"
               /\ job[a].kind \notin {"start", "stop"} => gate = "active"
               /\ job[a].kind # "start" => gate' = gate
        BY <2>2, JobSteps DEF Work
      <3>3. \A b \in Actors : b # a => job[b].pc \notin {"work", "replace"}
        BY <2>2 DEF Work
      <3>4. flock = a
        BY <2>2 DEF Work
      <3> QED BY <3>1, <3>2, <3>3, <3>4 DEF Drop
    <2>3. CASE Replace(a)
      <3>1. \A b \in Actors : job'[b].pc = IF b = a THEN "done" ELSE job[b].pc
        BY <2>3, JobSteps DEF Replace
      <3>2. \A b \in Actors : b # a => job[b].pc \notin {"work", "replace"}
        BY <2>3 DEF Replace
      <3>3. \/ job[a].kind = "stop" /\ engine' = "gone"
            \/ engine' = "up" /\ gate' = "active"
            \/ engine' = "gone"
        BY <2>3 DEF Replace
      <3> QED BY <3>1, <3>2, <3>3
    <2>4. CASE Finish(a)
      BY <2>4, <1>a, <1>j DEF Finish, host, NoJob, None
    <2> QED BY <1>3, <2>1, <2>2, <2>3, <2>4 DEF JobStep
  <1>4. CASE Conclude
    BY <1>4, <1>a, <1>j DEF Conclude, NoJob, None
  <1>5. CASE Round
    <2>1. ASSUME NEW from, NEW to, Probe(from, to) \/ ProbeFree(from, to)
          PROVE  LockInv'
      BY <2>1, <1>a DEF Probe, ProbeFree, Others, host, None
    <2>2. CASE ReadStatus \/ ReadStage \/ Observe \/ UndoRestart
      BY <2>2 DEF ReadStatus, ReadStage, Observe, UndoRestart, Others, host
    <2>3. CASE TryRestart
      <3>1. (job' = job) \/ \A b \in Actors : job'[b] =
              IF b = "svc" THEN [kind |-> "auto", pc |-> "call", ok |-> FALSE] ELSE job[b]
        BY <2>3, <1>a, JobSteps DEF TryRestart
      <3> QED BY <2>3, <3>1, <1>a DEF TryRestart, host
    <2> QED BY <1>5, <2>1, <2>2, <2>3
            DEF Round, Probe1, Probe1End, Probe2, Probe2End
  <1>6. CASE ReaderProbe \/ ReaderEnd
    BY <1>6, <1>a DEF ReaderProbe, ReaderEnd, Others, host, None
  <1>7. CASE EngineFails \/ EngineRecovers
    BY <1>7 DEF EngineFails, EngineRecovers
  <1>8. CASE ServiceRestart
    BY <1>8, <1>a, <1>j DEF ServiceRestart, host, NoJob, None
  <1>9. CASE Reboot
    BY <1>9 DEF Reboot, NoJob, None
  <1>10. CASE UNCHANGED vars
    BY <1>10 DEF vars
  <1> QED BY <1>1, <1>2, <1>3, <1>4, <1>5, <1>6, <1>7, <1>8, <1>9, <1>10 DEF Next

\* A restart that comes too late starts no engine.
THEOREM NoEngine == Spec => []NoEngineWithoutGateway
  <1>1. LockInv => NoEngineWithoutGateway
    BY DEF LockInv
  <1> QED BY <1>1, TypeInit, TypeStep, LockInit, LockStep, PTL DEF Spec

-----------------------------------------------------------------------------
(***************************************************************************)
(* One attempt per incident.  The controller's flag for a running restart  *)
(* is the truth as long as no record fails to be written; after a restart  *)
(* only the status that was on its way can be counted wrongly, once, and   *)
(* that is why two are asked for.                                          *)
(***************************************************************************)
IncidentInv ==
    /\ ~mu => job["svc"] = NoJob
    /\ ctl.active <=> Restarting
    /\ ctl.active => ctl.healthy = 0 /\ ctl.state = "recovering"
    /\ mon.pc # "undo"
    /\ ~fresh => ctl.attempted
    /\ ~fresh /\ ctl.healthy = 1 => ~mon.old

LEMMA IncidentInit == Init => IncidentInv
  BY DEF Init, IncidentInv, Restarting, NoJob, Idle, NoMon, None, Actors

\* A healthy status starts nothing, and the first after a restart ends nothing.
LEMMA HealthyFields ==
    ASSUME NEW c \in Controllers, ~c.active
    PROVE  /\ ~ObserveHealthy(c).active
           /\ c.attempted /\ c.healthy # 1 => ObserveHealthy(c).attempted
  <1>1. CASE c.attempted /\ c.healthy + 1 < Confirmations
    <2>1. ObserveHealthy(c) = [c EXCEPT !.healthy = @ + 1, !.state = "recovering"]
      BY <1>1 DEF ObserveHealthy
    <2> QED BY <2>1, <1>1 DEF Controllers
  <1>2. CASE ~(c.attempted /\ c.healthy + 1 < Confirmations)
    <2>1. ObserveHealthy(c) = Idle
      BY <1>2 DEF ObserveHealthy
    <2>2. c.healthy = 1 \/ ~c.attempted
      BY <1>2 DEF Controllers, Confirmations
    <2> QED BY <2>1, <2>2 DEF Idle
  <1> QED BY <1>1, <1>2

\* A record that could not be written stays unwritten.
LEMMA UnrecordedStays == unrecorded /\ [Next]_vars => unrecorded'
  <1> SUFFICES ASSUME unrecorded, [Next]_vars PROVE unrecorded'
    OBVIOUS
  <1>1. ASSUME NEW a \in Actors, JobStep(a) PROVE unrecorded'
    BY <1>1 DEF JobStep, Call, Work, Replace, Finish, Fine, Fault
  <1>2. CASE Round
    BY <1>2 DEF Round, Probe1, Probe1End, Probe2, Probe2End, Probe, ProbeFree,
                ReadStatus, ReadStage, Observe, TryRestart, UndoRestart, Fine, Fault
  <1>3. CASE Conclude \/ ReaderProbe \/ ReaderEnd \/ EngineFails
               \/ EngineRecovers \/ ServiceRestart \/ Reboot
    BY <1>3 DEF Conclude, ReaderProbe, ReaderEnd, EngineFails, EngineRecovers,
                ServiceRestart, Reboot, Fine, Fault
  <1>4. ASSUME NEW kind, Request(kind) \/ Command(kind) PROVE unrecorded'
    BY <1>4 DEF Request, Command, Fine
  <1>5. CASE UNCHANGED vars
    BY <1>5 DEF vars
  <1> QED BY <1>1, <1>2, <1>3, <1>4, <1>5 DEF Next

LEMMA IncidentStep ==
    TypeOK /\ IncidentInv /\ [Next]_vars => unrecorded' \/ IncidentInv'
  <1> SUFFICES ASSUME TypeOK, IncidentInv, [Next]_vars, ~unrecorded'
               PROVE  IncidentInv'
    OBVIOUS
  <1> USE DEF IncidentInv, Restarting
  <1>t. job \in [Actors -> Jobs] /\ ctl \in Controllers /\ mon \in Rounds
        /\ mu \in BOOLEAN /\ fresh \in BOOLEAN
    BY Parts
  <1>a. "svc" \in Actors /\ "cli" \in Actors /\ "old" \in Actors
    BY DEF Actors
  <1>n. NoJob.kind = None /\ None \notin {"auto", "manual"}
        /\ NoMon.pc # "undo" /\ NoMon.old = FALSE
        /\ Aged.pc = mon.pc
    BY <1>t DEF NoJob, NoMon, None, Aged, Rounds
  <1>1. ASSUME NEW kind \in {"manual", "start", "stop", "reload"}, Request(kind)
        PROVE  IncidentInv'
    <2>1. job'["svc"] = [kind |-> kind, pc |-> "call", ok |-> FALSE] /\ mu'
      BY <1>1, <1>a, JobSteps DEF Request
    <2>2. ~ctl.active
      BY <1>1, <1>n DEF Request
    <2>3. CASE kind = "manual"
      <3>1. ctl' = BeginRestart(ctl, ctl.reason)
        BY <1>1, <2>3 DEF Request
      <3>2. ctl'.active /\ ctl'.attempted /\ ctl'.healthy = 0 /\ ctl'.state = "recovering"
        BY <3>1, <1>t DEF BeginRestart, Controllers
      <3>3. mon' = Aged
        BY <1>1, <2>3 DEF Request
      <3>4. job'["svc"].kind = "manual"
        BY <2>1, <2>3
      <3> QED BY <2>1, <3>2, <3>3, <3>4, <1>n
    <2>4. CASE kind # "manual"
      <3>1. UNCHANGED <<ctl, fresh, mon>>
        BY <1>1, <2>4 DEF Request
      <3>2. job'["svc"].kind \notin {"auto", "manual"}
        BY <2>1, <2>4
      <3> QED BY <2>1, <2>2, <3>1, <3>2
    <2> QED BY <2>3, <2>4
  <1>2. ASSUME NEW kind \in {"restart", "start", "stop"}, Command(kind)
        PROVE  IncidentInv'
    BY <1>2, <1>a, JobSteps DEF Command, Actors
  <1>3. ASSUME NEW a \in Actors, JobStep(a) PROVE IncidentInv'
    <2>1. UNCHANGED <<mu, ctl, mon, fresh>>
      BY <1>3 DEF JobStep, Call, Work, Replace, Finish
    <2>2. job'["svc"].kind = job["svc"].kind
      BY <1>3, <1>t, <1>a, JobSteps DEF JobStep, Call, Work, Replace, Finish
    <2>3. job["svc"] = NoJob => job'["svc"] = NoJob
      <3> SUFFICES ASSUME job["svc"] = NoJob PROVE job'["svc"] = NoJob
        OBVIOUS
      <3>1. a # "svc"
        <4>1. job["svc"].pc \notin {"call", "work", "replace"}
          BY DEF NoJob, None
        <4> QED BY <1>3, <4>1 DEF JobStep, Call, Work, Replace, Finish
      <3> QED BY <1>3, <3>1, <1>t, <1>a
              DEF JobStep, Call, Work, Replace, Finish, Moves, Ends
    <2> QED BY <2>1, <2>2, <2>3
  <1>4. CASE Conclude
    <2>1. job'["svc"] = NoJob /\ UNCHANGED fresh
      BY <1>4, <1>t, <1>a DEF Conclude
    <2>2. CASE Restarting
      <3> DEFINE next == FinishRestart(ctl, job["svc"].ok, job["svc"].kind = "manual")
      <3>1. /\ next.active = FALSE /\ next.healthy = ctl.healthy
            /\ ctl.attempted => next.attempted
        BY <1>t DEF FinishRestart, Controllers
      <3>2. ctl' = next /\ mon' = Aged
        BY <1>4, <2>2 DEF Conclude
      <3> HIDE DEF next
      <3>3. ctl.healthy = 0
        BY <2>2
      <3> QED BY <2>1, <3>1, <3>2, <3>3, <1>n
    <2>3. CASE ~Restarting
      BY <1>4, <2>1, <2>3, <1>n DEF Conclude
    <2> QED BY <2>2, <2>3
  <1>5. CASE Round
    <2>u. /\ ObserveUnknown(ctl).active = ctl.active
          /\ ObserveUnknown(ctl).attempted = ctl.attempted
          /\ ObserveUnknown(ctl).healthy \in {0, ctl.healthy}
          /\ ctl.active => ObserveUnknown(ctl) = ctl
      BY <1>t DEF ObserveUnknown, Controllers
    <2>f. ASSUME NEW r
          PROVE  /\ ObserveFailure(ctl, r).active = ctl.active
                 /\ ObserveFailure(ctl, r).attempted = ctl.attempted
                 /\ ObserveFailure(ctl, r).healthy \in {0, ctl.healthy}
                 /\ ctl.active => ObserveFailure(ctl, r) = ctl
      BY <1>t DEF ObserveFailure, Controllers
    <2>1. ASSUME NEW from, NEW to \in {"probe1", "locked2"}, Probe(from, to)
          PROVE  IncidentInv'
      BY <2>1, <2>u, <1>t, <1>n DEF Probe, Others, Unknown, Rounds
    <2>2. ASSUME NEW from, NEW to \in {"status", "stage"}, ProbeFree(from, to)
          PROVE  IncidentInv'
      BY <2>2, <1>t DEF ProbeFree, Others, Rounds
    <2>3. CASE ReadStatus
      BY ZenonT(60), <2>3, <2>u, <1>t, <1>n DEF ReadStatus, Others, Unknown, Rounds
    <2>4. CASE ReadStage
      BY <2>4, <2>u, <1>t, <1>n DEF ReadStage, Others, Unknown, Rounds
    <2>5. CASE Observe
      <3>1. CASE mon.seen # "healthy"
        BY <2>5, <3>1, <2>f, <1>t, <1>n DEF Observe, Others, Rounds
      <3>2. CASE mon.seen = "healthy" /\ ctl.active
        BY <2>5, <3>2, <1>n DEF Observe, Others, ObserveHealthy
      <3>3. CASE mon.seen = "healthy" /\ ~ctl.active
        <4>1. fresh' = (fresh \/ ~mon.old) /\ mon' = NoMon /\ UNCHANGED <<job, mu>>
          BY <2>5, <3>3 DEF Observe, Others
        <4>2. ~ctl'.active
          BY <2>5, <3>3, <1>t, HealthyFields DEF Observe
        <4>3. ~fresh' => ctl.attempted /\ ctl.healthy # 1
          BY <4>1, <1>t
        <4>4. ~fresh' => ctl'.attempted
          BY <2>5, <3>3, <4>3, <1>t, HealthyFields DEF Observe
        <4> QED BY <4>1, <4>2, <4>4, <3>3, <1>n
      <3> QED BY <3>1, <3>2, <3>3
    <2>6. CASE TryRestart
      <3>1. CASE mu \/ ctl.attempted \/ ctl.state \in {"recovering", "failed"}
        BY <2>6, <3>1, <1>n DEF TryRestart
      <3>2. CASE ~(mu \/ ctl.attempted \/ ctl.state \in {"recovering", "failed"})
        <4>1. /\ Begins("svc", "auto") /\ mu' /\ mon' = NoMon
              /\ ctl' = BeginRestart(ctl, mon.seen)
          BY <2>6, <3>2 DEF TryRestart, Fault
        <4>2. job'["svc"].kind = "auto"
          <5>1. job'["svc"] = [kind |-> "auto", pc |-> "call", ok |-> FALSE]
            BY <4>1, <1>a, JobSteps
          <5> QED BY <5>1
        <4>3. /\ ctl'.active /\ ctl'.healthy = 0 /\ ctl'.attempted
              /\ ctl'.state = "recovering"
          BY <4>1, <1>t DEF BeginRestart, Controllers
        <4> QED BY <4>1, <4>2, <4>3, <1>n
      <3> QED BY <3>1, <3>2
    <2>7. CASE UndoRestart
      BY <2>7 DEF UndoRestart
    <2> QED BY <1>5, <2>1, <2>2, <2>3, <2>4, <2>5, <2>6, <2>7
            DEF Round, Probe1, Probe1End, Probe2, Probe2End
  <1>6. CASE ReaderProbe \/ ReaderEnd
    BY <1>6 DEF ReaderProbe, ReaderEnd, Others
  <1>7. CASE EngineFails \/ EngineRecovers
    BY <1>7 DEF EngineFails, EngineRecovers
  <1>8. CASE ServiceRestart
    BY <1>8, <1>t, <1>a, <1>n DEF ServiceRestart, Idle, Actors
  <1>9. CASE Reboot
    BY <1>9, <1>a, <1>n DEF Reboot, Idle
  <1>10. CASE UNCHANGED vars
    BY <1>10 DEF vars
  <1> QED BY <1>1, <1>2, <1>3, <1>4, <1>5, <1>6, <1>7, <1>8, <1>9, <1>10 DEF Next

\* The invariant of both theorems: nothing is said of a history in which the
\* record of a restart could not be written.
Recorded == unrecorded \/ IncidentInv

LEMMA RecordedInit == Init => Recorded
  BY IncidentInit DEF Recorded

LEMMA RecordedStep == TypeOK /\ Recorded /\ [Next]_vars => Recorded'
  BY IncidentStep, UnrecordedStays DEF Recorded

\* After a restart nothing is restarted automatically before a status read after
\* it has shown a healthy engine, as long as every restart could be recorded:
\* RestartNoRecord shows what happens otherwise.
THEOREM OneAttemptHolds == Spec => OneAttempt
  <1>1. ASSUME TypeOK, Recorded, [Next]_vars
        PROVE  [AutoBegins => fresh \/ unrecorded]_vars
    <2> SUFFICES ASSUME Next, AutoBegins, ~unrecorded PROVE fresh
      BY <1>1 DEF vars
    <2>1. CASE TryRestart
      BY <1>1, <2>1 DEF TryRestart, AutoBegins, IncidentInv, Recorded
    <2>a. "svc" \in Actors /\ "cli" \in Actors /\ "cli" # "svc" /\ NoJob.kind # "auto"
      BY DEF Actors, NoJob, None
    <2>b. job["svc"].kind # "auto" /\ job'["svc"].kind = "auto"
      BY DEF AutoBegins
    <2>j. job \in [Actors -> Jobs]
      BY <1>1, Parts
    <2>2. ASSUME NEW kind \in {"manual", "start", "stop", "reload"}, Request(kind)
          PROVE  FALSE
      <3>1. job'["svc"] = [kind |-> kind, pc |-> "call", ok |-> FALSE]
        BY <1>1, <2>2, <2>a, JobSteps DEF Request
      <3> QED BY <3>1, <2>b
    <2>3. ASSUME NEW kind \in {"restart", "start", "stop"}, Command(kind)
          PROVE  FALSE
      <3>1. job'["svc"] = job["svc"]
        BY <1>1, <2>3, <2>a, JobSteps DEF Command
      <3> QED BY <3>1, <2>b
    <2>4. ASSUME NEW a \in Actors, JobStep(a) PROVE FALSE
      <3>1. job'["svc"].kind = job["svc"].kind
        BY ZenonT(60), <1>1, <2>4, <2>j, <2>a, JobSteps DEF JobStep, Call, Work, Replace, Finish
      <3> QED BY <3>1, <2>b
    <2>5. CASE Conclude \/ Reboot \/ ServiceRestart
      <3>1. job'["svc"] = NoJob
        BY <2>5, <2>j, <2>a DEF Conclude, Reboot, ServiceRestart
      <3> QED BY <3>1, <2>a, <2>b
    <2>6. CASE \/ Round /\ ~TryRestart
              \/ ReaderProbe \/ ReaderEnd \/ EngineFails \/ EngineRecovers
      <3>1. job' = job
        BY <2>6 DEF Round, Probe1, Probe1End, Probe2, Probe2End, Probe, ProbeFree,
                    ReadStatus, ReadStage, Observe, UndoRestart, ReaderProbe,
                    ReaderEnd, EngineFails, EngineRecovers, Others
      <3> QED BY <3>1, <2>b
    <2> QED BY <2>1, <2>2, <2>3, <2>4, <2>5, <2>6 DEF Next
  <1>2. TypeOK /\ Recorded /\ [Next]_vars => [AutoBegins => fresh \/ unrecorded]_vars
    BY <1>1
  <1> QED BY TypeInit, TypeStep, RecordedInit, RecordedStep, <1>2, PTL
          DEF Spec, OneAttempt

\* While the engine is being restarted that is what the interface shows, as long
\* as every restart could be recorded.
THEOREM ShownHolds == Spec => []ShownWhileRestarting
  <1>1. Recorded => ShownWhileRestarting
    BY DEF Recorded, IncidentInv, ShownWhileRestarting, ShownInAnyCase
  <1> QED BY TypeInit, TypeStep, RecordedInit, RecordedStep, <1>1, PTL DEF Spec

(***************************************************************************)
(* Lists that are put together from lists.                                 *)
(***************************************************************************)
\* A set of numbers has a least one, which is how these proofs go along a list.
LEMMA LeastNumber ==
  ASSUME NEW T, T \subseteq Nat, T # {}
  PROVE  \E x \in T : \A y \in T : x <= y
<1>1. \E x \in T : \A y \in T : ~(<<y, x>> \in OpToRel(<, Nat))
  BY NatLessThanWellFounded, WFMin
<1>2. ASSUME NEW x \in Nat, NEW y \in Nat, ~(<<y, x>> \in OpToRel(<, Nat)) PROVE x <= y
  BY <1>2 DEF OpToRel
<1> QED BY <1>1, <1>2

FlatStep(ss, g, i) == IF i = 1 THEN ss[i] ELSE g[i - 1] \o ss[i]

\* The lists joined so far, one by one, are a function.
LEMMA FlatExists ==
  ASSUME NEW ss, NEW N \in Nat
  PROVE  \A k \in 1..N : \E g : g = [i \in 1..k |-> FlatStep(ss, g, i)]
<1> DEFINE P(k) == \E g : g = [i \in 1..k |-> FlatStep(ss, g, i)]
           T == {k \in 1..N : ~P(k)}
<1>1. SUFFICES ASSUME T # {} PROVE FALSE
  OBVIOUS
<1>2. PICK k \in T : \A j \in T : k <= j
  <2>1. T \subseteq Nat
    OBVIOUS
  <2> HIDE DEF T
  <2> QED BY <1>1, <2>1, LeastNumber
<1>3. k \in Nat /\ 1 <= k /\ k <= N /\ ~P(k)
  BY <1>2
<1>4. CASE k = 1
  <2> DEFINE g == [i \in 1..1 |-> ss[1]]
  <2>1. g = [i \in 1..1 |-> FlatStep(ss, g, i)]
    BY DEF FlatStep
  <2> QED BY <1>3, <1>4, <2>1
<1>5. CASE k # 1
  <2>1. P(k - 1)
    <3>1. k - 1 \in 1..N /\ ~(k <= k - 1)
      BY <1>3, <1>5
    <3> HIDE DEF P
    <3> QED BY <1>2, <3>1
  <2>2. PICK g : g = [i \in 1..(k - 1) |-> FlatStep(ss, g, i)]
    BY <2>1
  <2> DEFINE h == [i \in 1..k |-> IF i = k THEN FlatStep(ss, g, k) ELSE g[i]]
  <2>3. ASSUME NEW i \in 1..k PROVE h[i] = FlatStep(ss, h, i)
    <3>1. i # 1 => h[i - 1] = g[i - 1] /\ i - 1 \in 1..(k - 1)
      BY <1>3, <1>5
    <3> HIDE DEF h
    <3>2. FlatStep(ss, h, i) = FlatStep(ss, g, i)
      BY <1>3, <3>1 DEF FlatStep
    <3>3. CASE i = k
      BY <3>2, <3>3 DEF h
    <3>4. CASE i # k
      <4>1. i \in 1..(k - 1)
        BY <1>3, <3>4
      <4>2. h[i] = g[i]
        BY <3>4 DEF h
      <4>3. g[i] = FlatStep(ss, g, i)
        <5>1. [m \in 1..(k - 1) |-> FlatStep(ss, g, m)][i] = FlatStep(ss, g, i)
          BY <4>1
        <5> QED BY <2>2, <5>1, Zenon
      <4> QED BY <3>2, <4>2, <4>3
    <3> QED BY <3>3, <3>4
  <2>4. DOMAIN h = 1..k /\ h = [i \in 1..k |-> h[i]]
    OBVIOUS
  <2> HIDE DEF h
  <2>5. h = [i \in 1..k |-> FlatStep(ss, h, i)]
    BY <2>3, <2>4
  <2> QED BY <1>3, <2>5
<1> QED BY <1>4, <1>5

\* A list of lists is joined step by step.
LEMMA FlattenIs ==
  ASSUME NEW ss, Len(ss) \in Nat, Len(ss) # 0
  PROVE  \E g : /\ g = [i \in 1..Len(ss) |-> FlatStep(ss, g, i)]
                /\ FlattenSeq(ss) = g[Len(ss)]
<1> DEFINE flatten == CHOOSE g : g = [i \in 1..Len(ss) |-> FlatStep(ss, g, i)]
<1>1. \E g : g = [i \in 1..Len(ss) |-> FlatStep(ss, g, i)]
  <2>1. Len(ss) \in 1..Len(ss)
    OBVIOUS
  <2> QED BY <2>1, FlatExists
<1>2. flatten = [i \in 1..Len(ss) |-> FlatStep(ss, flatten, i)]
  BY <1>1, Zenon
<1>3. FlattenSeq(ss) = flatten[Len(ss)]
  BY DEF FlattenSeq, FlatStep
<1> QED BY <1>2, <1>3

\* What holds of the first list and is kept by each list that follows, holds
\* of them all.
LEMMA FlattenBySteps ==
  ASSUME NEW ss, Len(ss) \in Nat, Len(ss) # 0,
         NEW T, <<1, ss[1]>> \in T,
         \A i \in 2..Len(ss) : \A x : <<i - 1, x>> \in T => <<i, x \o ss[i]>> \in T
  PROVE  <<Len(ss), FlattenSeq(ss)>> \in T
<1>1. PICK g : /\ g = [i \in 1..Len(ss) |-> FlatStep(ss, g, i)]
               /\ FlattenSeq(ss) = g[Len(ss)]
  BY FlattenIs
<1>2. ASSUME NEW i \in 1..Len(ss) PROVE g[i] = FlatStep(ss, g, i)
  <2>1. [m \in 1..Len(ss) |-> FlatStep(ss, g, m)][i] = FlatStep(ss, g, i)
    OBVIOUS
  <2> QED BY <1>1, <2>1, Zenon
<1> DEFINE Bad == {i \in 1..Len(ss) : <<i, g[i]>> \notin T}
<1>3. Bad = {}
  <2>1. SUFFICES ASSUME Bad # {} PROVE FALSE
    OBVIOUS
  <2>2. PICK k \in Bad : \A j \in Bad : k <= j
    <3>1. Bad \subseteq Nat
      OBVIOUS
    <3> HIDE DEF Bad
    <3> QED BY <2>1, <3>1, LeastNumber
  <2>3. k \in 1..Len(ss) /\ <<k, g[k]>> \notin T
    BY <2>2
  <2>4. k # 1
    BY <1>2, <2>3 DEF FlatStep
  <2>5. k - 1 \in 1..Len(ss) /\ ~(k <= k - 1) /\ k \in 2..Len(ss)
    BY <2>3, <2>4
  <2>6. k - 1 \notin Bad
    BY <2>2, <2>5
  <2>7. <<k - 1, g[k - 1]>> \in T
    BY <2>5, <2>6
  <2>8. g[k] = g[k - 1] \o ss[k]
    BY <1>2, <2>3, <2>4 DEF FlatStep
  <2> QED BY <2>3, <2>5, <2>7, <2>8
<1>4. Len(ss) \in 1..Len(ss)
  OBVIOUS
<1> QED BY <1>1, <1>3, <1>4

LEMMA RangeJoined ==
  ASSUME NEW S, NEW s \in Seq(S), NEW t \in Seq(S), NEW y
  PROVE  y \in Range(s \o t) <=> y \in Range(s) \/ y \in Range(t)
<1>1. /\ Len(s) \in Nat /\ Len(t) \in Nat
      /\ DOMAIN s = 1..Len(s) /\ DOMAIN t = 1..Len(t)
      /\ DOMAIN (s \o t) = 1..(Len(s) + Len(t))
      /\ \A k \in 1..(Len(s) + Len(t)) :
            (s \o t)[k] = IF k <= Len(s) THEN s[k] ELSE t[k - Len(s)]
  OBVIOUS
<1>2. ASSUME y \in Range(s) PROVE y \in Range(s \o t)
  BY <1>1, <1>2 DEF Range
<1>3. ASSUME y \in Range(t) PROVE y \in Range(s \o t)
  <2>1. PICK k \in 1..Len(t) : y = t[k]
    BY <1>1, <1>3 DEF Range
  <2>2. k + Len(s) \in 1..(Len(s) + Len(t)) /\ ~(k + Len(s) <= Len(s)) /\ (k + Len(s)) - Len(s) = k
    BY <1>1
  <2>3. (s \o t)[k + Len(s)] = y
    BY <1>1, <2>1, <2>2
  <2> QED BY <1>1, <2>2, <2>3 DEF Range
<1>4. ASSUME y \in Range(s \o t) PROVE y \in Range(s) \/ y \in Range(t)
  <2>1. PICK k \in 1..(Len(s) + Len(t)) : y = (s \o t)[k]
    BY <1>1, <1>4 DEF Range
  <2>2. CASE k <= Len(s)
    <3>1. k \in DOMAIN s /\ y = s[k]
      BY <1>1, <2>1, <2>2
    <3> QED BY <3>1 DEF Range
  <2>3. CASE ~(k <= Len(s))
    <3>1. k - Len(s) \in DOMAIN t /\ y = t[k - Len(s)]
      BY <1>1, <2>1, <2>3
    <3> QED BY <3>1 DEF Range
  <2> QED BY <2>2, <2>3
<1> QED BY <1>2, <1>3, <1>4

\* What is so of each list is so of each element of the joined list.
LEMMA FlattenAll ==
  ASSUME NEW S, NEW ss \in Seq(Seq(S))
  PROVE  /\ FlattenSeq(ss) \in Seq(S)
         /\ \A y : y \in Range(FlattenSeq(ss)) <=> \E i \in DOMAIN ss : y \in Range(ss[i])
<1> DEFINE N == Len(ss)
           Among(x, k) == \A y : y \in Range(x) <=> \E j \in 1..k : y \in Range(ss[j])
           T == {u \in (1..N) \X Seq(S) : Among(u[2], u[1])}
<1>1. N \in Nat /\ DOMAIN ss = 1..N /\ \A i \in 1..N : ss[i] \in Seq(S)
  OBVIOUS
<1>2. CASE N = 0
  <2>1. ss = <<>> /\ FlattenSeq(ss) = <<>>
    BY <1>1, <1>2 DEF FlattenSeq
  <2>2. Range(<<>>) = {} /\ DOMAIN ss = {}
    BY <2>1 DEF Range
  <2>3. <<>> \in Seq(S)
    OBVIOUS
  <2> QED BY <2>1, <2>2, <2>3, Zenon
<1>3. CASE N # 0
  <2>1. <<1, ss[1]>> \in T
    <3>1. Among(ss[1], 1)
      OBVIOUS
    <3> HIDE DEF Among
    <3> QED BY <1>1, <1>3, <3>1
  <2>2. ASSUME NEW i \in 2..N, NEW x, <<i - 1, x>> \in T PROVE <<i, x \o ss[i]>> \in T
    <3>1. x \in Seq(S) /\ Among(x, i - 1)
      <4> HIDE DEF Among
      <4> QED BY <2>2
    <3>2. \A j : j \in 1..i <=> j \in 1..(i - 1) \/ j = i
      BY <1>1
    <3>3. ss[i] \in Seq(S) /\ i \in 1..N
      BY <1>1
    <3>4. \A y : y \in Range(x \o ss[i]) <=> y \in Range(x) \/ y \in Range(ss[i])
      BY <3>1, <3>3, RangeJoined
    <3>5. Among(x \o ss[i], i)
      BY <3>1, <3>2, <3>4
    <3>6. x \o ss[i] \in Seq(S)
      BY <3>1, <3>3
    <3> HIDE DEF Among
    <3> QED BY <3>3, <3>5, <3>6
  <2>3. <<N, FlattenSeq(ss)>> \in T
    <3> HIDE DEF T
    <3> QED BY <1>1, <1>3, <2>1, <2>2, FlattenBySteps
  <2>4. FlattenSeq(ss) \in Seq(S) /\ Among(FlattenSeq(ss), N)
    <3> HIDE DEF Among
    <3> QED BY <2>3
  <2> QED BY <1>1, <2>4
<1> QED BY <1>2, <1>3

(***************************************************************************)
(* The earliest decision.                                                  *)
(***************************************************************************)
\* v is the first of the decisions 1..n, Empty if there is none.
IsEarliest(vs, n, v) ==
    \/ v = Empty /\ \A i \in 1..n : vs[i] = Empty
    \/ v # Empty /\ \E i \in 1..n : vs[i] = v /\ \A j \in 1..n : j < i => vs[j] = Empty

\* The first line that decides is one that decides, and none before it does.
LEMMA EarliestIs ==
  ASSUME NEW vs, NEW n \in Nat, DOMAIN vs = 1..n
  PROVE  IsEarliest(vs, n, Earliest(vs))
<1>1. CASE \A i \in 1..n : vs[i] = Empty
  BY <1>1 DEF Earliest, IsEarliest
<1>2. CASE ~(\A i \in 1..n : vs[i] = Empty)
  <2> DEFINE T == {i \in 1..n : vs[i] # Empty}
             P(i) == vs[i] # Empty /\ \A j \in 1..n : j < i => vs[j] = Empty
             k == CHOOSE i \in 1..n : P(i)
  <2>1. PICK i \in T : \A j \in T : i <= j
    <3>1. T \subseteq Nat /\ T # {}
      BY <1>2
    <3> HIDE DEF T
    <3> QED BY <3>1, LeastNumber
  <2>2. i \in 1..n /\ P(i)
    BY <2>1
  <2>3. k \in 1..n /\ P(k)
    <3> HIDE DEF P
    <3> QED BY <2>2
  <2>4. Earliest(vs) = vs[k]
    BY <1>2 DEF Earliest
  <2> HIDE DEF k
  <2> QED BY <2>3, <2>4 DEF IsEarliest
<1> QED BY <1>1, <1>2

LEMMA EarliestUnique ==
  ASSUME NEW vs, NEW n \in Nat, NEW v, NEW w, IsEarliest(vs, n, v), IsEarliest(vs, n, w)
  PROVE  v = w
<1>1. CASE v # Empty /\ w # Empty
  <2>1. PICK i \in 1..n : vs[i] = v /\ \A j \in 1..n : j < i => vs[j] = Empty
    BY <1>1 DEF IsEarliest
  <2>2. PICK k \in 1..n : vs[k] = w /\ \A j \in 1..n : j < k => vs[j] = Empty
    BY <1>1 DEF IsEarliest
  <2>3. ~(i < k) /\ ~(k < i)
    BY <1>1, <2>1, <2>2
  <2> QED BY <2>1, <2>2, <2>3
<1> QED BY <1>1 DEF IsEarliest

LEMMA EarliestOf ==
  ASSUME NEW vs, NEW n \in Nat, DOMAIN vs = 1..n, NEW v, IsEarliest(vs, n, v)
  PROVE  Earliest(vs) = v
BY EarliestIs, EarliestUnique

Splits(vs, n, m, xs, ys) ==
    /\ n \in Nat /\ m \in Nat /\ DOMAIN vs = 1..(n + m)
    /\ DOMAIN xs = 1..n /\ \A i \in 1..n : xs[i] = vs[i]
    /\ DOMAIN ys = 1..m /\ \A i \in 1..m : ys[i] = vs[n + i]

\* The first line of two lists that decides is the first of the one, or else of the other.
LEMMA EarliestSplit ==
  ASSUME NEW n, NEW m, NEW vs, NEW xs, NEW ys, Splits(vs, n, m, xs, ys)
  PROVE  Earliest(vs) = Or(Earliest(xs), Earliest(ys))
<1>0. /\ n \in Nat /\ m \in Nat /\ DOMAIN vs = 1..(n + m)
      /\ DOMAIN xs = 1..n /\ \A i \in 1..n : xs[i] = vs[i]
      /\ DOMAIN ys = 1..m /\ \A i \in 1..m : ys[i] = vs[n + i]
  BY DEF Splits
<1> USE <1>0
<1> DEFINE a == Earliest(xs)
           b == Earliest(ys)
<1>1. IsEarliest(xs, n, a) /\ IsEarliest(ys, m, b)
  BY EarliestIs
<1> HIDE DEF a, b
<1>2. \A i \in 1..(n + m) : i \in 1..n \/ (i - n \in 1..m /\ vs[i] = ys[i - n] /\ i > n)
  <2>1. ASSUME NEW i \in 1..(n + m), i \notin 1..n PROVE i - n \in 1..m /\ n + (i - n) = i /\ i > n
    BY <2>1
  <2> QED BY <2>1
<1>3. CASE a # Empty
  <2>1. PICK i \in 1..n : xs[i] = a /\ \A j \in 1..n : j < i => xs[j] = Empty
    BY <1>1, <1>3 DEF IsEarliest
  <2>2. i \in 1..(n + m) /\ vs[i] = a /\ \A j \in 1..(n + m) : j < i => vs[j] = Empty
    BY <2>1
  <2>3. IsEarliest(vs, n + m, a)
    BY <1>3, <2>2 DEF IsEarliest
  <2> QED BY <1>3, <2>3, EarliestOf DEF Or, a
<1>4. CASE a = Empty /\ b # Empty
  <2>1. \A i \in 1..n : vs[i] = Empty
    BY <1>1, <1>4 DEF IsEarliest
  <2>2. PICK i \in 1..m : ys[i] = b /\ \A j \in 1..m : j < i => ys[j] = Empty
    BY <1>1, <1>4 DEF IsEarliest
  <2>3. n + i \in 1..(n + m) /\ vs[n + i] = b
    BY <2>2
  <2>4. ASSUME NEW j \in 1..(n + m), j < n + i PROVE vs[j] = Empty
    BY <1>2, <2>1, <2>2, <2>4
  <2>5. IsEarliest(vs, n + m, b)
    BY <1>4, <2>3, <2>4 DEF IsEarliest
  <2> QED BY <1>4, <2>5, EarliestOf DEF Or, a, b
<1>5. CASE a = Empty /\ b = Empty
  <2>1. \A i \in 1..(n + m) : vs[i] = Empty
    BY <1>1, <1>2, <1>5 DEF IsEarliest
  <2>2. IsEarliest(vs, n + m, Empty)
    BY <2>1 DEF IsEarliest
  <2> QED BY <1>5, <2>2, EarliestOf DEF Or, a, b
<1> QED BY <1>3, <1>4, <1>5

\* What a list of lines does with a packet.
Says(e, p, s) == Earliest([i \in DOMAIN s |-> Decides(e, s[i], p)])

LEMMA SaysNothing == \A e, p : Says(e, p, <<>>) = Empty
BY DEF Says, Earliest

LEMMA SaysOne ==
  ASSUME NEW e, NEW p, NEW l
  PROVE  Says(e, p, <<l>>) = Decides(e, l, p)
<1> DEFINE vs == [i \in DOMAIN <<l>> |-> Decides(e, <<l>>[i], p)]
<1>1. DOMAIN vs = 1..1 /\ vs[1] = Decides(e, l, p)
  OBVIOUS
<1> HIDE DEF vs
<1>2. IsEarliest(vs, 1, Decides(e, l, p))
  BY <1>1 DEF IsEarliest
<1>0. 1 \in Nat /\ DOMAIN vs = 1..1
  BY <1>1
<1>3. Earliest(vs) = Decides(e, l, p)
  BY <1>0, <1>2, EarliestOf, Zenon
<1> QED BY <1>3 DEF Says, vs

\* Two lists say what the first one says, or else what the second one says.
LEMMA SaysJoined ==
  ASSUME NEW S, NEW e, NEW p, NEW s \in Seq(S), NEW t \in Seq(S)
  PROVE  Says(e, p, s \o t) = Or(Says(e, p, s), Says(e, p, t))
<1> DEFINE vs == [i \in DOMAIN (s \o t) |-> Decides(e, (s \o t)[i], p)]
           xs == [i \in DOMAIN s |-> Decides(e, s[i], p)]
           ys == [i \in DOMAIN t |-> Decides(e, t[i], p)]
<1>1. /\ Len(s) \in Nat /\ Len(t) \in Nat
      /\ DOMAIN vs = 1..(Len(s) + Len(t)) /\ DOMAIN xs = 1..Len(s) /\ DOMAIN ys = 1..Len(t)
  OBVIOUS
<1>2. ASSUME NEW i \in 1..Len(s) PROVE xs[i] = vs[i]
  <2>1. (s \o t)[i] = s[i] /\ i \in DOMAIN (s \o t)
    BY <1>1
  <2> QED BY <2>1
<1>3. ASSUME NEW i \in 1..Len(t) PROVE ys[i] = vs[Len(s) + i]
  <2>1. (s \o t)[Len(s) + i] = t[i] /\ Len(s) + i \in DOMAIN (s \o t)
    BY <1>1
  <2> QED BY <2>1
<1> HIDE DEF vs, xs, ys
<1>4. Splits(vs, Len(s), Len(t), xs, ys)
  BY <1>1, <1>2, <1>3 DEF Splits
<1>6. Earliest(vs) = Or(Earliest(xs), Earliest(ys))
  BY <1>4, EarliestSplit
<1>5. Says(e, p, s \o t) = Earliest(vs) /\ Says(e, p, s) = Earliest(xs) /\ Says(e, p, t) = Earliest(ys)
  BY DEF Says, vs, xs, ys
<1> QED BY <1>5, <1>6

SaysEach(e, p, ss) == [i \in DOMAIN ss |-> Says(e, p, ss[i])]

\* A joined list says what the first of its parts that says something says.
LEMMA SaysFlattened ==
  ASSUME NEW S, NEW e, NEW p, NEW ss \in Seq(Seq(S))
  PROVE  Says(e, p, FlattenSeq(ss)) = Earliest(SaysEach(e, p, ss))
<1> DEFINE N == Len(ss)
           Upto(k) == [i \in 1..k |-> Says(e, p, ss[i])]
           T == {u \in (1..N) \X Seq(S) : Says(e, p, u[2]) = Earliest(Upto(u[1]))}
<1>1. N \in Nat /\ DOMAIN ss = 1..N /\ \A i \in 1..N : ss[i] \in Seq(S)
  OBVIOUS
<1>2. CASE N = 0
  <2>1. FlattenSeq(ss) = <<>>
    BY <1>1, <1>2 DEF FlattenSeq
  <2>2. Earliest(SaysEach(e, p, ss)) = Empty
    BY <1>1, <1>2 DEF Earliest, SaysEach
  <2> QED BY <2>1, <2>2, SaysNothing
<1>3. CASE N # 0
  <2>1. <<1, ss[1]>> \in T
    <3>1. IsEarliest(Upto(1), 1, Says(e, p, ss[1]))
      BY DEF IsEarliest
    <3>2. Earliest(Upto(1)) = Says(e, p, ss[1])
      BY <3>1, EarliestOf
    <3> QED BY <1>1, <1>3, <3>2
  <2>2. ASSUME NEW i \in 2..N, NEW x, <<i - 1, x>> \in T PROVE <<i, x \o ss[i]>> \in T
    <3>1. x \in Seq(S) /\ Says(e, p, x) = Earliest(Upto(i - 1)) /\ ss[i] \in Seq(S) /\ i \in 1..N
      <4> HIDE DEF Upto
      <4> QED BY <1>1, <2>2
    <3>2. Says(e, p, x \o ss[i]) = Or(Earliest(Upto(i - 1)), Says(e, p, ss[i]))
      BY <3>1, SaysJoined
    <3> DEFINE one == [j \in 1..1 |-> Says(e, p, ss[i])]
    <3>3. Earliest(one) = Says(e, p, ss[i])
      <4>1. IsEarliest(one, 1, Says(e, p, ss[i]))
        BY DEF IsEarliest
      <4> QED BY <4>1, EarliestOf
    <3>4. Earliest(Upto(i)) = Or(Earliest(Upto(i - 1)), Earliest(one))
      <4>1. /\ i - 1 \in Nat /\ 1 \in Nat /\ DOMAIN Upto(i) = 1..((i - 1) + 1)
            /\ DOMAIN Upto(i - 1) = 1..(i - 1) /\ DOMAIN one = 1..1
        BY <1>1
      <4>2. \A j \in 1..(i - 1) : Upto(i - 1)[j] = Upto(i)[j]
        BY <1>1
      <4>3. \A j \in 1..1 : one[j] = Upto(i)[(i - 1) + j]
        BY <1>1
      <4> DEFINE u == Upto(i)
                 a == Upto(i - 1)
      <4>4. DOMAIN u = 1..((i - 1) + 1) /\ DOMAIN a = 1..(i - 1)
        BY <4>1
      <4>5. \A j \in 1..(i - 1) : a[j] = u[j]
        BY <4>2
      <4>6. \A j \in 1..1 : one[j] = u[(i - 1) + j]
        BY <4>3
      <4> HIDE DEF u, a, one
      <4>7. Splits(u, i - 1, 1, a, one)
        BY <4>1, <4>4, <4>5, <4>6 DEF Splits
      <4>8. Earliest(u) = Or(Earliest(a), Earliest(one))
        BY <4>7, EarliestSplit
      <4> HIDE DEF Upto
      <4> QED BY <4>8 DEF u, a
    <3>5. x \o ss[i] \in Seq(S)
      BY <3>1
    <3> HIDE DEF Upto
    <3> QED BY <3>1, <3>2, <3>3, <3>4, <3>5
  <2>3. <<N, FlattenSeq(ss)>> \in T
    <3> HIDE DEF T
    <3> QED BY <1>1, <1>3, <2>1, <2>2, FlattenBySteps
  <2>4. Says(e, p, FlattenSeq(ss)) = Earliest(Upto(N))
    <3> HIDE DEF Upto
    <3> QED BY <2>3
  <2> QED BY <1>1, <2>4 DEF SaysEach
<1> QED BY <1>2, <1>3

(***************************************************************************)
(* Which devices a document compiles for, and which groups they have.      *)
(***************************************************************************)
IsMap(f) == f = [x \in DOMAIN f |-> f[x]]

AllCompiled(set, res) == {Compiled(set, res, d) : d \in Devices}

\* A device is compiled if it is registered and its policy is on.
LEMMA BundleHas ==
  ASSUME NEW set, NEW w, NEW res
  PROVE  /\ CompilePolicySet(set, w, res) \in Seq(AllCompiled(set, res))
         /\ \A m : m \in Range(CompilePolicySet(set, w, res)) <=>
                \E d \in Devices : Active(set, w, d) /\ m = Compiled(set, res, d)
<1> DEFINE S == {Compiled(set, res, d) : d \in Devices}
           ds == <<"d1", "d2">>
           ss == [i \in DOMAIN ds |-> IF Active(set, w, ds[i]) THEN <<Compiled(set, res, ds[i])>> ELSE <<>>]
<1>1. ss \in Seq(Seq(S))
  <2>1. DOMAIN ss = 1..2 /\ ss[1] \in Seq(S) /\ ss[2] \in Seq(S)
    <3>1. Compiled(set, res, "d1") \in S /\ Compiled(set, res, "d2") \in S
      BY DEF Devices
    <3> HIDE DEF S
    <3> QED BY <3>1
  <2> HIDE DEF ss
  <2>2. ss = [i \in 1..2 |-> ss[i]] /\ \A i \in 1..2 : ss[i] \in Seq(S)
    <3>1. IsMap(ss)
      BY DEF ss, IsMap
    <3> QED BY <2>1, <3>1 DEF IsMap
  <2> QED BY <2>2
<1>2. CompilePolicySet(set, w, res) = FlattenSeq(ss)
  BY DEF CompilePolicySet, Each
<1>3. ASSUME NEW m
      PROVE  (\E i \in DOMAIN ss : m \in Range(ss[i])) <=>
             \E d \in Devices : Active(set, w, d) /\ m = Compiled(set, res, d)
  <2>1. \A d \in Devices : \E i \in DOMAIN ss : ds[i] = d
    BY DEF Devices
  <2>2. \A i \in DOMAIN ss : ds[i] \in Devices
    BY DEF Devices
  <2>3. ASSUME NEW i \in DOMAIN ss
        PROVE  m \in Range(ss[i]) <=> Active(set, w, ds[i]) /\ m = Compiled(set, res, ds[i])
    <3> DEFINE d == ds[i]
    <3>1. ss[i] = IF Active(set, w, d) THEN <<Compiled(set, res, d)>> ELSE <<>>
      OBVIOUS
    <3> HIDE DEF d, ss
    <3>2. Range(<<>>) = {} /\ Range(<<Compiled(set, res, d)>>) = {Compiled(set, res, d)}
      BY DEF Range
    <3>3. m \in Range(ss[i]) <=> Active(set, w, d) /\ m = Compiled(set, res, d)
      BY <3>1, <3>2
    <3> QED BY <3>3 DEF d
  <2> HIDE DEF ss, ds
  <2> QED BY <2>1, <2>2, <2>3
<1> HIDE DEF ss
<1>4. S = AllCompiled(set, res)
  BY DEF AllCompiled
<1> HIDE DEF S
<1> QED BY <1>1, <1>2, <1>3, <1>4, FlattenAll

LEMMA BundleRange ==
  \A set, w, res, m : m \in Range(CompilePolicySet(set, w, res)) <=>
                      \E d \in Devices : Active(set, w, d) /\ m = Compiled(set, res, d)
<1> SUFFICES ASSUME NEW set, NEW w, NEW res
             PROVE  \A m : m \in Range(CompilePolicySet(set, w, res)) <=>
                           \E d \in Devices : Active(set, w, d) /\ m = Compiled(set, res, d)
  OBVIOUS
<1> QED BY BundleHas

LEMMA GroupsAre ==
  ASSUME NEW set, NEW w, NEW res, NEW g
  PROVE  g \in Groups(CompilePolicySet(set, w, res)) <=>
         \E d \in Devices : Active(set, w, d) /\ g \in Compiled(set, res, d).groups
<1> DEFINE b == CompilePolicySet(set, w, res)
<1>1. g \in Groups(b) <=> \E m \in Range(b) : g \in m.groups
  <2> HIDE DEF b
  <2> QED BY DEF Groups, Range
<1>2. \A m : m \in Range(b) <=> \E d \in Devices : Active(set, w, d) /\ m = Compiled(set, res, d)
  BY BundleRange
<1> HIDE DEF b
<1>3. ASSUME g \in Groups(b) PROVE \E d \in Devices : Active(set, w, d) /\ g \in Compiled(set, res, d).groups
  <2>1. PICK m \in Range(b) : g \in m.groups
    BY <1>1, <1>3
  <2>2. PICK d \in Devices : Active(set, w, d) /\ m = Compiled(set, res, d)
    BY <1>2, <2>1
  <2> QED BY <2>1, <2>2, Zenon
<1>4. ASSUME NEW d \in Devices, Active(set, w, d), g \in Compiled(set, res, d).groups PROVE g \in Groups(b)
  <2> DEFINE m == Compiled(set, res, d)
  <2>1. m \in Range(b)
    BY <1>2, <1>4, Zenon
  <2>2. g \in m.groups
    BY <1>4
  <2> HIDE DEF m
  <2> QED BY <1>1, <2>1, <2>2, Zenon
<1> QED BY <1>3, <1>4, Zenon DEF b

Rules(set, d)    == Resolved(set[d].profile).rules
Defaults(set, d) == Resolved(set[d].profile).defaults
Open(set, d)     == set[d].target # "upstream_router"
Base(set, res, d) == Candidates(res, Group(d, "default"), Defaults(set, d))
Mode(set, res, d) == IF Base(set, res, d) = <<>> THEN "inherit_global" ELSE set[d].mode

\* What is compiled for a device, field by field.
LEMMA CompiledFields ==
  ASSUME NEW set, NEW res, NEW d
  PROVE  /\ Compiled(set, res, d).dev = d
         /\ Compiled(set, res, d).mac = set[d].mac
         /\ (Compiled(set, res, d).bypass <=> ~Open(set, d))
         /\ Compiled(set, res, d).mode = (IF Open(set, d) THEN Mode(set, res, d) ELSE set[d].mode)
BY DEF Compiled, Open, Mode, Base, Defaults

\* The groups compiled for a device are its default and one for each rule.
LEMMA CompiledGroups ==
  ASSUME NEW set, NEW res, NEW d, NEW g
  PROVE  g \in Compiled(set, res, d).groups <=>
            /\ Open(set, d)
            /\ \/ \E r \in Range(Rules(set, d)) :
                      /\ RuleKept(res, d, r) /\ r.policies # <<>>
                      /\ g = [name |-> Group(d, r.id), of |-> Candidates(res, Group(d, r.id), r.policies)]
               \/ /\ Mode(set, res, d) # "inherit_global"
                  /\ g = [name |-> Group(d, "default"), of |-> Base(set, res, d)]
<1> DEFINE kept == {r \in Range(Rules(set, d)) : RuleKept(res, d, r)}
<1>1. Compiled(set, res, d).groups =
        (IF ~Open(set, d) THEN {} ELSE
            {[name |-> Group(d, r.id), of |-> Candidates(res, Group(d, r.id), r.policies)] :
                r \in {x \in kept : x.policies # <<>>}}
            \cup IF Mode(set, res, d) = "inherit_global" THEN {}
                 ELSE {[name |-> Group(d, "default"), of |-> Base(set, res, d)]})
  BY DEF Compiled, Open, Mode, Base, Defaults, Rules
<1> QED BY <1>1

LEMMA CompiledActions ==
  ASSUME NEW set, NEW res, NEW d
  PROVE  Compiled(set, res, d).actions =
         IF Open(set, d) THEN {r.action : r \in {x \in Range(Rules(set, d)) : RuleKept(res, d, x)}} \ {"none"}
         ELSE {}
BY DEF Compiled, Open, Rules

\* A group of a bundle is one of those compiled for the device it is named for.
LEMMA GroupsOfDevices ==
  ASSUME NEW set, NEW w, NEW res, NEW g \in Groups(CompilePolicySet(set, w, res))
  PROVE  /\ g.name.dev \in Devices /\ Active(set, w, g.name.dev)
         /\ g \in Compiled(set, res, g.name.dev).groups
<1>1. PICK d \in Devices : Active(set, w, d) /\ g \in Compiled(set, res, d).groups
  BY GroupsAre
<1>2. g.name.dev = d
  <2>0. \A n, o : [name |-> n, of |-> o].name = n
    OBVIOUS
  <2>1. \A x : Group(d, x).dev = d
    BY DEF Group
  <2>2. CASE \E r \in Range(Rules(set, d)) :
                      /\ RuleKept(res, d, r) /\ r.policies # <<>>
                      /\ g = [name |-> Group(d, r.id), of |-> Candidates(res, Group(d, r.id), r.policies)]
    <3>1. PICK r \in Range(Rules(set, d)) :
                 g = [name |-> Group(d, r.id), of |-> Candidates(res, Group(d, r.id), r.policies)]
      BY <2>2
    <3>2. g.name = Group(d, r.id)
      BY <2>0, <3>1, Zenon
    <3> QED BY <2>1, <3>2, Zenon
  <2>3. CASE g = [name |-> Group(d, "default"), of |-> Base(set, res, d)]
    <3>2. g.name = Group(d, "default")
      BY <2>0, <2>3, Zenon
    <3> QED BY <2>1, <3>2, Zenon
  <2> QED BY <1>1, <2>2, <2>3, CompiledGroups
<1> QED BY <1>1, <1>2

MacNames == {TCP, UDP, GLOBAL}

IsList(s) == s \in Seq(Range(s))

EngFields == {"on", "rules", "groups", "sel", "kept", "world", "reserved", "doc", "ok"}
Running   == /\ IsMap(eng) /\ DOMAIN eng = EngFields
             /\ eng.on \in {"off", "prepared", "gateway"} /\ IsMap(eng.sel)
             /\ \A g \in eng.groups : g.name.dev \in Devices

SetterFields == {"pc", "mode", "todo", "done", "was", "lost"}
IsSetter(s)  == /\ IsMap(s) /\ DOMAIN s = SetterFields /\ s.pc \in {"idle", "put", "back"}
                /\ IsList(s.todo) /\ IsList(s.done)
Setters      == IsMap(setter) /\ DOMAIN setter = Clients /\ \A c \in Clients : IsSetter(setter[c])

\* A move is of a group of the Mac, from what that group had.
Starts(s, was) == \A i \in DOMAIN s : s[i].g \in MacNames /\ s[i].from = was[s[i].g]
Unlike(s)      == \A i, j \in DOMAIN s : s[i].g = s[j].g => i = j
Untouched(s, g) == \A i \in DOMAIN s : s[i].g # g

\* What is not among the moves made is as it was before the first of them.
Undoes(s, sel) ==
    /\ DOMAIN s.was = DOMAIN sel
    /\ Starts(s.done, s.was) /\ Unlike(s.done)
    /\ s.pc = "put" => /\ Starts(s.todo, s.was) /\ Unlike(s.todo) /\ DOMAIN s.lost = {}
                       /\ \A i \in DOMAIN s.todo : Untouched(s.done, s.todo[i].g)
    /\ \A g \in DOMAIN s.lost : Untouched(s.done, g)
    /\ \A g \in MacNames \cap DOMAIN s.was : Untouched(s.done, g) => sel[g] = Meant(s, g)

Undisturbed ==
    ~upset => \A c \in Clients : ~Setting(c, "idle") =>
        /\ eng.on = "gateway" /\ \A o \in Clients \ {c} : Setting(o, "idle")
        /\ Undoes(setter[c], eng.sel)

\* What is left of the steps of a change are steps that can be taken back.
LEMMA TailMoves ==
  ASSUME NEW s, IsList(s), s # <<>>
  PROVE  /\ IsList(Tail(s)) /\ 1 \in DOMAIN s /\ IsList(<<>>)
         /\ \A i \in DOMAIN Tail(s) : i \in Nat /\ i + 1 \in DOMAIN s /\ i + 1 # 1 /\ Tail(s)[i] = s[i + 1]
         /\ \A i \in DOMAIN s : i = 1 \/ (i - 1 \in DOMAIN Tail(s) /\ Tail(s)[i - 1] = s[i])
<1>1. /\ s \in Seq(Range(s)) /\ Len(s) \in Nat /\ Len(s) # 0 /\ DOMAIN s = 1..Len(s)
  BY DEF IsList
<1>2. /\ Tail(s) \in Seq(Range(s)) /\ Len(Tail(s)) = Len(s) - 1 /\ DOMAIN Tail(s) = 1..(Len(s) - 1)
      /\ \A i \in 1..(Len(s) - 1) : Tail(s)[i] = s[i + 1]
  BY <1>1
<1>3. IsList(Tail(s))
  <2> DEFINE u == Tail(s)
  <2>0. u \in Seq(Range(s)) /\ Len(u) \in Nat /\ DOMAIN u = 1..Len(u)
    BY <1>1, <1>2
  <2> HIDE DEF u
  <2>1. \A i \in 1..Len(u) : u[i] \in Range(u)
    BY <2>0 DEF Range
  <2>2. u = [i \in 1..Len(u) |-> u[i]]
    BY <2>0
  <2>3. IsList(u)
    BY <2>0, <2>1, <2>2 DEF IsList
  <2> QED BY <2>3 DEF u
<1>4. IsList(<<>>)
  BY DEF IsList
<1>5. \A i \in 1..(Len(s) - 1) : i \in Nat /\ i + 1 \in 1..Len(s) /\ i + 1 # 1
  BY <1>1
<1>6. \A i \in 1..Len(s) : i = 1 \/ (i - 1 \in 1..(Len(s) - 1) /\ (i - 1) + 1 = i)
  BY <1>1
<1>7. 1 \in 1..Len(s)
  BY <1>1
<1> QED BY <1>1, <1>2, <1>3, <1>4, <1>5, <1>6, <1>7

\* u is s with t before it.
Heads(u, t, s) ==
    /\ 1 \in DOMAIN u /\ u[1] = t
    /\ \A i \in DOMAIN u : i = 1 \/ (i - 1 \in DOMAIN s /\ u[i] = s[i - 1])
    /\ \A i \in DOMAIN s : i + 1 \in DOMAIN u /\ u[i + 1] = s[i]

LEMMA PushMoves ==
  ASSUME NEW s, IsList(s), NEW t
  PROVE  IsList(<<t>> \o s) /\ Heads(<<t>> \o s, t, s)
<1> DEFINE S == Range(s) \cup {t}
           u == <<t>> \o s
<1>1. s \in Seq(S) /\ <<t>> \in Seq(S) /\ Len(s) \in Nat /\ DOMAIN s = 1..Len(s)
  <2>1. s \in Seq(Range(s))
    BY DEF IsList
  <2> QED BY <2>1
<1>2. /\ u \in Seq(S) /\ Len(u) = 1 + Len(s) /\ DOMAIN u = 1..(1 + Len(s))
      /\ \A i \in 1..(1 + Len(s)) : u[i] = IF i <= 1 THEN t ELSE s[i - 1]
  BY <1>1
<1> HIDE DEF u
<1>3. IsList(u)
  <2>1. \A i \in 1..Len(u) : u[i] \in Range(u)
    BY <1>2 DEF Range
  <2>2. u = [i \in 1..Len(u) |-> u[i]] /\ Len(u) \in Nat
    BY <1>1, <1>2
  <2> QED BY <2>1, <2>2 DEF IsList
<1>4. \A i \in 1..(1 + Len(s)) : i = 1 \/ (i - 1 \in 1..Len(s) /\ ~(i <= 1))
  BY <1>1
<1>5. \A i \in 1..Len(s) : i + 1 \in 1..(1 + Len(s)) /\ ~(i + 1 <= 1) /\ (i + 1) - 1 = i
  BY <1>1
<1>6. 1 \in 1..(1 + Len(s))
  BY <1>1
<1>7. /\ IsList(u) /\ 1 \in DOMAIN u /\ u[1] = t
      /\ \A i \in DOMAIN u : i = 1 \/ (i - 1 \in DOMAIN s /\ u[i] = s[i - 1])
      /\ \A i \in DOMAIN s : i + 1 \in DOMAIN u /\ u[i + 1] = s[i]
  BY <1>1, <1>2, <1>3, <1>4, <1>5, <1>6
<1> QED BY <1>7 DEF u, Heads

\* A selection changes one selection, and nothing else of the engine.
IsRun(e) == /\ IsMap(e) /\ DOMAIN e = EngFields
            /\ e.on \in {"off", "prepared", "gateway"} /\ IsMap(e.sel)
            /\ \A g \in e.groups : g.name.dev \in Devices
With(e, f, g, t) == f = [e EXCEPT !.sel[g] = t]
OneSelected(e, f, g, t) ==
    /\ f.on = e.on /\ f.groups = e.groups /\ DOMAIN f.sel = DOMAIN e.sel
    /\ \A x \in DOMAIN e.sel : f.sel[x] = IF x = g THEN t ELSE e.sel[x]

LEMMA SelectIs ==
  ASSUME NEW e, IsRun(e), NEW f, NEW g, NEW t, With(e, f, g, t)
  PROVE  IsRun(f) /\ OneSelected(e, f, g, t)
<1>1. /\ f.on = e.on /\ f.groups = e.groups /\ DOMAIN f = DOMAIN e
      /\ f.sel = [e.sel EXCEPT ![g] = t] /\ IsMap(f)
  BY DEF With, IsRun, EngFields, IsMap
<1>2. IsMap(f.sel) /\ DOMAIN f.sel = DOMAIN e.sel
  BY <1>1 DEF IsRun, IsMap
<1>3. \A x \in DOMAIN e.sel : f.sel[x] = IF x = g THEN t ELSE e.sel[x]
  BY <1>1 DEF IsRun, IsMap
<1>4. IsRun(f)
  BY <1>1, <1>2 DEF IsRun
<1> QED BY <1>1, <1>2, <1>3, <1>4 DEF OneSelected

LEMMA SettersInit == RoutingInit => Running /\ Setters /\ Undisturbed
<1> SUFFICES ASSUME RoutingInit PROVE Running /\ Setters /\ Undisturbed
  OBVIOUS
<1>1. IsList(<<>>)
  BY DEF IsList
<1>2. Running
  BY DEF RoutingInit, Running, IsMap, Off, EngFields, NoSelection
<1>3. Setters
  BY <1>1 DEF RoutingInit, Setters, IsSetter, IsMap, NoSetter, SetterFields
<1>4. Undisturbed
  BY DEF RoutingInit, Undisturbed, Setting, NoSetter
<1> QED BY <1>2, <1>3, <1>4

\* What a step of a request makes of its setter.
LEMMA IdleSetter ==
  ASSUME Setters, NEW c \in Clients, setter' = [setter EXCEPT ![c] = NoSetter]
  PROVE  /\ Setters' /\ setter'[c].pc = "idle"
         /\ \A o \in Clients \ {c} : setter'[o] = setter[o]
<1>1. IsList(<<>>)
  BY DEF IsList
<1>2. IsSetter(NoSetter) /\ NoSetter.pc = "idle"
  BY <1>1 DEF IsSetter, NoSetter, IsMap, SetterFields
<1>3. /\ setter'[c] = NoSetter /\ DOMAIN setter' = Clients /\ IsMap(setter')
      /\ \A o \in Clients \ {c} : setter'[o] = setter[o]
  BY DEF Setters, IsMap
<1>4. Setters'
  BY <1>2, <1>3 DEF Setters
<1> QED BY <1>2, <1>3, <1>4

LEMMA BackSetter ==
  ASSUME Setters, NEW c \in Clients, setter' = [setter EXCEPT ![c].pc = "back"]
  PROVE  /\ Setters' /\ setter'[c].pc = "back"
         /\ setter'[c].done = setter[c].done /\ setter'[c].was = setter[c].was
         /\ setter'[c].lost = setter[c].lost
         /\ \A o \in Clients \ {c} : setter'[o] = setter[o]
<1>1. /\ setter'[c] = [setter[c] EXCEPT !.pc = "back"] /\ DOMAIN setter' = Clients /\ IsMap(setter')
      /\ \A o \in Clients \ {c} : setter'[o] = setter[o]
  BY DEF Setters, IsMap
<1>2. IsSetter(setter[c])
  BY DEF Setters
<1>3. /\ IsMap(setter'[c]) /\ DOMAIN setter'[c] = SetterFields /\ setter'[c].pc = "back"
      /\ setter'[c].done = setter[c].done /\ setter'[c].was = setter[c].was
      /\ setter'[c].lost = setter[c].lost
      /\ setter'[c].todo = setter[c].todo
  BY <1>1, <1>2 DEF IsSetter, SetterFields, IsMap
<1>4. IsSetter(setter'[c])
  BY <1>2, <1>3 DEF IsSetter
<1>5. Setters'
  BY <1>1, <1>4 DEF Setters
<1> QED BY <1>1, <1>3, <1>5

\* A change whose answer is lost is remembered by the history alone.
LEMMA LostSetter ==
  ASSUME Setters, NEW c \in Clients, NEW f,
         setter' = [setter EXCEPT ![c].pc = "back", ![c].lost = f]
  PROVE  /\ Setters' /\ setter'[c].pc = "back" /\ setter'[c].lost = f
         /\ setter'[c].done = setter[c].done /\ setter'[c].was = setter[c].was
         /\ \A o \in Clients \ {c} : setter'[o] = setter[o]
<1> DEFINE mid == [setter EXCEPT ![c].pc = "back"]
<1>1. IsSetter(setter[c])
  BY DEF Setters
<1>2. /\ mid[c] = [setter[c] EXCEPT !.pc = "back"] /\ DOMAIN mid = Clients /\ IsMap(mid)
      /\ \A o \in Clients \ {c} : mid[o] = setter[o]
  BY DEF Setters, IsMap
<1>3. setter' = [mid EXCEPT ![c].lost = f]
  OBVIOUS
<1> HIDE DEF mid
<1>4. /\ setter'[c] = [mid[c] EXCEPT !.lost = f] /\ DOMAIN setter' = Clients /\ IsMap(setter')
      /\ \A o \in Clients \ {c} : setter'[o] = setter[o]
  BY <1>2, <1>3 DEF IsMap
<1>5. /\ IsMap(mid[c]) /\ DOMAIN mid[c] = SetterFields /\ mid[c].pc = "back"
      /\ mid[c].done = setter[c].done /\ mid[c].was = setter[c].was /\ mid[c].todo = setter[c].todo
  BY <1>1, <1>2 DEF IsSetter, SetterFields, IsMap
<1>6. /\ IsMap(setter'[c]) /\ DOMAIN setter'[c] = SetterFields /\ setter'[c].pc = "back"
      /\ setter'[c].done = setter[c].done /\ setter'[c].was = setter[c].was
      /\ setter'[c].todo = setter[c].todo /\ setter'[c].lost = f
  BY <1>4, <1>5 DEF SetterFields, IsMap
<1>7. IsSetter(setter'[c])
  BY <1>1, <1>6 DEF IsSetter
<1>8. Setters'
  BY <1>4, <1>7 DEF Setters
<1> QED BY <1>4, <1>6, <1>8

\* A step of a change leaves what its caller remembers true.
LEMMA PutSetter ==
  ASSUME Setters, NEW c \in Clients, setter[c].todo # <<>>,
         setter' = [setter EXCEPT ![c].todo = Tail(@), ![c].done = <<setter[c].todo[1]>> \o @]
  PROVE  /\ Setters' /\ setter'[c].pc = setter[c].pc
         /\ setter'[c].todo = Tail(setter[c].todo)
         /\ setter'[c].done = <<setter[c].todo[1]>> \o setter[c].done
         /\ setter'[c].was = setter[c].was /\ setter'[c].lost = setter[c].lost
         /\ \A o \in Clients \ {c} : setter'[o] = setter[o]
<1> DEFINE a == Tail(setter[c].todo)
           b == <<setter[c].todo[1]>> \o setter[c].done
           mid == [setter EXCEPT ![c].todo = a]
<1>1. IsSetter(setter[c]) /\ IsList(a) /\ IsList(b)
  BY TailMoves, PushMoves DEF Setters, IsSetter
<1>2. mid[c].done = setter[c].done
  BY <1>1 DEF Setters, IsMap, IsSetter, SetterFields
<1>3. setter' = [mid EXCEPT ![c].done = b]
  BY <1>2
<1> HIDE DEF a, b
<1>4. /\ mid[c] = [setter[c] EXCEPT !.todo = a] /\ DOMAIN mid = Clients /\ IsMap(mid)
      /\ \A o \in Clients \ {c} : mid[o] = setter[o]
  BY DEF Setters, IsMap
<1> HIDE DEF mid
<1>5. /\ setter'[c] = [mid[c] EXCEPT !.done = b] /\ DOMAIN setter' = Clients /\ IsMap(setter')
      /\ \A o \in Clients \ {c} : setter'[o] = setter[o]
  BY <1>3, <1>4 DEF IsMap
<1>6. /\ IsMap(mid[c]) /\ DOMAIN mid[c] = SetterFields /\ mid[c].todo = a
      /\ mid[c].pc = setter[c].pc /\ mid[c].was = setter[c].was /\ mid[c].lost = setter[c].lost
  <2> DEFINE old == setter[c]
             new == mid[c]
  <2>1. IsMap(old) /\ DOMAIN old = SetterFields /\ new = [old EXCEPT !.todo = a]
    BY <1>1, <1>4 DEF IsSetter
  <2> HIDE DEF old, new
  <2>2. /\ IsMap(new) /\ DOMAIN new = SetterFields /\ new.todo = a
        /\ new.pc = old.pc /\ new.was = old.was /\ new.lost = old.lost
    BY <2>1 DEF SetterFields, IsMap
  <2> QED BY <2>2 DEF old, new
<1>7. /\ IsMap(setter'[c]) /\ DOMAIN setter'[c] = SetterFields /\ setter'[c].pc = setter[c].pc
      /\ setter'[c].done = b /\ setter'[c].was = setter[c].was /\ setter'[c].todo = a
      /\ setter'[c].lost = setter[c].lost
  <2> DEFINE old == mid[c]
             new == setter'[c]
  <2>1. IsMap(old) /\ DOMAIN old = SetterFields /\ new = [old EXCEPT !.done = b]
    BY <1>5, <1>6
  <2> HIDE DEF old, new
  <2>2. /\ IsMap(new) /\ DOMAIN new = SetterFields /\ new.done = b /\ new.todo = old.todo
        /\ new.pc = old.pc /\ new.was = old.was /\ new.lost = old.lost
    BY <2>1 DEF SetterFields, IsMap
  <2> QED BY <1>6, <2>2 DEF old, new
<1>8. IsSetter(setter'[c])
  BY <1>1, <1>7 DEF IsSetter
<1>9. Setters'
  BY <1>5, <1>8 DEF Setters
<1> QED BY <1>5, <1>7, <1>9 DEF a, b

LEMMA TakenSetter ==
  ASSUME Setters, NEW c \in Clients, setter[c].done # <<>>,
         setter' = [setter EXCEPT ![c].done = Tail(@)]
  PROVE  /\ Setters' /\ setter'[c].pc = setter[c].pc
         /\ setter'[c].done = Tail(setter[c].done) /\ setter'[c].was = setter[c].was
         /\ setter'[c].lost = setter[c].lost
         /\ \A o \in Clients \ {c} : setter'[o] = setter[o]
<1> DEFINE b == Tail(setter[c].done)
<1>1. IsSetter(setter[c]) /\ IsList(b)
  BY TailMoves DEF Setters, IsSetter
<1>2. setter' = [setter EXCEPT ![c].done = b]
  OBVIOUS
<1> HIDE DEF b
<1>3. /\ setter'[c] = [setter[c] EXCEPT !.done = b] /\ DOMAIN setter' = Clients /\ IsMap(setter')
      /\ \A o \in Clients \ {c} : setter'[o] = setter[o]
  BY <1>2 DEF Setters, IsMap
<1>4. /\ IsMap(setter'[c]) /\ DOMAIN setter'[c] = SetterFields /\ setter'[c].pc = setter[c].pc
      /\ setter'[c].done = b /\ setter'[c].was = setter[c].was /\ setter'[c].todo = setter[c].todo
      /\ setter'[c].lost = setter[c].lost
  BY <1>1, <1>3 DEF IsSetter, SetterFields, IsMap
<1>5. IsSetter(setter'[c])
  BY <1>1, <1>4 DEF IsSetter
<1>6. Setters'
  BY <1>3, <1>5 DEF Setters
<1> QED BY <1>3, <1>4, <1>6 DEF b

\* A gateway that is prepared or started.
LEMMA EngineRuns ==
  ASSUME NEW kind \in {"prepared", "gateway"}, Run(kind)
  PROVE  Running' /\ eng'.on = kind /\ UNCHANGED <<setter, upset>>
<1>1. PICK found : eng' = Engine(kind, found)
  BY DEF Run
<1> DEFINE res == Resolution(doc, world, found)
           b == CompilePolicySet(doc, world, res)
           all == Groups(b) \cup MacGroups(world)
           s == [n \in {g.name : g \in all} |-> Selected(CHOOSE g \in all : g.name = n)]
<1>2. eng' = [on |-> kind, rules |-> Rendered(world, b), groups |-> Groups(b), sel |-> s,
              kept |-> res.sel, world |-> world, reserved |-> Reservations(b), doc |-> doc,
              ok |-> Renders(world, b)]
  BY <1>1 DEF Engine
<1>3. \A g \in Groups(b) : g.name.dev \in Devices
  BY GroupsOfDevices
<1>4. IsMap(s)
  BY DEF IsMap
<1> HIDE DEF b, s, res
<1>5. /\ IsMap(eng') /\ DOMAIN eng' = EngFields /\ eng'.on = kind /\ eng'.sel = s
      /\ eng'.groups = Groups(b)
  BY <1>2 DEF IsMap, EngFields
<1>6. Running'
  BY <1>3, <1>4, <1>5 DEF Running
<1> QED BY <1>5, <1>6 DEF Run

\* The moves a mode needs are of different groups.
LEMMA MovesJoined ==
  ASSUME NEW s, NEW t, IsList(s), IsList(t), NEW was,
         Starts(s, was), Starts(t, was), Unlike(s), Unlike(t),
         \A i \in DOMAIN s, j \in DOMAIN t : s[i].g # t[j].g
  PROVE  /\ IsList(s \o t) /\ Starts(s \o t, was) /\ Unlike(s \o t)
         /\ \A k \in DOMAIN (s \o t) : \/ \E i \in DOMAIN s : (s \o t)[k] = s[i]
                                       \/ \E j \in DOMAIN t : (s \o t)[k] = t[j]
<1> DEFINE S == Range(s) \cup Range(t)
           u == s \o t
           n == Len(s)
           m == Len(t)
<1>1. /\ s \in Seq(S) /\ t \in Seq(S) /\ n \in Nat /\ m \in Nat
      /\ DOMAIN s = 1..n /\ DOMAIN t = 1..m
  BY DEF IsList
<1>2. /\ u \in Seq(S) /\ Len(u) = n + m /\ DOMAIN u = 1..(n + m)
      /\ \A i \in 1..(n + m) : u[i] = IF i <= n THEN s[i] ELSE t[i - n]
  BY <1>1
<1> HIDE DEF u, n, m
<1>3. IsList(u)
  <2>1. \A i \in 1..Len(u) : u[i] \in Range(u)
    BY <1>2 DEF Range
  <2>2. u = [i \in 1..Len(u) |-> u[i]] /\ Len(u) \in Nat
    BY <1>1, <1>2
  <2> QED BY <2>1, <2>2 DEF IsList
<1>4. \A i \in DOMAIN u : \/ i <= n /\ i \in DOMAIN s /\ u[i] = s[i]
                          \/ ~(i <= n) /\ i - n \in DOMAIN t /\ u[i] = t[i - n]
  <2>1. ASSUME NEW i \in 1..(n + m), i <= n PROVE i \in 1..n
    BY <1>1, <2>1
  <2>2. ASSUME NEW i \in 1..(n + m), ~(i <= n) PROVE i - n \in 1..m
    BY <1>1, <2>2
  <2> QED BY <1>1, <1>2, <2>1, <2>2
<1>5. Starts(u, was)
  BY <1>4 DEF Starts
<1>6. Unlike(u)
  <2> SUFFICES ASSUME NEW i \in DOMAIN u, NEW j \in DOMAIN u, u[i].g = u[j].g PROVE i = j
    BY DEF Unlike
  <2>1. CASE i <= n /\ j <= n
    BY <1>4, <2>1 DEF Unlike
  <2>2. CASE ~(i <= n) /\ ~(j <= n)
    <3>1. i - n = j - n
      BY <1>4, <2>2 DEF Unlike
    <3> QED BY <1>1, <1>2, <3>1
  <2>3. CASE (i <= n) # (j <= n)
    BY <1>4, <2>3
  <2> QED BY <2>1, <2>2, <2>3
<1>7. \A k \in DOMAIN u : (\E i \in DOMAIN s : u[k] = s[i]) \/ (\E j \in DOMAIN t : u[k] = t[j])
  BY <1>4
<1> QED BY <1>3, <1>5, <1>6, <1>7 DEF u

\* A change of one group is a step for it, or nothing if it is as wanted.
LEMMA NeededMoves ==
  ASSUME NEW g \in MacNames, NEW t
  PROVE  /\ IsList(Needed(g, t)) /\ Starts(Needed(g, t), eng.sel) /\ Unlike(Needed(g, t))
         /\ \A i \in DOMAIN Needed(g, t) : Needed(g, t)[i].g = g
<1> DEFINE r == [g |-> g, from |-> eng.sel[g], to |-> t]
           s == Needed(g, t)
<1>1. r.g = g /\ r.from = eng.sel[g]
  OBVIOUS
<1>2. s = <<>> \/ s = <<r>>
  BY DEF Needed
<1> HIDE DEF r, s
<1>3. CASE s = <<>>
  BY <1>3 DEF IsList, Starts, Unlike, s
<1>4. CASE s = <<r>>
  <2>1. DOMAIN s = {1} /\ s[1] = r
    BY <1>4
  <2>2. IsList(s)
    <3>1. Range(s) = {r}
      BY <2>1 DEF Range
    <3> QED BY <1>4, <3>1 DEF IsList
  <2>3. Starts(s, eng.sel) /\ Unlike(s) /\ \A i \in DOMAIN s : s[i].g = g
    BY <1>1, <2>1 DEF Starts, Unlike
  <2> QED BY <2>2, <2>3 DEF s
<1> QED BY <1>2, <1>3, <1>4

LEMMA ModeMoves ==
  ASSUME NEW a, NEW b, NEW outlet
  PROVE  LET todo == (IF outlet # Empty THEN Needed(GLOBAL, outlet) ELSE <<>>)
                     \o Needed(TCP, a) \o Needed(UDP, b)
         IN IsList(todo) /\ Starts(todo, eng.sel) /\ Unlike(todo)
<1> DEFINE x == IF outlet # Empty THEN Needed(GLOBAL, outlet) ELSE <<>>
           y == Needed(TCP, a)
           z == Needed(UDP, b)
<1>1. TCP \in MacNames /\ UDP \in MacNames /\ GLOBAL \in MacNames
  BY DEF MacNames
<1>2. TCP # UDP /\ TCP # GLOBAL /\ UDP # GLOBAL
  <2>1. TCP.slot = "tcp" /\ UDP.slot = "udp" /\ GLOBAL.slot = "global"
    BY DEF TCP, UDP, GLOBAL, Group
  <2> QED BY <2>1
<1>3. IsList(x) /\ Starts(x, eng.sel) /\ Unlike(x) /\ \A i \in DOMAIN x : x[i].g = GLOBAL
  <2>1. CASE outlet # Empty
    BY <1>1, <2>1, NeededMoves
  <2>2. CASE outlet = Empty
    BY <2>2 DEF IsList, Starts, Unlike
  <2> QED BY <2>1, <2>2
<1>4. IsList(y) /\ Starts(y, eng.sel) /\ Unlike(y) /\ \A i \in DOMAIN y : y[i].g = TCP
  BY <1>1, NeededMoves
<1>5. IsList(z) /\ Starts(z, eng.sel) /\ Unlike(z) /\ \A i \in DOMAIN z : z[i].g = UDP
  BY <1>1, NeededMoves
<1> HIDE DEF x, y, z
<1>6. /\ IsList(x \o y) /\ Starts(x \o y, eng.sel) /\ Unlike(x \o y)
      /\ \A k \in DOMAIN (x \o y) : (x \o y)[k].g \in {GLOBAL, TCP}
  <2>1. \A i \in DOMAIN x, j \in DOMAIN y : x[i].g # y[j].g
    BY <1>2, <1>3, <1>4
  <2>2. /\ IsList(x \o y) /\ Starts(x \o y, eng.sel) /\ Unlike(x \o y)
        /\ \A k \in DOMAIN (x \o y) : \/ \E i \in DOMAIN x : (x \o y)[k] = x[i]
                                      \/ \E j \in DOMAIN y : (x \o y)[k] = y[j]
    BY <1>3, <1>4, <2>1, MovesJoined
  <2> QED BY <1>3, <1>4, <2>2
<1> DEFINE v == x \o y
<1>7. IsList(v) /\ Starts(v, eng.sel) /\ Unlike(v) /\ \A k \in DOMAIN v : v[k].g \in {GLOBAL, TCP}
  BY <1>6
<1> HIDE DEF v
<1>8. \A i \in DOMAIN v, j \in DOMAIN z : v[i].g # z[j].g
  BY <1>2, <1>5, <1>7
<1>9. IsList(v \o z) /\ Starts(v \o z, eng.sel) /\ Unlike(v \o z)
  BY <1>5, <1>7, <1>8, MovesJoined
<1> QED BY <1>9 DEF v, x, y, z

\* The inductive invariant of a change of mode: while nothing disturbs it, the
\* groups of the Mac are as before, changed by exactly the steps taken.
SetterInv == Running /\ Setters /\ Undisturbed

LEMMA BeginSets ==
  ASSUME SetterInv, NEW c \in Clients, BeginMode(c)
  PROVE  SetterInv' /\ setter'[c].pc = "put"
<1>1. PICK mode \in {"rule", "direct", "global"},
           outlet \in (IF GLOBAL \in DOMAIN eng.sel THEN Range(Outlets(eng.world)) ELSE {Empty}),
           known \in BOOLEAN :
          setter' = [setter EXCEPT ![c] =
                 [pc |-> "put", mode |-> mode, done |-> <<>>, was |-> eng.sel, lost |-> NoSelection,
                  todo |-> (IF outlet # Empty THEN Needed(GLOBAL, outlet) ELSE <<>>)
                           \o Needed(TCP, TCPTarget(mode)) \o Needed(UDP, UDPTarget(mode, outlet, known))]]
  BY DEF BeginMode
<1>2. /\ eng' = eng /\ eng.on = "gateway" /\ Setting(c, "idle")
      /\ upset' = (upset \/ \E o \in Clients : ~Setting(o, "idle"))
  BY DEF BeginMode
<1> DEFINE todo == (IF outlet # Empty THEN Needed(GLOBAL, outlet) ELSE <<>>)
                   \o Needed(TCP, TCPTarget(mode)) \o Needed(UDP, UDPTarget(mode, outlet, known))
           new == [pc |-> "put", mode |-> mode, done |-> <<>>, was |-> eng.sel, lost |-> NoSelection,
                   todo |-> todo]
<1>3. IsList(todo) /\ Starts(todo, eng.sel) /\ Unlike(todo)
  BY ModeMoves
<1> HIDE DEF todo
<1>4. setter' = [setter EXCEPT ![c] = new]
  BY <1>1 DEF todo
<1>5. IsList(<<>>)
  BY DEF IsList
<1>6. /\ IsMap(new) /\ DOMAIN new = SetterFields /\ new.pc = "put" /\ new.todo = todo
      /\ new.done = <<>> /\ new.was = eng.sel /\ DOMAIN new.lost = {}
  BY DEF IsMap, SetterFields, NoSelection
<1> HIDE DEF new
<1>7. IsSetter(new)
  BY <1>3, <1>5, <1>6 DEF IsSetter
<1>8. /\ setter'[c] = new /\ DOMAIN setter' = Clients /\ IsMap(setter')
      /\ \A o \in Clients \ {c} : setter'[o] = setter[o]
  BY <1>4 DEF SetterInv, Setters, IsMap
<1>9. Setters'
  BY <1>7, <1>8 DEF SetterInv, Setters
<1>10. Running'
  BY <1>2 DEF SetterInv, Running
<1>11. Undoes(new, eng.sel)
  BY <1>3, <1>6 DEF Undoes, Starts, Unlike, Untouched, Meant
<1>12. Undisturbed'
  <2> SUFFICES ASSUME ~upset', NEW o \in Clients, ~Setting(o, "idle")'
               PROVE  /\ eng'.on = "gateway" /\ \A x \in Clients \ {o} : Setting(x, "idle")'
                      /\ Undoes(setter'[o], eng'.sel)
    BY DEF Undisturbed
  <2>1. \A x \in Clients : setter[x].pc = "idle"
    BY <1>2 DEF Setting
  <2>2. o = c /\ \A x \in Clients \ {c} : setter'[x].pc = "idle"
    BY <1>8, <2>1 DEF Setting
  <2>3. Undoes(setter'[o], eng'.sel)
    BY <1>2, <1>8, <1>11, <2>2 DEF Undoes
  <2> QED BY <1>2, <2>2, <2>3 DEF Setting
<1> QED BY <1>6, <1>8, <1>9, <1>10, <1>12 DEF SetterInv

LEMMA PutSets ==
  ASSUME SetterInv, NEW c \in Clients, PutNext(c)
  PROVE  SetterInv' /\ setter'[c].pc # "idle" /\ upset' = upset /\ \A o \in Clients \ {c} : setter'[o] = setter[o]
<1> DEFINE t == setter[c].todo[1]
<1>1. /\ Setting(c, "put") /\ setter[c].todo # <<>> /\ upset' = upset /\ setter[c].pc = "put"
      /\ \/ /\ CanSelect(t.g, t.to) /\ Select(t.g, t.to)
            /\ setter' = [setter EXCEPT ![c].todo = Tail(@), ![c].done = <<t>> \o @]
         \/ setter' = [setter EXCEPT ![c].pc = "back"] /\ eng' = eng
         \/ /\ CanSelect(t.g, t.to) /\ Select(t.g, t.to)
            /\ setter' = [setter EXCEPT ![c].pc = "back", ![c].lost = [x \in {t.g} |-> t.to]]
  BY DEF PutNext, Setting
<1>2. Running /\ Setters /\ Undisturbed /\ IsList(setter[c].todo) /\ IsList(setter[c].done)
  BY DEF SetterInv, Setters, IsSetter
<1>3. ~upset => /\ eng.on = "gateway" /\ (\A o \in Clients \ {c} : setter[o].pc = "idle")
                /\ Undoes(setter[c], eng.sel)
  BY <1>1, <1>2 DEF Undisturbed, Setting
<1>4. CASE setter' = [setter EXCEPT ![c].pc = "back"] /\ eng' = eng
  <2>1. /\ Setters' /\ setter'[c].pc = "back"
        /\ setter'[c].done = setter[c].done /\ setter'[c].was = setter[c].was
        /\ setter'[c].lost = setter[c].lost
        /\ \A o \in Clients \ {c} : setter'[o] = setter[o]
    BY <1>2, <1>4, BackSetter
  <2>2. Running'
    BY <1>2, <1>4 DEF Running
  <2>3. ~upset => Undoes(setter'[c], eng'.sel)
    BY <1>3, <1>4, <2>1 DEF Undoes, Meant
  <2>4. Undisturbed'
    BY <1>1, <1>3, <1>4, <2>1, <2>3 DEF Undisturbed, Setting
  <2> QED BY <1>1, <2>1, <2>2, <2>4 DEF SetterInv
<1>5. CASE /\ CanSelect(t.g, t.to) /\ Select(t.g, t.to)
           /\ setter' = [setter EXCEPT ![c].todo = Tail(@), ![c].done = <<t>> \o @]
  <2>1. /\ Setters' /\ setter'[c].pc = setter[c].pc
        /\ setter'[c].todo = Tail(setter[c].todo)
        /\ setter'[c].done = <<t>> \o setter[c].done
        /\ setter'[c].was = setter[c].was /\ setter'[c].lost = setter[c].lost
        /\ \A o \in Clients \ {c} : setter'[o] = setter[o]
    BY <1>1, <1>2, <1>5, PutSetter
  <2> HIDE DEF t
  <2>2. /\ Running' /\ eng'.on = eng.on
        /\ DOMAIN eng'.sel = DOMAIN eng.sel
        /\ \A x \in DOMAIN eng.sel : eng'.sel[x] = IF x = t.g THEN t.to ELSE eng.sel[x]
    <3>1. IsRun(eng) /\ With(eng, eng', t.g, t.to)
      BY <1>2, <1>5 DEF Running, IsRun, Select, With
    <3>2. IsRun(eng') /\ OneSelected(eng, eng', t.g, t.to)
      BY <3>1, SelectIs
    <3> QED BY <3>2 DEF Running, IsRun, OneSelected
  <2>3. ASSUME ~upset PROVE Undoes(setter'[c], eng'.sel)
    <3> DEFINE old == setter[c]
               new == setter'[c]
               d == <<t>> \o old.done
               u == Tail(old.todo)
    <3>1. /\ DOMAIN old.was = DOMAIN eng.sel
          /\ Starts(old.done, old.was) /\ Unlike(old.done)
          /\ Starts(old.todo, old.was) /\ Unlike(old.todo)
          /\ \A i \in DOMAIN old.todo : Untouched(old.done, old.todo[i].g)
          /\ DOMAIN old.lost = {}
          /\ \A g \in MacNames \cap DOMAIN old.was : Untouched(old.done, g) => eng.sel[g] = old.was[g]
      BY <1>1, <1>3, <2>3 DEF Undoes, Meant
    <3>2. /\ 1 \in DOMAIN d /\ d[1] = t
          /\ \A i \in DOMAIN d : i = 1 \/ (i - 1 \in DOMAIN old.done /\ d[i] = old.done[i - 1])
          /\ \A i \in DOMAIN old.done : i + 1 \in DOMAIN d /\ d[i + 1] = old.done[i]
      <4>1. Heads(d, t, old.done)
        BY <1>2, PushMoves
      <4> QED BY <4>1 DEF Heads
    <3>3. /\ 1 \in DOMAIN old.todo /\ old.todo[1] = t
          /\ \A i \in DOMAIN u : i \in Nat /\ i + 1 \in DOMAIN old.todo /\ i + 1 # 1 /\ u[i] = old.todo[i + 1]
      BY <1>1, <1>2, TailMoves DEF t
    <3>4. new.done = d /\ new.todo = u /\ new.was = old.was /\ new.lost = old.lost
      BY <2>1
    <3> HIDE DEF old, new, d, u
    <3>5. Starts(d, old.was)
      BY <3>1, <3>2, <3>3 DEF Starts
    <3>6. Unlike(d)
      <4> SUFFICES ASSUME NEW i \in DOMAIN d, NEW j \in DOMAIN d, d[i].g = d[j].g PROVE i = j
        BY DEF Unlike
      <4>1. Untouched(old.done, t.g)
        BY <3>1, <3>3
      <4>2. i = 1 <=> j = 1
        BY <3>2, <4>1 DEF Untouched
      <4>3. CASE i # 1
        <5>1. i - 1 = j - 1 /\ i - 1 \in DOMAIN old.done /\ j - 1 \in DOMAIN old.done
          BY <3>1, <3>2, <4>2, <4>3 DEF Unlike
        <5>2. DOMAIN d \subseteq Int
          BY <1>2, PushMoves DEF d, old, IsList
        <5> QED BY <5>1, <5>2
      <4> QED BY <4>2, <4>3
    <3>7. Starts(u, old.was)
      BY <3>1, <3>3 DEF Starts
    <3>8. Unlike(u)
      BY <3>1, <3>3 DEF Unlike
    <3>9. \A i \in DOMAIN u : Untouched(d, u[i].g)
      <4> SUFFICES ASSUME NEW i \in DOMAIN u, NEW j \in DOMAIN d, d[j].g = u[i].g PROVE FALSE
        BY DEF Untouched
      <4>1. CASE j = 1
        BY <3>1, <3>2, <3>3, <4>1 DEF Unlike
      <4>2. CASE j # 1
        BY <3>1, <3>2, <3>3, <4>2 DEF Untouched
      <4> QED BY <4>1, <4>2
    <3>10. \A g \in MacNames \cap DOMAIN old.was : Untouched(d, g) => eng'.sel[g] = old.was[g]
      <4> SUFFICES ASSUME NEW g \in MacNames \cap DOMAIN old.was, Untouched(d, g)
                   PROVE  eng'.sel[g] = old.was[g]
        OBVIOUS
      <4>1. g # t.g
        BY <3>2 DEF Untouched
      <4>2. Untouched(old.done, g)
        BY <3>2 DEF Untouched
      <4> QED BY <2>2, <3>1, <4>1, <4>2
    <3>11. Undoes(new, eng'.sel)
      <4>1. /\ DOMAIN new.was = DOMAIN eng'.sel
            /\ Starts(new.done, new.was) /\ Unlike(new.done)
            /\ Starts(new.todo, new.was) /\ Unlike(new.todo)
            /\ \A i \in DOMAIN new.todo : Untouched(new.done, new.todo[i].g)
            /\ DOMAIN new.lost = {}
        BY <2>2, <3>1, <3>4, <3>5, <3>6, <3>7, <3>8, <3>9
      <4>2. \A g \in MacNames \cap DOMAIN new.was : Untouched(new.done, g) => eng'.sel[g] = Meant(new, g)
        BY <3>1, <3>4, <3>10 DEF Meant
      <4>3. DOMAIN new.lost = {} => \A g \in DOMAIN new.lost : Untouched(new.done, g)
        OBVIOUS
      <4> QED BY <4>1, <4>2, <4>3 DEF Undoes
    <3> QED BY <3>11 DEF new
  <2>4. Undisturbed'
    BY <1>1, <1>3, <2>1, <2>2, <2>3 DEF Undisturbed, Setting
  <2>5. SetterInv'
    BY <2>1, <2>2, <2>4 DEF SetterInv
  <2>6. setter'[c].pc # "idle"
    BY <1>1, <2>1
  <2> QED BY <1>1, <2>1, <2>5, <2>6
<1>6. CASE /\ CanSelect(t.g, t.to) /\ Select(t.g, t.to)
           /\ setter' = [setter EXCEPT ![c].pc = "back", ![c].lost = [x \in {t.g} |-> t.to]]
  <2> DEFINE f == [x \in {t.g} |-> t.to]
  <2>0. DOMAIN f = {t.g} /\ f[t.g] = t.to
    OBVIOUS
  <2>f. setter' = [setter EXCEPT ![c].pc = "back", ![c].lost = f]
    BY <1>6
  <2> HIDE DEF f
  <2>1. /\ Setters' /\ setter'[c].pc = "back" /\ setter'[c].lost = f
        /\ setter'[c].done = setter[c].done /\ setter'[c].was = setter[c].was
        /\ \A o \in Clients \ {c} : setter'[o] = setter[o]
    BY <1>2, <2>f, LostSetter
  <2>2. ~upset => 1 \in DOMAIN setter[c].todo /\ Untouched(setter[c].done, t.g) /\ t.g \in MacNames
    BY <1>1, <1>2, <1>3, TailMoves DEF Undoes, Starts
  <2> HIDE DEF t
  <2>3. /\ Running' /\ eng'.on = eng.on
        /\ DOMAIN eng'.sel = DOMAIN eng.sel
        /\ \A x \in DOMAIN eng.sel : eng'.sel[x] = IF x = t.g THEN t.to ELSE eng.sel[x]
    <3>1. IsRun(eng) /\ With(eng, eng', t.g, t.to)
      BY <1>2, <1>6 DEF Running, IsRun, Select, With
    <3>2. IsRun(eng') /\ OneSelected(eng, eng', t.g, t.to)
      BY <3>1, SelectIs
    <3> QED BY <3>2 DEF Running, IsRun, OneSelected
  <2>4. ASSUME ~upset PROVE Undoes(setter'[c], eng'.sel)
    <3> DEFINE old == setter[c]
               new == setter'[c]
    <3>1. /\ DOMAIN old.was = DOMAIN eng.sel /\ Starts(old.done, old.was) /\ Unlike(old.done)
          /\ \A g \in MacNames \cap DOMAIN old.was : Untouched(old.done, g) => eng.sel[g] = old.was[g]
      BY <1>1, <1>3, <2>4 DEF Undoes, Meant
    <3>2. new.pc = "back" /\ new.lost = f /\ new.done = old.done /\ new.was = old.was
      BY <2>1
    <3>3. Untouched(old.done, t.g)
      BY <2>2, <2>4
    <3> HIDE DEF old, new
    <3>4. \A g \in MacNames \cap DOMAIN new.was : Untouched(new.done, g) => eng'.sel[g] = Meant(new, g)
      BY <2>0, <2>3, <3>1, <3>2 DEF Meant
    <3>5. Undoes(new, eng'.sel)
      BY <2>0, <2>3, <3>1, <3>2, <3>3, <3>4 DEF Undoes
    <3> QED BY <3>5 DEF new
  <2>5. Undisturbed'
    BY <1>1, <1>3, <2>1, <2>3, <2>4 DEF Undisturbed, Setting
  <2> QED BY <1>1, <2>1, <2>3, <2>5 DEF SetterInv
<1> QED BY <1>1, <1>4, <1>5, <1>6

LEMMA VerifySets ==
  ASSUME SetterInv, NEW c \in Clients, Verify(c)
  PROVE  /\ SetterInv' /\ upset' = upset /\ \A o \in Clients \ {c} : setter'[o] = setter[o]
         /\ setter'[c].pc = "idle" => Setting(c, "put") /\ ModeOf(eng') = setter[c].mode
<1>1. /\ Setting(c, "put") /\ eng' = eng /\ upset' = upset
      /\ \/ Wanted(c) /\ setter' = [setter EXCEPT ![c] = NoSetter]
         \/ setter' = [setter EXCEPT ![c].pc = "back"]
  BY DEF Verify
<1>2. Running /\ Setters /\ Undisturbed
  BY DEF SetterInv
<1>3. ~upset => /\ eng.on = "gateway" /\ (\A o \in Clients \ {c} : setter[o].pc = "idle")
                /\ Undoes(setter[c], eng.sel)
  BY <1>1, <1>2 DEF Undisturbed, Setting
<1>4. Running'
  BY <1>1, <1>2 DEF Running
<1>5. CASE Wanted(c) /\ setter' = [setter EXCEPT ![c] = NoSetter]
  <2>1. Setters' /\ setter'[c].pc = "idle" /\ \A o \in Clients \ {c} : setter'[o] = setter[o]
    BY <1>2, <1>5, IdleSetter
  <2>2. Undisturbed'
    BY <1>1, <1>3, <2>1 DEF Undisturbed, Setting
  <2>3. ModeOf(eng') = setter[c].mode
    BY <1>1, <1>5 DEF Wanted
  <2> QED BY <1>1, <1>4, <2>1, <2>2, <2>3 DEF SetterInv
<1>6. CASE setter' = [setter EXCEPT ![c].pc = "back"]
  <2>1. /\ Setters' /\ setter'[c].pc = "back"
        /\ setter'[c].done = setter[c].done /\ setter'[c].was = setter[c].was
        /\ setter'[c].lost = setter[c].lost
        /\ \A o \in Clients \ {c} : setter'[o] = setter[o]
    BY <1>2, <1>6, BackSetter
  <2>2. ~upset => Undoes(setter'[c], eng'.sel)
    BY <1>1, <1>3, <2>1 DEF Undoes, Meant
  <2>3. Undisturbed'
    BY <1>1, <1>3, <2>1, <2>2 DEF Undisturbed, Setting
  <2> QED BY <1>1, <1>4, <2>1, <2>3 DEF SetterInv
<1> QED BY <1>1, <1>5, <1>6

\* A change that is taken back undoes its steps, the last one first.
LEMMA TakeBackSets ==
  ASSUME SetterInv, NEW c \in Clients, TakeBack(c)
  PROVE  /\ SetterInv' /\ (upset => upset') /\ \A o \in Clients \ {c} : setter'[o] = setter[o]
         /\ setter'[c].pc = "idle" /\ ~upset' =>
                \A g \in MacNames \cap DOMAIN setter[c].was : eng'.sel[g] = Meant(setter[c], g)
<1> DEFINE t == setter[c].done[1]
<1>1. /\ Setting(c, "back") /\ setter[c].pc = "back"
      /\ \/ /\ setter[c].done = <<>> /\ setter' = [setter EXCEPT ![c] = NoSetter]
            /\ eng' = eng /\ upset' = upset
         \/ /\ setter[c].done # <<>> /\ setter' = [setter EXCEPT ![c].done = Tail(@)]
            /\ Select(t.g, t.from) /\ upset' = upset
         \/ /\ setter[c].done # <<>> /\ setter' = [setter EXCEPT ![c].done = Tail(@)]
            /\ eng' = eng /\ upset' = TRUE
  BY DEF TakeBack, Setting
<1>2. Running /\ Setters /\ Undisturbed /\ IsList(setter[c].done)
  BY DEF SetterInv, Setters, IsSetter
<1>3. ~upset => /\ eng.on = "gateway" /\ (\A o \in Clients \ {c} : setter[o].pc = "idle")
                /\ Undoes(setter[c], eng.sel)
  BY <1>1, <1>2 DEF Undisturbed, Setting
<1>4. CASE /\ setter[c].done = <<>> /\ setter' = [setter EXCEPT ![c] = NoSetter]
           /\ eng' = eng /\ upset' = upset
  <2>1. Setters' /\ setter'[c].pc = "idle" /\ \A o \in Clients \ {c} : setter'[o] = setter[o]
    BY <1>2, <1>4, IdleSetter
  <2>2. Undisturbed'
    BY <1>3, <1>4, <2>1 DEF Undisturbed, Setting
  <2>3. Running'
    BY <1>2, <1>4 DEF Running
  <2>4. \A g : Untouched(setter[c].done, g)
    BY <1>4 DEF Untouched
  <2>5. ~upset => \A g \in MacNames \cap DOMAIN setter[c].was : eng'.sel[g] = Meant(setter[c], g)
    BY <1>3, <1>4, <2>4 DEF Undoes
  <2> QED BY <1>4, <2>1, <2>2, <2>3, <2>5 DEF SetterInv
<1>5. CASE setter[c].done # <<>> /\ setter' = [setter EXCEPT ![c].done = Tail(@)]
  <2>1. /\ Setters' /\ setter'[c].pc = "back"
        /\ setter'[c].done = Tail(setter[c].done) /\ setter'[c].was = setter[c].was
        /\ setter'[c].lost = setter[c].lost
        /\ \A o \in Clients \ {c} : setter'[o] = setter[o]
    BY <1>1, <1>2, <1>5, TakenSetter
  <2>2. CASE eng' = eng /\ upset' = TRUE
    <3>1. Running' /\ Undisturbed'
      BY <1>2, <2>2 DEF Running, Undisturbed
    <3> QED BY <2>1, <2>2, <3>1 DEF SetterInv
  <2>3. CASE Select(t.g, t.from) /\ upset' = upset
    <3> DEFINE old == setter[c]
               new == setter'[c]
               d == Tail(old.done)
    <3>1. /\ 1 \in DOMAIN old.done /\ old.done[1] = t
          /\ \A i \in DOMAIN d : i \in Nat /\ i + 1 \in DOMAIN old.done /\ i + 1 # 1 /\ d[i] = old.done[i + 1]
          /\ \A i \in DOMAIN old.done : i = 1 \/ (i - 1 \in DOMAIN d /\ d[i - 1] = old.done[i])
      BY <1>2, <1>5, TailMoves DEF t
    <3> HIDE DEF t
    <3>2. /\ Running' /\ eng'.on = eng.on /\ DOMAIN eng'.sel = DOMAIN eng.sel
          /\ \A x \in DOMAIN eng.sel : eng'.sel[x] = IF x = t.g THEN t.from ELSE eng.sel[x]
      <4>1. IsRun(eng) /\ With(eng, eng', t.g, t.from)
        BY <1>2, <2>3 DEF Running, IsRun, Select, With
      <4>2. IsRun(eng') /\ OneSelected(eng, eng', t.g, t.from)
        BY <4>1, SelectIs
      <4> QED BY <4>2 DEF Running, IsRun, OneSelected
    <3>3. ASSUME ~upset PROVE Undoes(setter'[c], eng'.sel)
      <4>1. /\ DOMAIN old.was = DOMAIN eng.sel
            /\ Starts(old.done, old.was) /\ Unlike(old.done)
            /\ \A g \in DOMAIN old.lost : Untouched(old.done, g)
            /\ \A g \in MacNames \cap DOMAIN old.was : Untouched(old.done, g) => eng.sel[g] = Meant(old, g)
        BY <1>3, <3>3 DEF Undoes
      <4>2. new.done = d /\ new.was = old.was /\ new.pc = "back" /\ new.lost = old.lost
        BY <2>1
      <4> HIDE DEF old, new, d
      <4>3. Starts(d, old.was) /\ Unlike(d)
        BY <3>1, <4>1 DEF Starts, Unlike
      <4>4. \A g \in MacNames \cap DOMAIN old.was : Untouched(d, g) => eng'.sel[g] = Meant(old, g)
        <5> SUFFICES ASSUME NEW g \in MacNames \cap DOMAIN old.was, Untouched(d, g)
                     PROVE  eng'.sel[g] = Meant(old, g)
          OBVIOUS
        <5>1. CASE g = t.g
          <6>1. g \notin DOMAIN old.lost
            BY <3>1, <4>1, <5>1 DEF Untouched
          <6> QED BY <3>1, <3>2, <4>1, <5>1, <6>1 DEF Starts, Meant
        <5>2. CASE g # t.g
          <6>1. Untouched(old.done, g)
            BY <3>1, <5>2 DEF Untouched
          <6> QED BY <3>2, <4>1, <5>2, <6>1
        <5> QED BY <5>1, <5>2
      <4>5. Undoes(new, eng'.sel)
        <5>0. \A g \in DOMAIN old.lost : Untouched(d, g)
          BY <3>1, <4>1 DEF Untouched
        <5>1. /\ DOMAIN new.was = DOMAIN eng'.sel
              /\ Starts(new.done, new.was) /\ Unlike(new.done) /\ new.pc # "put"
              /\ \A g \in DOMAIN new.lost : Untouched(new.done, g)
              /\ \A g \in MacNames \cap DOMAIN new.was : Untouched(new.done, g) => eng'.sel[g] = Meant(new, g)
          BY <3>2, <4>1, <4>2, <4>3, <4>4, <5>0 DEF Meant
        <5> QED BY <5>1 DEF Undoes, new
      <4> QED BY <4>5 DEF new
    <3>4. Undisturbed'
      BY <1>3, <2>1, <2>3, <3>2, <3>3 DEF Undisturbed, Setting
    <3> QED BY <2>1, <2>3, <3>2, <3>4 DEF SetterInv
  <2> QED BY <1>1, <1>5, <2>2, <2>3
<1> QED BY <1>1, <1>4, <1>5

\* The actions that are of no request.
LEMMA ElsewhereSets ==
  ASSUME SetterInv, Prepare \/ Start \/ Stop \/ SelectForDevice \/ Update \/ Move
  PROVE  SetterInv' /\ setter' = setter
<1>1. Running /\ Setters /\ Undisturbed
  BY DEF SetterInv
<1>2. CASE Prepare \/ Start
  <2>1. PICK kind \in {"prepared", "gateway"} : Run(kind) /\ eng.on # "gateway"
    BY <1>2 DEF Prepare, Start
  <2>2. Running' /\ UNCHANGED <<setter, upset>>
    BY <2>1, EngineRuns
  <2>3. Setters' /\ Undisturbed'
    BY <1>1, <2>1, <2>2 DEF Setters, Undisturbed, Setting
  <2> QED BY <2>2, <2>3 DEF SetterInv
<1>3. CASE Stop
  <2>1. /\ eng' = Off /\ setter' = setter
        /\ upset' = (upset \/ \E c \in Clients : ~Setting(c, "idle"))
    BY <1>3 DEF Stop
  <2>2. Running'
    BY <2>1 DEF Running, IsMap, Off, EngFields, NoSelection
  <2>3. Setters' /\ Undisturbed'
    BY <1>1, <2>1 DEF Setters, Undisturbed, Setting
  <2> QED BY <2>1, <2>2, <2>3 DEF SetterInv
<1>4. CASE SelectForDevice
  <2>1. PICK g \in eng.groups : \E k \in DOMAIN g.of : Select(g.name, g.of[k])
    BY <1>4 DEF SelectForDevice
  <2>2. PICK k \in DOMAIN g.of : Select(g.name, g.of[k])
    BY <2>1
  <2> DEFINE n == g.name
             v == g.of[k]
  <2>3. Select(n, v) /\ setter' = setter /\ upset' = upset
    BY <1>4, <2>2 DEF SelectForDevice
  <2>4. n \notin MacNames
    BY <1>1 DEF Running, MacNames, TCP, UDP, GLOBAL, Group, Devices
  <2> HIDE DEF n, v
  <2>5. /\ Running' /\ eng'.on = eng.on /\ DOMAIN eng'.sel = DOMAIN eng.sel
        /\ \A x \in DOMAIN eng.sel : eng'.sel[x] = IF x = n THEN v ELSE eng.sel[x]
    <3>1. IsRun(eng) /\ With(eng, eng', n, v)
      BY <1>1, <2>3 DEF Running, IsRun, Select, With
    <3>2. IsRun(eng') /\ OneSelected(eng, eng', n, v)
      BY <3>1, SelectIs
    <3> QED BY <3>2 DEF Running, IsRun, OneSelected
  <2>6. \A c \in Clients : Undoes(setter[c], eng.sel) => Undoes(setter'[c], eng'.sel)
    BY <2>3, <2>4, <2>5 DEF Undoes, Meant
  <2>7. Setters' /\ Undisturbed'
    BY <1>1, <2>3, <2>5, <2>6 DEF Setters, Undisturbed, Setting
  <2> QED BY <2>3, <2>5, <2>7 DEF SetterInv
<1>5. CASE Update \/ Move
  <2>1. UNCHANGED <<eng, setter, upset>>
    BY <1>5 DEF Update, Move
  <2> QED BY <1>1, <2>1 DEF SetterInv, Running, Setters, Undisturbed, Setting
<1> QED BY <1>2, <1>3, <1>4, <1>5

\* No action breaks the invariant of the changes of mode.
LEMMA SetterStep ==
  ASSUME SetterInv, [RoutingNext]_routing
  PROVE  SetterInv'
<1>1. CASE Prepare \/ Start \/ Stop \/ SelectForDevice \/ Update \/ Move
  BY <1>1, ElsewhereSets
<1>2. ASSUME NEW c \in Clients, BeginMode(c) \/ PutNext(c) \/ Verify(c) \/ TakeBack(c)
      PROVE  SetterInv'
  BY <1>2, BeginSets, PutSets, VerifySets, TakeBackSets
<1>3. CASE UNCHANGED routing
  BY <1>3 DEF routing, SetterInv, Running, Setters, Undisturbed, Setting
<1> QED BY <1>1, <1>2, <1>3 DEF RoutingNext

\* A mode is wholly set, or taken back but for a change whose answer was lost:
\* what a request ends with.
Finishes(c) ==
    ~Setting(c, "idle") /\ setter'[c].pc = "idle" /\ ~upset' =>
        \/ Setting(c, "put") /\ ModeOf(eng') = setter[c].mode
        \/ \A g \in {TCP, UDP, GLOBAL} \cap DOMAIN setter[c].was : eng'.sel[g] = Meant(setter[c], g)

\* What holds when a caller gets its answer.
LEMMA SetterEnds ==
  ASSUME SetterInv, [RoutingNext]_routing, NEW c \in Clients
  PROVE  Finishes(c)
<1>1. CASE setter'[c] = setter[c]
  BY <1>1 DEF Finishes, Setting
<1>2. ASSUME NEW o \in Clients, BeginMode(o) \/ PutNext(o) PROVE Finishes(c)
  <2>1. CASE o = c
    BY <1>2, <2>1, BeginSets, PutSets DEF Finishes
  <2>2. CASE o # c /\ BeginMode(o)
    <3>1. setter'[c] = setter[c]
      BY <2>2 DEF BeginMode, SetterInv, Setters
    <3> QED BY <1>1, <3>1
  <2>3. CASE o # c /\ PutNext(o)
    BY <1>1, <2>3, PutSets
  <2> QED BY <1>2, <2>1, <2>2, <2>3
<1>3. ASSUME NEW o \in Clients, Verify(o) PROVE Finishes(c)
  <2>1. CASE o = c
    BY <1>3, <2>1, VerifySets DEF Finishes
  <2>2. CASE o # c
    BY <1>1, <1>3, <2>2, VerifySets
  <2> QED BY <2>1, <2>2
<1>4. ASSUME NEW o \in Clients, TakeBack(o) PROVE Finishes(c)
  <2>1. CASE o = c
    BY <1>4, <2>1, TakeBackSets DEF Finishes, MacNames
  <2>2. CASE o # c
    BY <1>1, <1>4, <2>2, TakeBackSets
  <2> QED BY <2>1, <2>2
<1>5. CASE Prepare \/ Start \/ Stop \/ SelectForDevice \/ Update \/ Move
  BY <1>1, <1>5, ElsewhereSets
<1>6. CASE UNCHANGED routing
  BY <1>1, <1>6 DEF routing
<1> QED BY <1>2, <1>3, <1>4, <1>5, <1>6 DEF RoutingNext

\* A change of the Mac's mode (SetLocalRouting) takes place or is taken back, but
\* for the one selection the engine took without being heard, as long as no
\* engine call fails while it is taken back and nothing else stops the engine or
\* changes the mode meanwhile; selections for devices may come between its steps.
THEOREM ModeWholeOrBack == RoutingSpec => AllOrNothing
<1>1. RoutingInit => SetterInv
  BY SettersInit DEF SetterInv
<1>2. SetterInv /\ [RoutingNext]_routing => SetterInv'
  BY SetterStep
<1>3. SetterInv /\ [RoutingNext]_routing => \A c \in Clients : Finishes(c)
  BY SetterEnds
<1>4. (\A c \in Clients : Finishes(c)) =>
        [\A c \in Clients :
          ~Setting(c, "idle") /\ setter'[c].pc = "idle" /\ ~upset' =>
              \/ Setting(c, "put") /\ ModeOf(eng') = setter[c].mode
              \/ \A g \in {TCP, UDP, GLOBAL} \cap DOMAIN setter[c].was : eng'.sel[g] = Meant(setter[c], g)]_routing
  BY DEF Finishes
<1> QED BY <1>1, <1>2, <1>3, <1>4, PTL DEF RoutingSpec, AllOrNothing

(***************************************************************************)
(* What a valid document has.                                              *)
(***************************************************************************)
IsDocument(set) == IsPolicy(set) /\ Valid(set)

\* The rules of a valid document have one identity each.
LEMMA DocumentRules ==
  ASSUME NEW set, IsDocument(set), NEW d \in Devices
  PROVE  /\ Rules(set, d) \in Seq(Range(Rules(set, d)))
         /\ \A r \in Range(Rules(set, d)) : IsRule(r) /\ RuleOK(r)
         /\ \A r, q \in Range(Rules(set, d)) : r.id = q.id => r = q
         /\ IsTargets(Defaults(set, d)) /\ Defaults(set, d) # <<>>
<1> DEFINE p == set[d].profile
           s == p.template.rules
           t == p.rules
           u == Rules(set, d)
           S == Range(s) \cup Range(t)
<1>1. /\ IsTargets(p.defaults) /\ t \in Seq(Range(t)) /\ \A r \in Range(t) : IsRule(r)
      /\ IsTargets(p.template.defaults) /\ s \in Seq(Range(s)) /\ \A r \in Range(s) : IsRule(r)
  BY DEF IsDocument, IsPolicy, IsProfile
<1>2. u = s \o t /\ Defaults(set, d) = IF p.defaults # <<>> THEN p.defaults ELSE p.template.defaults
  BY DEF Rules, Defaults, Resolved
<1>3. /\ Defaults(set, d) # <<>> /\ NoDuplicates([i \in DOMAIN u |-> u[i].id])
      /\ \A i \in DOMAIN u : RuleOK(u[i])
  BY DEF IsDocument, Valid, Rules, Defaults
<1> HIDE DEF p, s, t, u
<1>4. s \in Seq(S) /\ t \in Seq(S)
  BY <1>1
<1>5. u \in Seq(S) /\ \A y : y \in Range(u) <=> y \in Range(s) \/ y \in Range(t)
  BY <1>2, <1>4, RangeJoined
<1>6. Range(u) = S
  BY <1>5
<1>7. \A r \in Range(u) : IsRule(r) /\ RuleOK(r)
  BY <1>1, <1>3, <1>6 DEF Range
<1>8. \A r, q \in Range(u) : r.id = q.id => r = q
  BY <1>3 DEF Range, NoDuplicates
<1> QED BY <1>1, <1>2, <1>3, <1>5, <1>6, <1>7, <1>8 DEF u

\* The candidates a document gives to a group.
Named(set, n) ==
    IF n.slot = "default" THEN Defaults(set, n.dev)
    ELSE (CHOOSE r \in Range(Rules(set, n.dev)) : r.id = n.slot).policies

LEMMA NamedRule ==
  ASSUME NEW set, IsDocument(set), NEW d \in Devices, NEW r \in Range(Rules(set, d))
  PROVE  r.id # "default" /\ Named(set, Group(d, r.id)) = r.policies
<1> DEFINE R == Range(Rules(set, d))
           q == CHOOSE x \in R : x.id = r.id
<1>1. q \in R /\ q.id = r.id
  OBVIOUS
<1>2. q = r
  <2> HIDE DEF q
  <2> QED BY <1>1, DocumentRules
<1>3. r.id # "default"
  BY DocumentRules DEF RuleOK
<1>4. Group(d, r.id).slot = r.id /\ Group(d, r.id).dev = d
  BY DEF Group
<1> HIDE DEF q
<1>5. Named(set, Group(d, r.id)) = q.policies
  BY <1>3, <1>4 DEF Named, q
<1> QED BY <1>2, <1>3, <1>5

LEMMA NamedDefault ==
  ASSUME NEW set, NEW d
  PROVE  Named(set, Group(d, "default")) = Defaults(set, d)
BY DEF Named, Group

\* A group is its name, and the candidates left of those its name gives it.
LEMMA GroupIsNamed ==
  ASSUME NEW set, IsDocument(set), NEW w, NEW res, NEW g \in Groups(CompilePolicySet(set, w, res))
  PROVE  /\ g = [name |-> g.name, of |-> Candidates(res, g.name, Named(set, g.name))]
         /\ IsTargets(Named(set, g.name)) /\ Named(set, g.name) # <<>> /\ g.of # <<>>
<1> DEFINE d == g.name.dev
<1>1. d \in Devices /\ g \in Compiled(set, res, d).groups
  BY GroupsOfDevices
<1>2. \/ \E r \in Range(Rules(set, d)) :
            /\ RuleKept(res, d, r) /\ r.policies # <<>>
            /\ g = [name |-> Group(d, r.id), of |-> Candidates(res, Group(d, r.id), r.policies)]
      \/ /\ Mode(set, res, d) # "inherit_global"
         /\ g = [name |-> Group(d, "default"), of |-> Base(set, res, d)]
  BY <1>1, CompiledGroups
<1> HIDE DEF d
<1>0. \A n, o : [name |-> n, of |-> o].name = n /\ [name |-> n, of |-> o].of = o
  OBVIOUS
<1>3. ASSUME NEW r \in Range(Rules(set, d)), RuleKept(res, d, r), r.policies # <<>>,
             g = [name |-> Group(d, r.id), of |-> Candidates(res, Group(d, r.id), r.policies)]
      PROVE  /\ g = [name |-> g.name, of |-> Candidates(res, g.name, Named(set, g.name))]
             /\ IsTargets(Named(set, g.name)) /\ Named(set, g.name) # <<>> /\ g.of # <<>>
  <2>1. g.name = Group(d, r.id) /\ g.of = Candidates(res, Group(d, r.id), r.policies)
    BY <1>0, <1>3, Zenon
  <2>2. Named(set, Group(d, r.id)) = r.policies
    BY <1>1, NamedRule
  <2>3. g = [name |-> g.name, of |-> Candidates(res, g.name, Named(set, g.name))]
    BY <1>3, <2>1, <2>2, Zenon
  <2>4. IsTargets(r.policies)
    BY <1>1, DocumentRules DEF IsRule
  <2>5. Candidates(res, Group(d, r.id), r.policies) # <<>>
    BY <1>3 DEF RuleKept
  <2> QED BY <1>3, <2>1, <2>2, <2>3, <2>4, <2>5, Zenon
<1>4. ASSUME Mode(set, res, d) # "inherit_global",
             g = [name |-> Group(d, "default"), of |-> Base(set, res, d)]
      PROVE  /\ g = [name |-> g.name, of |-> Candidates(res, g.name, Named(set, g.name))]
             /\ IsTargets(Named(set, g.name)) /\ Named(set, g.name) # <<>> /\ g.of # <<>>
  <2>1. g.name = Group(d, "default") /\ g.of = Base(set, res, d)
    BY <1>0, <1>4, Zenon
  <2>2. Named(set, Group(d, "default")) = Defaults(set, d)
    BY NamedDefault
  <2>3. Base(set, res, d) = Candidates(res, g.name, Named(set, g.name))
    BY <2>1, <2>2, Zenon DEF Base
  <2>4. IsTargets(Defaults(set, d)) /\ Defaults(set, d) # <<>>
    BY <1>1, DocumentRules
  <2>5. Base(set, res, d) # <<>>
    BY <1>4 DEF Mode
  <2>6. g = [name |-> g.name, of |-> Candidates(res, g.name, Named(set, g.name))]
    BY <1>4, <2>1, <2>3, Zenon
  <2> QED BY <2>1, <2>2, <2>4, <2>5, <2>6, Zenon
<1> QED BY <1>2, <1>3, <1>4, Zenon

(***************************************************************************)
(* resolveSelector: what is left of the candidates of a group.             *)
(***************************************************************************)
LEMMA OnlyIs ==
  ASSUME NEW s, IsTargets(s), NEW T
  PROVE  /\ Only(s, T) \in Seq(Range(s))
         /\ \A y : y \in Range(Only(s, T)) <=> y \in Range(s) /\ y \in T
<1> DEFINE one(x) == IF x \in T THEN <<x>> ELSE <<>>
           ss == [i \in DOMAIN s |-> one(s[i])]
<1>1. s \in Seq(Range(s)) /\ Len(s) \in Nat /\ DOMAIN s = 1..Len(s)
  BY DEF IsTargets
<1>2. \A x \in Range(s) : one(x) \in Seq(Range(s))
  OBVIOUS
<1>3. ss \in Seq(Seq(Range(s)))
  <2>1. DOMAIN ss = 1..Len(s) /\ \A i \in 1..Len(s) : ss[i] \in Seq(Range(s))
    BY <1>1, <1>2 DEF Range
  <2>2. IsMap(ss)
    BY DEF IsMap
  <2> HIDE DEF ss
  <2> QED BY <1>1, <2>1, <2>2 DEF IsMap
<1>4. Only(s, T) = FlattenSeq(ss)
  BY DEF Only, Each
<1>5. \A x, y : y \in Range(one(x)) <=> x = y /\ y \in T
  BY DEF Range
<1> HIDE DEF one
<1>6. ASSUME NEW y PROVE (\E i \in DOMAIN ss : y \in Range(ss[i])) <=> y \in Range(s) /\ y \in T
  <2>1. DOMAIN ss = DOMAIN s /\ \A i \in DOMAIN s : ss[i] = one(s[i])
    OBVIOUS
  <2> HIDE DEF ss
  <2> QED BY <1>5, <2>1 DEF Range
<1> HIDE DEF ss
<1> QED BY <1>3, <1>4, <1>6, FlattenAll

Wish(res, g, all) == LET had == Chosen(res, g) IN IF Contains(all, had) THEN had ELSE all[1]

\* The candidates that resolveSelector keeps are those of the document that there are.
LEMMA CandidatesAre ==
  ASSUME NEW res, NEW g, NEW all, IsTargets(all), all # <<>>
  PROVE  LET of == Candidates(res, g, all) IN
         /\ of \in Seq(Range(all)) /\ Range(of) \subseteq Range(all)
         /\ \A t \in Range(of) : Available(res, t)
         /\ (\A t \in Range(all) : Available(res, t)) => of = all
         /\ of # <<>> => of[1] \in Range(of)
         /\ of # <<>> => \/ of = all
                         \/ /\ of[1] = Wish(res, g, all)
                            /\ ~(Chosen(res, g) = Empty /\ res.unknown)
<1> DEFINE wanted == Wish(res, g, all)
           T == {t \in Range(all) : Available(res, t) /\ t # wanted}
           rest == Only(all, T)
           of == Candidates(res, g, all)
<1>1. of = IF \A t \in Range(all) : Available(res, t) THEN all
           ELSE IF (Chosen(res, g) = Empty /\ res.unknown) \/ ~Available(res, wanted) THEN <<>>
           ELSE <<wanted>> \o rest
  BY DEF Candidates, Wish
<1>2. all \in Seq(Range(all)) /\ Len(all) \in Nat /\ DOMAIN all = 1..Len(all) /\ Len(all) # 0
  BY DEF IsTargets
<1>3. wanted \in Range(all)
  BY <1>2 DEF Wish, Contains, Range
<1>4. rest \in Seq(Range(all)) /\ \A y : y \in Range(rest) => y \in Range(all) /\ Available(res, y)
  BY OnlyIs
<1> HIDE DEF wanted, rest
<1>5. /\ <<wanted>> \o rest \in Seq(Range(all)) /\ (<<wanted>> \o rest)[1] = wanted
      /\ \A y : y \in Range(<<wanted>> \o rest) <=> y = wanted \/ y \in Range(rest)
  <2>1. <<wanted>> \in Seq(Range(all)) /\ \A y : y \in Range(<<wanted>>) <=> y = wanted
    BY <1>3 DEF Range
  <2>2. \A y : y \in Range(<<wanted>> \o rest) <=> y \in Range(<<wanted>>) \/ y \in Range(rest)
    BY <1>4, <2>1, RangeJoined
  <2>3. <<wanted>> \o rest \in Seq(Range(all)) /\ (<<wanted>> \o rest)[1] = wanted
    BY <1>3, <1>4
  <2> QED BY <2>1, <2>2, <2>3
<1> HIDE DEF of
<1>6. CASE \A t \in Range(all) : Available(res, t)
  <2>1. of = all
    BY <1>1, <1>6
  <2>2. all[1] \in Range(all)
    BY <1>2 DEF Range
  <2> QED BY <1>2, <1>6, <2>1, <2>2 DEF of
<1>7. CASE ~(\A t \in Range(all) : Available(res, t)) /\ of = <<>>
  <2>1. Range(<<>>) = {} /\ <<>> \in Seq(Range(all))
    BY DEF Range
  <2> QED BY <1>7, <2>1 DEF of
<1>8. CASE ~(\A t \in Range(all) : Available(res, t)) /\ of # <<>>
  <2>1. of = <<wanted>> \o rest /\ ~(Chosen(res, g) = Empty /\ res.unknown) /\ Available(res, wanted)
    BY <1>1, <1>8
  <2>2. of \in Seq(Range(all)) /\ of[1] = wanted /\ \A y : y \in Range(of) <=> y = wanted \/ y \in Range(rest)
    BY <1>5, <2>1
  <2>3. of[1] \in Range(of) /\ Range(of) \subseteq Range(all) /\ \A t \in Range(of) : Available(res, t)
    BY <1>3, <1>4, <2>1, <2>2
  <2> QED BY <1>8, <2>1, <2>2, <2>3 DEF of, wanted
<1> QED BY <1>6, <1>7, <1>8

\* What a group uses that remembers f.
Picked(f, n) == IF n \in DOMAIN f THEN f[n] ELSE Empty
Favorite(f, n, all) == IF n \in DOMAIN f /\ Contains(all, f[n]) THEN f[n] ELSE all[1]

LEMMA ContainsIs ==
  ASSUME NEW all, IsTargets(all)
  PROVE  \A t : Contains(all, t) <=> t \in Range(all)
<1>1. all \in Seq(Range(all)) /\ DOMAIN all = 1..Len(all)
  BY DEF IsTargets
<1> QED BY <1>1 DEF Contains, Range

\* A group starts with what it kept, if that is among its candidates, or with the first.
LEMMA FavoriteIs ==
  ASSUME NEW all, IsTargets(all), all # <<>>, NEW n, NEW f
  PROVE  /\ Favorite(f, n, all) \in Range(all)
         /\ Favorite(f, n, all) = IF Picked(f, n) \in Range(all) THEN Picked(f, n) ELSE all[1]
<1>1. all \in Seq(Range(all)) /\ Len(all) \in Nat /\ DOMAIN all = 1..Len(all) /\ Len(all) # 0 /\ Empty \notin Range(all)
  BY DEF IsTargets
<1>2. all[1] \in Range(all)
  BY <1>1 DEF Range
<1>3. \A t : Contains(all, t) <=> t \in Range(all)
  BY ContainsIs
<1> QED BY <1>1, <1>2, <1>3 DEF Favorite, Picked

LEMMA WishIs ==
  ASSUME NEW all, IsTargets(all), all # <<>>, NEW n, NEW res
  PROVE  Wish(res, n, all) = Favorite(res.sel, n, all)
<1>1. \A t : Contains(all, t) <=> t \in Range(all)
  BY ContainsIs
<1>2. Chosen(res, n) = Picked(res.sel, n)
  BY DEF Chosen, Picked
<1> QED BY <1>1, <1>2, FavoriteIs DEF Wish

(***************************************************************************)
(* A group of a compiled document is one the document has.                 *)
(***************************************************************************)
LEMMA AllAvailable ==
  \A t : Available(Everything, t)
BY DEF Available, Everything

LEMMA GroupOfDocument ==
  ASSUME NEW set, IsDocument(set), NEW w, NEW res, NEW g \in Groups(CompilePolicySet(set, w, res))
  PROVE  \E h \in Groups(CompilePolicySet(set, w, Everything)) :
             h.name = g.name /\ h.of = Named(set, g.name)
<1> DEFINE d == g.name.dev
           all == Named(set, g.name)
<1>1. d \in Devices /\ Active(set, w, d) /\ g \in Compiled(set, res, d).groups
  BY GroupsOfDevices
<1>2. /\ Open(set, d)
      /\ \/ \E r \in Range(Rules(set, d)) :
               /\ RuleKept(res, d, r) /\ r.policies # <<>>
               /\ g = [name |-> Group(d, r.id), of |-> Candidates(res, Group(d, r.id), r.policies)]
         \/ /\ Mode(set, res, d) # "inherit_global"
            /\ g = [name |-> Group(d, "default"), of |-> Base(set, res, d)]
  BY <1>1, CompiledGroups
<1> HIDE DEF d
<1>0. \A n, o : [name |-> n, of |-> o].name = n /\ [name |-> n, of |-> o].of = o
  OBVIOUS
<1>3. ASSUME NEW n, NEW o, IsTargets(o), o # <<>> PROVE Candidates(Everything, n, o) = o
  BY <1>3, AllAvailable, CandidatesAre
<1>4. ASSUME NEW r \in Range(Rules(set, d)), r.policies # <<>>, g.name = Group(d, r.id)
      PROVE  \E h \in Compiled(set, Everything, d).groups : h.name = g.name /\ h.of = all
  <2> DEFINE n == Group(d, r.id)
             h == [name |-> n, of |-> Candidates(Everything, n, r.policies)]
  <2>1. IsTargets(r.policies) /\ Named(set, n) = r.policies
    BY <1>1, DocumentRules, NamedRule DEF IsRule
  <2>2. Candidates(Everything, n, r.policies) = r.policies
    BY <1>3, <1>4, <2>1
  <2>3. RuleKept(Everything, d, r)
    BY <1>4, <2>2 DEF RuleKept
  <2>4. h \in Compiled(set, Everything, d).groups
    BY <1>2, <1>4, <2>3, CompiledGroups
  <2>5. h.name = g.name /\ h.of = all
    BY <1>0, <1>4, <2>1, <2>2, Zenon
  <2> HIDE DEF h, all
  <2> QED BY <2>4, <2>5
<1>5. ASSUME Mode(set, res, d) # "inherit_global", g.name = Group(d, "default")
      PROVE  \E h \in Compiled(set, Everything, d).groups : h.name = g.name /\ h.of = all
  <2> DEFINE n == Group(d, "default")
             h == [name |-> n, of |-> Base(set, Everything, d)]
  <2>1. IsTargets(Defaults(set, d)) /\ Defaults(set, d) # <<>> /\ Named(set, n) = Defaults(set, d)
    BY <1>1, DocumentRules, NamedDefault
  <2>2. Base(set, Everything, d) = Defaults(set, d)
    BY <1>3, <2>1 DEF Base
  <2>3. Mode(set, Everything, d) # "inherit_global"
    BY <1>5, <2>1, <2>2 DEF Mode
  <2>4. h \in Compiled(set, Everything, d).groups
    BY <1>2, <2>3, CompiledGroups
  <2>5. h.name = g.name /\ h.of = all
    BY <1>0, <1>5, <2>1, <2>2, Zenon
  <2> HIDE DEF h, all
  <2> QED BY <2>4, <2>5
<1>6. \E h \in Compiled(set, Everything, d).groups : h.name = g.name /\ h.of = all
  <2>1. CASE \E r \in Range(Rules(set, d)) :
               /\ RuleKept(res, d, r) /\ r.policies # <<>>
               /\ g = [name |-> Group(d, r.id), of |-> Candidates(res, Group(d, r.id), r.policies)]
    <3>1. PICK r \in Range(Rules(set, d)) :
               /\ RuleKept(res, d, r) /\ r.policies # <<>>
               /\ g = [name |-> Group(d, r.id), of |-> Candidates(res, Group(d, r.id), r.policies)]
      BY <2>1
    <3>2. g.name = Group(d, r.id)
      BY <1>0, <3>1, Zenon
    <3> HIDE DEF all
    <3> QED BY <1>4, <3>1, <3>2, Zenon
  <2>2. CASE /\ Mode(set, res, d) # "inherit_global"
             /\ g = [name |-> Group(d, "default"), of |-> Base(set, res, d)]
    <3>1. g.name = Group(d, "default")
      BY <1>0, <2>2, Zenon
    <3> HIDE DEF all
    <3> QED BY <1>5, <2>2, <3>1, Zenon
  <2> QED BY <1>2, <2>1, <2>2, Zenon
<1>7. PICK h \in Compiled(set, Everything, d).groups : h.name = g.name /\ h.of = all
  BY <1>6
<1>8. h \in Groups(CompilePolicySet(set, w, Everything))
  BY <1>1, <1>7, GroupsAre
<1> HIDE DEF all
<1>9. \E x \in Groups(CompilePolicySet(set, w, Everything)) : x.name = g.name /\ x.of = all
  BY <1>7, <1>8
<1> QED BY <1>9 DEF all

\* What offers every candidate keeps every group.
Offered(set, w, res) ==
    \A h \in Groups(CompilePolicySet(set, w, Everything)) : \A t \in Range(h.of) : Available(res, t)

LEMMA OfferedAreWhole ==
  ASSUME NEW set, IsDocument(set), NEW w, NEW res, Offered(set, w, res),
         NEW g \in Groups(CompilePolicySet(set, w, res))
  PROVE  g.of = Named(set, g.name)
<1>1. PICK h \in Groups(CompilePolicySet(set, w, Everything)) :
             h.name = g.name /\ h.of = Named(set, g.name)
  BY GroupOfDocument
<1>2. \A t \in Range(Named(set, g.name)) : Available(res, t)
  BY <1>1 DEF Offered
<1>3. /\ g = [name |-> g.name, of |-> Candidates(res, g.name, Named(set, g.name))]
      /\ IsTargets(Named(set, g.name)) /\ Named(set, g.name) # <<>>
  BY GroupIsNamed
<1>4. Candidates(res, g.name, Named(set, g.name)) = Named(set, g.name)
  BY <1>2, <1>3, CandidatesAre
<1> QED BY <1>3, <1>4

LEMMA OfferedAreThere ==
  ASSUME NEW set, IsDocument(set), NEW w, NEW res, Offered(set, w, res),
         NEW h \in Groups(CompilePolicySet(set, w, Everything))
  PROVE  \E g \in Groups(CompilePolicySet(set, w, res)) : g.name = h.name
<1> DEFINE d == h.name.dev
<1>1. d \in Devices /\ Active(set, w, d) /\ h \in Compiled(set, Everything, d).groups
  BY GroupsOfDevices
<1>2. /\ Open(set, d)
      /\ \/ \E r \in Range(Rules(set, d)) :
               /\ RuleKept(Everything, d, r) /\ r.policies # <<>>
               /\ h = [name |-> Group(d, r.id), of |-> Candidates(Everything, Group(d, r.id), r.policies)]
         \/ /\ Mode(set, Everything, d) # "inherit_global"
            /\ h = [name |-> Group(d, "default"), of |-> Base(set, Everything, d)]
  BY <1>1, CompiledGroups
<1>0. \A n, o : [name |-> n, of |-> o].name = n /\ [name |-> n, of |-> o].of = o
  OBVIOUS
<1>3. /\ h = [name |-> h.name, of |-> Candidates(Everything, h.name, Named(set, h.name))]
      /\ IsTargets(Named(set, h.name)) /\ Named(set, h.name) # <<>>
  BY GroupIsNamed
<1>4. h.of = Named(set, h.name) /\ \A t \in Range(Named(set, h.name)) : Available(res, t)
  <2>1. Candidates(Everything, h.name, Named(set, h.name)) = Named(set, h.name)
    BY <1>3, AllAvailable, CandidatesAre
  <2>2. h.of = Named(set, h.name)
    BY <1>3, <2>1
  <2> QED BY <2>2 DEF Offered
<1>5. Candidates(res, h.name, Named(set, h.name)) = Named(set, h.name)
  BY <1>3, <1>4, CandidatesAre
<1> HIDE DEF d
<1>6. ASSUME NEW r \in Range(Rules(set, d)), r.policies # <<>>, h.name = Group(d, r.id)
      PROVE  \E g \in Compiled(set, res, d).groups : g.name = h.name
  <2> DEFINE n == Group(d, r.id)
             g == [name |-> n, of |-> Candidates(res, n, r.policies)]
  <2>1. Named(set, n) = r.policies
    BY <1>1, NamedRule
  <2>2. RuleKept(res, d, r)
    BY <1>3, <1>5, <1>6, <2>1 DEF RuleKept
  <2>3. g \in Compiled(set, res, d).groups
    BY <1>2, <1>6, <2>2, CompiledGroups
  <2>4. g.name = h.name
    BY <1>0, <1>6, Zenon
  <2> HIDE DEF g
  <2> QED BY <2>3, <2>4
<1>7. ASSUME Mode(set, Everything, d) # "inherit_global", h.name = Group(d, "default")
      PROVE  \E g \in Compiled(set, res, d).groups : g.name = h.name
  <2> DEFINE n == Group(d, "default")
             g == [name |-> n, of |-> Base(set, res, d)]
  <2>1. Named(set, n) = Defaults(set, d)
    BY NamedDefault
  <2>2. Mode(set, res, d) # "inherit_global"
    BY <1>3, <1>5, <1>7, <2>1 DEF Mode, Base
  <2>3. g \in Compiled(set, res, d).groups
    BY <1>2, <2>2, CompiledGroups
  <2>4. g.name = h.name
    BY <1>0, <1>7, Zenon
  <2> HIDE DEF g
  <2> QED BY <2>3, <2>4
<1>8. \E g \in Compiled(set, res, d).groups : g.name = h.name
  <2>1. CASE \E r \in Range(Rules(set, d)) :
               /\ RuleKept(Everything, d, r) /\ r.policies # <<>>
               /\ h = [name |-> Group(d, r.id), of |-> Candidates(Everything, Group(d, r.id), r.policies)]
    <3>1. PICK r \in Range(Rules(set, d)) :
               /\ RuleKept(Everything, d, r) /\ r.policies # <<>>
               /\ h = [name |-> Group(d, r.id), of |-> Candidates(Everything, Group(d, r.id), r.policies)]
      BY <2>1
    <3>2. h.name = Group(d, r.id)
      BY <1>0, <3>1, Zenon
    <3> QED BY <1>6, <3>1, <3>2, Zenon
  <2>2. CASE /\ Mode(set, Everything, d) # "inherit_global"
             /\ h = [name |-> Group(d, "default"), of |-> Base(set, Everything, d)]
    <3>1. h.name = Group(d, "default")
      BY <1>0, <2>2, Zenon
    <3> QED BY <1>7, <2>2, <3>1, Zenon
  <2> QED BY <1>2, <2>1, <2>2, Zenon
<1>9. PICK g \in Compiled(set, res, d).groups : g.name = h.name
  BY <1>8
<1>10. g \in Groups(CompilePolicySet(set, w, res))
  BY <1>1, <1>9, GroupsAre
<1> QED BY <1>9, <1>10

LEMMA NotMissing ==
  ASSUME NEW set, NEW w, NEW found, ~Missing(set, w)
  PROVE  Offered(set, w, Resolution(set, w, found))
BY DEF Missing, Offered, Resolution, Available

(***************************************************************************)
(* The engine that a run makes.                                            *)
(***************************************************************************)
LEMMA MacGroupNames ==
  ASSUME NEW w, NEW g \in MacGroups(w)
  PROVE  g.name \in MacNames /\ g.name.dev = "mac" /\ g.name.dev \notin Devices
<1>1. g.name \in MacNames
  BY DEF MacGroups, MacNames
<1> QED BY <1>1 DEF MacNames, TCP, UDP, GLOBAL, Group, Devices

\* What an engine is made of.
LEMMA EngineIs ==
  ASSUME NEW kind, NEW found, NEW e, e = Engine(kind, found), IsDocument(doc)
  PROVE  LET res == Resolution(doc, world, found)
             b   == CompilePolicySet(doc, world, res)
         IN /\ e.on = kind /\ e.rules = Rendered(world, b) /\ e.groups = Groups(b) /\ e.kept = res.sel
            /\ e.world = world /\ e.reserved = Reservations(b) /\ e.doc = doc /\ e.ok = Renders(world, b)
            /\ DOMAIN e.sel = {g.name : g \in Groups(b) \cup MacGroups(world)}
            /\ \A g \in Groups(b) : e.sel[g.name] = Selected(g)
            /\ \A n \in DOMAIN e.sel : \E g \in Groups(b) \cup MacGroups(world) :
                   g.name = n /\ e.sel[n] = Selected(g)
<1> DEFINE res == Resolution(doc, world, found)
           b == CompilePolicySet(doc, world, res)
           all == Groups(b) \cup MacGroups(world)
           P(n, g) == g.name = n
           s == [n \in {g.name : g \in all} |-> Selected(CHOOSE g \in all : P(n, g))]
<1>1. e = [on |-> kind, rules |-> Rendered(world, b), groups |-> Groups(b), sel |-> s,
           kept |-> res.sel, world |-> world, reserved |-> Reservations(b), doc |-> doc,
           ok |-> Renders(world, b)]
  BY DEF Engine
<1> HIDE DEF res
<1>2. ASSUME NEW g \in Groups(b), NEW h \in Groups(b), g.name = h.name PROVE g = h
  <2>1. g = [name |-> g.name, of |-> Candidates(res, g.name, Named(doc, g.name))]
    BY GroupIsNamed
  <2>2. h = [name |-> h.name, of |-> Candidates(res, h.name, Named(doc, h.name))]
    BY GroupIsNamed
  <2> HIDE DEF b
  <2>3. h = [name |-> g.name, of |-> Candidates(res, g.name, Named(doc, g.name))]
    BY <1>2, <2>2, Zenon
  <2> QED BY <2>1, <2>3, Zenon
<1>3. \A g \in Groups(b) : g.name.dev \in Devices
  BY GroupsOfDevices
<1>4. \A g \in MacGroups(world) : g.name.dev \notin Devices
  BY MacGroupNames
<1> HIDE DEF b
<1>5. /\ e.on = kind /\ e.rules = Rendered(world, b) /\ e.groups = Groups(b) /\ e.kept = res.sel
      /\ e.world = world /\ e.reserved = Reservations(b) /\ e.doc = doc /\ e.ok = Renders(world, b)
      /\ e.sel = s
  <2> HIDE DEF s
  <2> QED BY <1>1
<1> HIDE DEF all, P
<1>6. ASSUME NEW g \in all PROVE (CHOOSE x \in all : P(g.name, x)) \in all /\ P(g.name, CHOOSE x \in all : P(g.name, x))
  <2>1. P(g.name, g)
    BY DEF P
  <2> QED BY <2>1
<1>7. ASSUME NEW g \in Groups(b) PROVE s[g.name] = Selected(g)
  <2> DEFINE x == CHOOSE x \in all : P(g.name, x)
  <2>1. g \in all
    BY DEF all
  <2>2. x \in all /\ P(g.name, x)
    BY <1>6, <2>1
  <2>3. s[g.name] = Selected(x)
    BY <2>1
  <2> HIDE DEF x
  <2>4. x.name = g.name /\ (x \in Groups(b) \/ x \in MacGroups(world))
    BY <2>2 DEF P, all
  <2>5. x = g
    BY <1>2, <1>3, <1>4, <2>4
  <2> QED BY <2>3, <2>5
<1>8. ASSUME NEW n \in DOMAIN s PROVE \E g \in all : g.name = n /\ s[n] = Selected(g)
  <2>1. PICK g \in all : g.name = n
    BY <1>8
  <2> DEFINE x == CHOOSE x \in all : P(g.name, x)
  <2>2. x \in all /\ P(g.name, x)
    BY <1>6
  <2>3. s[n] = Selected(x)
    BY <2>1
  <2> HIDE DEF x, s
  <2> QED BY <2>1, <2>2, <2>3 DEF P
<1>9. DOMAIN s = {g.name : g \in all}
  OBVIOUS
<1> HIDE DEF s
<1> QED BY <1>5, <1>7, <1>8, <1>9 DEF all, b, res

(***************************************************************************)
(* What the user selected.                                                 *)
(***************************************************************************)
LEMMA OverIs ==
  \A f, g, x : Picked(Over(f, g), x) = IF x \in DOMAIN g THEN g[x] ELSE Picked(f, x)
BY DEF Over, Picked

Agrees == choice = OfDevices(cache)

\* What a run goes by, for a group that lost a candidate.
Knows(found, n) ==
    \/ found.unknown /\ Picked(found.kept, n) = Empty
    \/ Favorite(found.kept, n, Named(doc, n)) = Favorite(choice, n, Named(doc, n))

\* An engine that is started has in each group what the user selected for it.
LEMMA RunKeepsChoice ==
  ASSUME IsDocument(doc), Agrees, NEW found,
         NEW g \in Groups(CompilePolicySet(doc, world, Resolution(doc, world, found))),
         Missing(doc, world) => Knows(found, g.name)
  PROVE  Selected(g) = Favorite(choice, g.name, Named(doc, g.name))
<1> DEFINE n == g.name
           all == Named(doc, n)
           res == Resolution(doc, world, found)
<1>1. /\ g.name.dev \in Devices
      /\ IsTargets(all) /\ all # <<>> /\ g.of # <<>>
      /\ g = [name |-> n, of |-> Candidates(res, n, all)]
  BY GroupIsNamed, GroupsOfDevices
<1>2. g.of = Candidates(res, n, all)
  BY <1>1
<1>3. Picked(cache, n) = Picked(choice, n) /\ (n \in DOMAIN cache <=> n \in DOMAIN choice)
      /\ (n \in DOMAIN cache => cache[n] = choice[n])
  BY <1>1 DEF Agrees, OfDevices, Picked
<1>4. \A t : Contains(all, t) <=> t \in Range(all)
  BY <1>1, ContainsIs
<1>5. CASE g.of = all
  BY <1>3, <1>5 DEF Selected, Favorite
<1>6. CASE g.of # all
  <2>1. Missing(doc, world)
    BY <1>6, NotMissing, OfferedAreWhole
  <2>2. res.sel = found.kept /\ (res.unknown <=> found.unknown)
    BY <2>1 DEF Resolution
  <2> HIDE DEF res
  <2>3. /\ g.of \in Seq(Range(all)) /\ Range(g.of) \subseteq Range(all) /\ g.of[1] \in Range(g.of)
        /\ g.of[1] = Wish(res, n, all) /\ ~(Chosen(res, n) = Empty /\ res.unknown)
    BY <1>1, <1>2, <1>6, CandidatesAre
  <2>4. g.of[1] = Favorite(choice, n, all)
    <3>1. Chosen(res, n) = Picked(found.kept, n)
      BY <2>2 DEF Chosen, Picked
    <3>2. Favorite(found.kept, n, all) = Favorite(choice, n, all)
      BY <2>1, <2>2, <2>3, <3>1 DEF Knows
    <3> QED BY <1>1, <2>2, <2>3, <3>2, WishIs
  <2>5. \A t : Contains(g.of, t) => t \in Range(g.of)
    <3>1. DOMAIN g.of = 1..Len(g.of)
      BY <2>3
    <3> QED BY <3>1 DEF Contains, Range
  <2>6. \A t : t \in Range(g.of) => Contains(g.of, t)
    <3>1. DOMAIN g.of = 1..Len(g.of)
      BY <2>3
    <3> QED BY <3>1 DEF Contains, Range
  <2> HIDE DEF all
  <2>7. CASE n \in DOMAIN choice /\ Contains(all, choice[n])
    BY <1>3, <2>3, <2>4, <2>6, <2>7 DEF Selected, Favorite, all
  <2>8. CASE ~(n \in DOMAIN choice /\ Contains(all, choice[n]))
    <3>1. ~(n \in DOMAIN cache /\ Contains(g.of, cache[n]))
      BY <1>3, <1>4, <2>3, <2>5, <2>8 DEF all
    <3> QED BY <2>4, <3>1 DEF Selected, all
  <2> QED BY <2>7, <2>8 DEF all
<1> QED BY <1>5, <1>6

\* The choices a run looks up are the user's, or known to be unknown.
Kept == \A g \in eng.groups : eng.sel[g.name] = Favorite(choice, g.name, Named(doc, g.name))

Remembers ==
    eng.on = "prepared" /\ ~blind =>
        \A h \in Groups(CompilePolicySet(doc, world, Everything)) :
            h.name \in DOMAIN eng.sel \/ Picked(eng.kept, h.name) = Picked(choice, h.name)

Holds == /\ eng.on = "off" => eng = Off
         /\ eng.on # "off" => eng.doc = doc
         /\ \A g \in eng.groups : /\ g.name \in DOMAIN eng.sel /\ IsTargets(Named(doc, g.name))
                                  /\ Named(doc, g.name) # <<>> /\ g.of \in Seq(Range(Named(doc, g.name)))
         /\ \A n \in DOMAIN eng.sel : n.dev \in Devices => \E g \in eng.groups : g.name = n

\* The inductive invariant of the selections: the running groups are the groups
\* of the document, the cache holds what the user selected, a prepared engine
\* remembers it, and unless a choice was lost unnoticed each group has its choice.
ChoiceInv == /\ IsDocument(doc) /\ IsWorld(world) /\ Running /\ Agrees /\ Holds /\ Remembers
             /\ ~blind => Kept

LEMMA ChoiceInit == RoutingInit => ChoiceInv
<1> SUFFICES ASSUME RoutingInit PROVE ChoiceInv
  OBVIOUS
<1>1. IsDocument(doc) /\ IsWorld(world)
  BY RoutingAssumption DEF RoutingInit, IsDocument
<1>2. eng = Off /\ cache = NoSelection /\ choice = NoSelection
  BY DEF RoutingInit
<1>3. Off.on = "off" /\ Off.groups = {} /\ Off.sel = NoSelection /\ DOMAIN NoSelection = {}
  BY DEF Off, NoSelection
<1>4. Running
  BY SettersInit
<1>5. Agrees
  BY <1>2 DEF Agrees, OfDevices, NoSelection
<1>6. Holds /\ Remembers /\ Kept
  BY <1>2, <1>3 DEF Holds, Remembers, Kept
<1> QED BY <1>1, <1>4, <1>5, <1>6 DEF ChoiceInv

LEMMA RunKnows ==
  ASSUME ChoiceInv, ~blind, NEW kind \in {"prepared", "gateway"}, eng.on \in {"off", "prepared"},
         NEW answers \in BOOLEAN, NEW readable \in BOOLEAN,
         answers => eng.on = "prepared", readable => eng.on # "prepared",
         answers \/ (eng.on = "off" /\ (kind = "gateway" \/ readable)),
         NEW h \in Groups(CompilePolicySet(doc, world, Everything))
  PROVE  Knows(Selections(eng, answers, readable), h.name)
<1> DEFINE n == h.name
           found == Selections(eng, answers, readable)
<1>1. n.dev \in Devices
  BY GroupsOfDevices DEF ChoiceInv
<1>2. IsTargets(Named(doc, n)) /\ Named(doc, n) # <<>>
  BY GroupIsNamed DEF ChoiceInv
<1>3. found.unknown = (~answers /\ ~readable)
      /\ found.kept = Over(eng.kept, IF answers THEN OfDevices(eng.sel)
                                     ELSE IF readable THEN OfDevices(cache) ELSE NoSelection)
  BY DEF Selections
<1>4. \A x : Picked(NoSelection, x) = Empty /\ DOMAIN NoSelection = {}
  BY DEF Picked, NoSelection
<1>5. CASE eng.on = "off"
  <2>1. eng.kept = NoSelection /\ ~answers
    BY <1>5 DEF ChoiceInv, Holds, Off
  <2>2. CASE readable
    <3>1. found.kept = Over(NoSelection, choice)
      BY <1>3, <2>1, <2>2 DEF ChoiceInv, Agrees
    <3>2. Picked(found.kept, n) = Picked(choice, n)
      BY <1>4, <3>1, OverIs DEF Picked
    <3> HIDE DEF found, n
    <3>9. Favorite(found.kept, n, Named(doc, n)) = Favorite(choice, n, Named(doc, n))
      BY <1>2, <3>2, FavoriteIs
    <3> QED BY <3>9, Zenon DEF Knows, n, found
  <2>3. CASE ~readable
    <3>1. found.kept = Over(NoSelection, NoSelection) /\ found.unknown
      BY <1>3, <2>1, <2>3
    <3>2. Picked(found.kept, n) = Empty
      BY <1>4, <3>1, OverIs
    <3> QED BY <3>1, <3>2 DEF Knows
  <2> QED BY <2>2, <2>3
<1>6. CASE eng.on = "prepared"
  <2>1. found.kept = Over(eng.kept, OfDevices(eng.sel))
    BY <1>3, <1>6
  <2>2. CASE n \in DOMAIN eng.sel
    <3>1. PICK g \in eng.groups : g.name = n
      BY <1>1, <2>2 DEF ChoiceInv, Holds
    <3>2. eng.sel[n] = Favorite(choice, n, Named(doc, n))
      BY <3>1 DEF ChoiceInv, Kept
    <3>3. n \in DOMAIN OfDevices(eng.sel) /\ OfDevices(eng.sel)[n] = eng.sel[n]
      BY <1>1, <2>2 DEF OfDevices
    <3>4. Picked(found.kept, n) = eng.sel[n]
      BY <2>1, <3>3, OverIs
    <3> HIDE DEF found, n
    <3>5. Favorite(choice, n, Named(doc, n)) \in Range(Named(doc, n))
      BY <1>2, FavoriteIs
    <3>6. Favorite(found.kept, n, Named(doc, n)) = eng.sel[n]
      BY <1>2, <3>2, <3>4, <3>5, FavoriteIs
    <3>9. Favorite(found.kept, n, Named(doc, n)) = Favorite(choice, n, Named(doc, n))
      BY <3>2, <3>6
    <3> QED BY <3>9, Zenon DEF Knows, n, found
  <2>3. CASE n \notin DOMAIN eng.sel
    <3>1. n \notin DOMAIN OfDevices(eng.sel)
      BY <2>3 DEF OfDevices
    <3>2. Picked(found.kept, n) = Picked(eng.kept, n)
      BY <2>1, <3>1, OverIs
    <3>3. Picked(eng.kept, n) = Picked(choice, n)
      BY <1>6, <2>3 DEF ChoiceInv, Remembers
    <3> HIDE DEF found, n
    <3>9. Favorite(found.kept, n, Named(doc, n)) = Favorite(choice, n, Named(doc, n))
      BY <1>2, <3>2, <3>3, FavoriteIs
    <3> QED BY <3>9, Zenon DEF Knows, n, found
  <2> QED BY <2>2, <2>3
<1> QED BY <1>5, <1>6

LEMMA RunKeeps ==
  ASSUME ChoiceInv, NEW kind \in {"prepared", "gateway"}, eng.on \in {"off", "prepared"},
         kind = "prepared" => eng.on = "off", Run(kind)
  PROVE  ChoiceInv'
<1>1. PICK answers \in BOOLEAN, readable \in BOOLEAN :
        /\ answers => eng.on = "prepared"
        /\ readable => eng.on # "prepared"
        /\ blind' = (blind \/ (~answers /\ (eng.on = "prepared" \/ (kind = "prepared" /\ ~readable))))
        /\ eng' = Engine(kind, Selections(eng, answers, readable))
  BY DEF Run
<1>2. UNCHANGED <<doc, world, cache, choice>> /\ Running'
  BY EngineRuns DEF Run
<1> DEFINE found == Selections(eng, answers, readable)
           res == Resolution(doc, world, found)
           b == CompilePolicySet(doc, world, res)
           e == Engine(kind, found)
<1>3. /\ eng'.on = kind /\ eng'.groups = Groups(b) /\ eng'.kept = res.sel /\ eng'.doc = doc
      /\ DOMAIN eng'.sel = {g.name : g \in Groups(b) \cup MacGroups(world)}
      /\ \A g \in Groups(b) : eng'.sel[g.name] = Selected(g)
  <2>1. IsDocument(doc) /\ e = Engine(kind, found)
    BY DEF ChoiceInv
  <2> HIDE DEF e, found
  <2>2. /\ e.on = kind /\ e.groups = Groups(b) /\ e.kept = res.sel /\ e.doc = doc
        /\ DOMAIN e.sel = {g.name : g \in Groups(b) \cup MacGroups(world)}
        /\ \A g \in Groups(b) : e.sel[g.name] = Selected(g)
    BY <2>1, EngineIs
  <2>3. eng' = e
    BY <1>1 DEF e, found
  <2> HIDE DEF b, res
  <2> QED BY <2>2, <2>3
<1>4. Holds'
  <2>1. eng'.on # "off" /\ eng'.doc = doc'
    BY <1>2, <1>3
  <2>2. ASSUME NEW g \in Groups(b)
        PROVE  /\ g.name \in DOMAIN eng'.sel /\ IsTargets(Named(doc, g.name))
               /\ Named(doc, g.name) # <<>> /\ g.of \in Seq(Range(Named(doc, g.name)))
    <3>1. /\ g = [name |-> g.name, of |-> Candidates(res, g.name, Named(doc, g.name))]
          /\ IsTargets(Named(doc, g.name)) /\ Named(doc, g.name) # <<>>
      BY GroupIsNamed DEF ChoiceInv
    <3>2. g.of = Candidates(res, g.name, Named(doc, g.name))
      BY <3>1
    <3> HIDE DEF b, res
    <3> QED BY <1>3, <3>1, <3>2, CandidatesAre
  <2> HIDE DEF b
  <2>3. ASSUME NEW n \in DOMAIN eng'.sel, n.dev \in Devices PROVE \E g \in Groups(b) : g.name = n
    BY <1>3, <2>3, MacGroupNames
  <2>4. \A n : Named(doc', n) = Named(doc, n)
    BY <1>2
  <2> QED BY <1>2, <1>3, <2>1, <2>2, <2>3 DEF Holds
<1>5. ASSUME ~blind' PROVE Kept'
  <2> SUFFICES ASSUME NEW g \in Groups(b)
               PROVE  eng'.sel[g.name] = Favorite(choice, g.name, Named(doc, g.name))
    <3> HIDE DEF b
    <3> QED BY <1>2, <1>3 DEF Kept
  <2>1. PICK h \in Groups(CompilePolicySet(doc, world, Everything)) : h.name = g.name
    BY GroupOfDocument DEF ChoiceInv
  <2>2. Knows(found, g.name)
    BY <1>1, <1>5, <2>1, RunKnows
  <2>3. Selected(g) = Favorite(choice, g.name, Named(doc, g.name))
    <3>1. IsDocument(doc) /\ Agrees
      BY DEF ChoiceInv
    <3> HIDE DEF found
    <3> QED BY <2>2, <3>1, RunKeepsChoice
  <2> HIDE DEF b
  <2> QED BY <1>3, <2>3
<1>6. Remembers'
  <2> SUFFICES ASSUME kind = "prepared", ~blind',
                      NEW h \in Groups(CompilePolicySet(doc, world, Everything))
               PROVE  h.name \in DOMAIN eng'.sel \/ Picked(eng'.kept, h.name) = Picked(choice, h.name)
    BY <1>2, <1>3 DEF Remembers
  <2>1. eng.on = "off" /\ readable /\ ~answers
    BY <1>1
  <2>2. CASE Missing(doc, world)
    <3>1. res.sel = Over(eng.kept, OfDevices(cache))
      BY <2>1, <2>2 DEF Resolution, Selections
    <3>2. eng.kept = NoSelection /\ OfDevices(cache) = choice
      BY <2>1 DEF ChoiceInv, Holds, Off, Agrees
    <3>3. Picked(res.sel, h.name) = Picked(choice, h.name)
      <4>1. Picked(NoSelection, h.name) = Empty
        BY DEF Picked, NoSelection
      <4> QED BY <3>1, <3>2, <4>1, OverIs DEF Picked
    <3> HIDE DEF res
    <3> QED BY <1>3, <3>3
  <2>3. CASE ~Missing(doc, world)
    <3>1. Offered(doc, world, res)
      BY <2>3, NotMissing
    <3>2. PICK g \in Groups(b) : g.name = h.name
      BY <3>1, OfferedAreThere DEF ChoiceInv
    <3> HIDE DEF b
    <3> QED BY <1>3, <3>2
  <2> QED BY <2>2, <2>3
<1>7. Agrees' /\ IsDocument(doc)' /\ IsWorld(world)'
  BY <1>2 DEF Agrees, ChoiceInv
<1> QED BY <1>2, <1>4, <1>5, <1>6, <1>7 DEF ChoiceInv

\* A device's groups do not depend on what the source offers.
LEMMA SameGroups ==
  ASSUME NEW set, NEW w, NEW x, w.mode = x.mode, w.lan = x.lan, NEW res
  PROVE  Groups(CompilePolicySet(set, w, res)) = Groups(CompilePolicySet(set, x, res))
<1>1. \A d : Active(set, w, d) <=> Active(set, x, d)
  BY DEF Active, InLAN
<1> DEFINE A == Groups(CompilePolicySet(set, w, res))
           B == Groups(CompilePolicySet(set, x, res))
<1>2. ASSUME NEW g \in A PROVE g \in B
  <2>1. g.name.dev \in Devices /\ Active(set, w, g.name.dev) /\ g \in Compiled(set, res, g.name.dev).groups
    BY GroupsOfDevices
  <2> QED BY <1>1, <2>1, GroupsAre
<1>3. ASSUME NEW g \in B PROVE g \in A
  <2>1. g.name.dev \in Devices /\ Active(set, x, g.name.dev) /\ g \in Compiled(set, res, g.name.dev).groups
    BY GroupsOfDevices
  <2> QED BY <1>1, <2>1, GroupsAre
<1> HIDE DEF A, B
<1>4. A = B
  BY <1>2, <1>3
<1> QED BY <1>4 DEF A, B

LEMMA MacSelectKeeps ==
  ASSUME ChoiceInv, NEW g, NEW t, CanSelect(g, t), Select(g, t), UNCHANGED <<doc, world, choice, blind>>
  PROVE  ChoiceInv'
<1>1. g.dev \notin Devices /\ eng.on # "off"
  BY MacGroupNames DEF CanSelect
<1>2. /\ Running' /\ eng'.on = eng.on /\ eng'.groups = eng.groups /\ DOMAIN eng'.sel = DOMAIN eng.sel
      /\ \A x \in DOMAIN eng.sel : eng'.sel[x] = IF x = g THEN t ELSE eng.sel[x]
  <2>1. IsRun(eng) /\ With(eng, eng', g, t)
    BY DEF ChoiceInv, Running, IsRun, Select, With
  <2>2. IsRun(eng') /\ OneSelected(eng, eng', g, t)
    BY <2>1, SelectIs
  <2> QED BY <2>2 DEF Running, IsRun, OneSelected
<1>3. eng'.doc = eng.doc /\ eng'.kept = eng.kept
  BY DEF Select, ChoiceInv, Running, EngFields
<1>4. \A h \in eng.groups : h.name # g /\ h.name \in DOMAIN eng.sel
  BY <1>1 DEF ChoiceInv, Running, Holds
<1>5. Holds'
  BY <1>1, <1>2, <1>3 DEF ChoiceInv, Holds
<1>6. ~blind => Kept'
  BY <1>2, <1>4 DEF ChoiceInv, Kept
<1>7. Remembers'
  BY <1>2, <1>3 DEF ChoiceInv, Remembers
<1>8. Agrees'
  <2>1. /\ DOMAIN cache' = DOMAIN cache \cup {g}
        /\ \A x \in DOMAIN cache : x # g => cache'[x] = cache[x]
    BY DEF Select, Over
  <2>2. {y \in DOMAIN cache' : y.dev \in Devices} = {y \in DOMAIN cache : y.dev \in Devices}
    BY <1>1, <2>1
  <2>3. \A x \in {y \in DOMAIN cache : y.dev \in Devices} : cache'[x] = cache[x]
    BY <1>1, <2>1
  <2>4. OfDevices(cache') = OfDevices(cache)
    BY <2>2, <2>3 DEF OfDevices
  <2> QED BY <2>4 DEF ChoiceInv, Agrees
<1> QED BY <1>2, <1>5, <1>6, <1>7, <1>8 DEF ChoiceInv

LEMMA DeviceSelectKeeps ==
  ASSUME ChoiceInv, SelectForDevice
  PROVE  ChoiceInv'
<1>1. PICK h \in eng.groups : \E k \in DOMAIN h.of :
          Select(h.name, h.of[k]) /\ choice' = Over(choice, [x \in {h.name} |-> h.of[k]])
  BY DEF SelectForDevice
<1>2. PICK k \in DOMAIN h.of :
          Select(h.name, h.of[k]) /\ choice' = Over(choice, [x \in {h.name} |-> h.of[k]])
  BY <1>1
<1> DEFINE n == h.name
           v == h.of[k]
           one == [x \in {n} |-> v]
<1>3. UNCHANGED <<doc, world, blind>>
  BY DEF SelectForDevice
<1>4. n.dev \in Devices /\ n \in DOMAIN eng.sel /\ IsTargets(Named(doc, n)) /\ Named(doc, n) # <<>>
      /\ v \in Range(Named(doc, n))
  <2>1. h.of \in Seq(Range(Named(doc, n)))
    BY DEF ChoiceInv, Holds
  <2> QED BY <2>1 DEF ChoiceInv, Running, Holds
<1>5. eng' = [eng EXCEPT !.sel[n] = v] /\ cache' = Over(cache, one) /\ choice' = Over(choice, one)
  BY <1>2 DEF Select
<1>6. DOMAIN one = {n} /\ one[n] = v
  OBVIOUS
<1> HIDE DEF n, v, one
<1>7. /\ Running' /\ eng'.on = eng.on /\ eng'.groups = eng.groups /\ DOMAIN eng'.sel = DOMAIN eng.sel
      /\ \A x \in DOMAIN eng.sel : eng'.sel[x] = IF x = n THEN v ELSE eng.sel[x]
  <2>1. IsRun(eng) /\ With(eng, eng', n, v)
    BY <1>5 DEF ChoiceInv, Running, IsRun, With
  <2>2. IsRun(eng') /\ OneSelected(eng, eng', n, v)
    BY <2>1, SelectIs
  <2> QED BY <2>2 DEF Running, IsRun, OneSelected
<1>8. eng'.doc = eng.doc /\ eng'.kept = eng.kept
  BY <1>5 DEF ChoiceInv, Running, EngFields
<1>9. eng.on # "off"
  BY DEF ChoiceInv, Holds, Off, SelectForDevice
<1>10. Holds'
  BY <1>3, <1>7, <1>8, <1>9 DEF ChoiceInv, Holds
<1>11. \A x : Picked(choice', x) = IF x = n THEN v ELSE Picked(choice, x)
  BY <1>5, <1>6, OverIs
<1>12. ASSUME ~blind PROVE Kept'
  <2> SUFFICES ASSUME NEW g \in eng.groups
               PROVE  eng'.sel[g.name] = Favorite(choice', g.name, Named(doc, g.name))
    BY <1>3, <1>7 DEF Kept
  <2>1. /\ g.name \in DOMAIN eng.sel /\ IsTargets(Named(doc, g.name)) /\ Named(doc, g.name) # <<>>
        /\ eng.sel[g.name] = Favorite(choice, g.name, Named(doc, g.name))
    BY <1>12 DEF ChoiceInv, Holds, Kept
  <2> DEFINE m == g.name
             all == Named(doc, m)
  <2>2. /\ Favorite(choice', m, all) = IF Picked(choice', m) \in Range(all) THEN Picked(choice', m) ELSE all[1]
        /\ Favorite(choice, m, all) = IF Picked(choice, m) \in Range(all) THEN Picked(choice, m) ELSE all[1]
    BY <2>1, FavoriteIs
  <2>3. CASE m = n
    <3>1. Favorite(choice', m, all) = v
      BY <1>4, <1>11, <2>2, <2>3
    <3> QED BY <1>7, <2>1, <2>3, <3>1
  <2>4. CASE m # n
    <3>1. Favorite(choice', m, all) = Favorite(choice, m, all)
      BY <1>11, <2>2, <2>4
    <3> QED BY <1>7, <2>1, <2>4, <3>1
  <2> QED BY <2>3, <2>4
<1>13. Remembers'
  <2> SUFFICES ASSUME eng.on = "prepared", ~blind, NEW x \in Groups(CompilePolicySet(doc, world, Everything))
               PROVE  x.name \in DOMAIN eng.sel \/ Picked(eng.kept, x.name) = Picked(choice', x.name)
    BY <1>3, <1>7, <1>8 DEF Remembers
  <2>1. x.name \in DOMAIN eng.sel \/ Picked(eng.kept, x.name) = Picked(choice, x.name)
    BY DEF ChoiceInv, Remembers
  <2> QED BY <1>4, <1>11, <2>1
<1>14. Agrees'
  <2>1. choice = OfDevices(cache)
    BY DEF ChoiceInv, Agrees
  <2>2. Over(OfDevices(cache), one) = OfDevices(Over(cache, one))
    <3> DEFINE D == {y \in DOMAIN cache : y.dev \in Devices}
               E == {y \in DOMAIN cache \cup {n} : y.dev \in Devices}
    <3>1. D \cup {n} = E
      BY <1>4
    <3>2. Over(OfDevices(cache), one) = [x \in D \cup {n} |-> IF x \in {n} THEN v ELSE cache[x]]
      BY <1>6 DEF Over, OfDevices
    <3>3. OfDevices(Over(cache, one)) = [x \in E |-> IF x \in {n} THEN v ELSE cache[x]]
      BY <1>6 DEF Over, OfDevices
    <3> HIDE DEF D, E
    <3> QED BY <3>1, <3>2, <3>3
  <2> QED BY <1>5, <2>1, <2>2 DEF Agrees
<1> QED BY <1>3, <1>7, <1>10, <1>12, <1>13, <1>14 DEF ChoiceInv

\* No action breaks the invariant of the selections.
LEMMA ChoiceStep ==
  ASSUME ChoiceInv, [RoutingNext]_routing
  PROVE  ChoiceInv'
<1>1. CASE Prepare \/ Start
  <2>1. PICK kind \in {"prepared", "gateway"} :
           Run(kind) /\ eng.on \in {"off", "prepared"} /\ (kind = "prepared" => eng.on = "off")
    BY <1>1 DEF Prepare, Start
  <2> QED BY <2>1, RunKeeps
<1>2. CASE Stop
  <2>1. eng' = Off /\ UNCHANGED <<doc, world, cache, choice, blind>>
    BY <1>2 DEF Stop
  <2>2. Off.on = "off" /\ Off.groups = {} /\ DOMAIN Off.sel = {} /\ IsMap(Off.sel) /\ IsMap(Off) /\ DOMAIN Off = EngFields
    BY DEF Off, NoSelection, IsMap, EngFields
  <2>3. Running' /\ Holds' /\ Remembers' /\ Kept'
    BY <2>1, <2>2 DEF Running, Holds, Remembers, Kept
  <2> QED BY <2>1, <2>3 DEF ChoiceInv, Agrees
<1>3. CASE SelectForDevice
  BY <1>3, DeviceSelectKeeps
<1>4. ASSUME UNCHANGED <<doc, eng, cache, choice, blind>>, IsWorld(world'),
             eng.on # "off" => world'.mode = world.mode /\ world'.lan = world.lan
      PROVE  ChoiceInv'
  <2>1. Remembers'
    <3>1. CASE eng.on = "off"
      BY <1>4, <3>1 DEF Remembers
    <3>2. CASE eng.on # "off"
      <4>1. Groups(CompilePolicySet(doc, world', Everything)) = Groups(CompilePolicySet(doc, world, Everything))
        BY <1>4, <3>2, SameGroups
      <4> QED BY <1>4, <4>1 DEF ChoiceInv, Remembers
    <3> QED BY <3>1, <3>2
  <2>2. Running' /\ Holds' /\ Agrees' /\ (~blind' => Kept') /\ IsDocument(doc)'
    BY <1>4 DEF ChoiceInv, Running, Holds, Agrees, Kept
  <2> QED BY <1>4, <2>1, <2>2 DEF ChoiceInv
<1>5. CASE Update
  <2>1. PICK T \in SUBSET {"A", "B"} : world' = [world EXCEPT !.offered = T]
    BY <1>5 DEF Update
  <2>2. T \cap Inner = {} /\ IsFiniteSet(T)
    <3>1. IsFiniteSet({"A", "B"})
      <4>1. IsFiniteSet({"A"})
        BY FS_Singleton
      <4>2. IsFiniteSet({"A"} \cup {"B"})
        BY <4>1, FS_AddElement
      <4>3. {"A"} \cup {"B"} = {"A", "B"}
        OBVIOUS
      <4> QED BY <4>2, <4>3
    <3>2. IsFiniteSet(T)
      BY <3>1, FS_Subset
    <3>3. "A" \notin Inner /\ "B" \notin Inner
      BY DEF Inner, Empty
    <3> QED BY <3>2, <3>3
  <2>3. IsWorld(world') /\ world'.mode = world.mode /\ world'.lan = world.lan
    BY <2>1, <2>2 DEF ChoiceInv, IsWorld
  <2>4. UNCHANGED <<doc, eng, cache, choice, blind>>
    BY <1>5 DEF Update
  <2> QED BY <1>4, <2>3, <2>4
<1>6. CASE Move
  <2>1. PICK m \in {"same_lan", "dhcp"}, l \in {"home", "away"} : world' = [world EXCEPT !.mode = m, !.lan = l]
    BY <1>6 DEF Move
  <2>2. IsWorld(world')
    BY <2>1 DEF ChoiceInv, IsWorld
  <2>3. UNCHANGED <<doc, eng, cache, choice, blind>> /\ eng.on = "off"
    BY <1>6 DEF Move
  <2> QED BY <1>4, <2>2, <2>3
<1>7. ASSUME UNCHANGED <<doc, world, choice, blind>>, UNCHANGED <<eng, cache>> PROVE ChoiceInv'
  <2>1. IsWorld(world')
    BY <1>7 DEF ChoiceInv
  <2> QED BY <1>4, <1>7, <2>1
<1>8. ASSUME NEW c \in Clients, BeginMode(c) \/ PutNext(c) \/ Verify(c) \/ TakeBack(c)
      PROVE  ChoiceInv'
  <2>1. UNCHANGED <<doc, world, choice, blind>>
    BY <1>8 DEF BeginMode, PutNext, Verify, TakeBack, Apart
  <2>2. UNCHANGED <<eng, cache>> \/ \E g, t : CanSelect(g, t) /\ Select(g, t)
    BY <1>8 DEF BeginMode, PutNext, Verify, TakeBack
  <2> QED BY <1>7, <2>1, <2>2, MacSelectKeeps
<1>9. CASE UNCHANGED routing
  BY <1>7, <1>9 DEF routing
<1> QED BY <1>1, <1>2, <1>3, <1>5, <1>6, <1>8, <1>9 DEF RoutingNext

\* A group that runs uses what the user selected for it, or its first candidate
\* (resolveSelector's promise), for every document and source and after any
\* number of requests, starts and stops.
THEOREM ChoiceAlwaysKept == RoutingSpec => []ChoiceKept
<1>1. RoutingInit => ChoiceInv
  BY ChoiceInit
<1>2. ChoiceInv /\ [RoutingNext]_routing => ChoiceInv'
  BY ChoiceStep
<1>3. ChoiceInv => ChoiceKept
  <2> SUFFICES ASSUME ChoiceInv, ~blind, NEW g \in eng.groups
               PROVE  LET all == Declared(g.name.dev, g.name.slot)  n == g.name IN
                      eng.sel[n] = IF n \in DOMAIN choice /\ Contains(all, choice[n]) THEN choice[n] ELSE all[1]
    BY DEF ChoiceKept
  <2>1. eng.doc = doc
    BY DEF ChoiceInv, Holds, Off
  <2>2. Declared(g.name.dev, g.name.slot) = Named(doc, g.name)
    BY <2>1 DEF Declared, Named, Defaults, Rules
  <2>3. eng.sel[g.name] = Favorite(choice, g.name, Named(doc, g.name))
    BY DEF ChoiceInv, Kept
  <2> QED BY <2>2, <2>3 DEF Favorite
<1> QED BY <1>1, <1>2, <1>3, PTL DEF RoutingSpec

(***************************************************************************)
(* Lists of lines.                                                         *)
(***************************************************************************)
LEMMA ListIs ==
  ASSUME NEW s, IsList(s)
  PROVE  s \in Seq(Range(s)) /\ Len(s) \in Nat /\ DOMAIN s = 1..Len(s) /\ IsMap(s)
BY DEF IsList, IsMap

\* The lists of lines, with fields of their own: rules match, then name a target.
LEMMA ListOf ==
  ASSUME NEW S, NEW s \in Seq(S)
  PROVE  IsList(s)
<1>1. Len(s) \in Nat /\ DOMAIN s = 1..Len(s) /\ s = [i \in 1..Len(s) |-> s[i]]
  OBVIOUS
<1>2. \A i \in 1..Len(s) : s[i] \in Range(s)
  BY <1>1 DEF Range
<1> QED BY <1>1, <1>2 DEF IsList

LEMMA ShortList ==
  \A x : /\ IsList(<<>>) /\ IsList(<<x>>)
         /\ Range(<<>>) = {} /\ Range(<<x>>) = {x}
<1> TAKE x
<1>1. Range(<<>>) = {} /\ Range(<<x>>) = {x}
  BY DEF Range
<1> QED BY <1>1 DEF IsList

LEMMA JoinedList ==
  ASSUME NEW s, NEW t, IsList(s), IsList(t)
  PROVE  /\ IsList(s \o t)
         /\ \A y : y \in Range(s \o t) <=> y \in Range(s) \/ y \in Range(t)
<1> DEFINE S == Range(s) \cup Range(t)
<1>1. s \in Seq(S) /\ t \in Seq(S)
  BY DEF IsList
<1> HIDE DEF S
<1>2. s \o t \in Seq(S)
  BY <1>1
<1>3. \A y : y \in Range(s \o t) <=> y \in Range(s) \/ y \in Range(t)
  BY <1>1, RangeJoined
<1> QED BY <1>2, <1>3, ListOf

LEMMA JoinedSays ==
  ASSUME NEW s, NEW t, IsList(s), IsList(t), NEW e, NEW p
  PROVE  Says(e, p, s \o t) = Or(Says(e, p, s), Says(e, p, t))
<1> DEFINE S == Range(s) \cup Range(t)
<1>1. s \in Seq(S) /\ t \in Seq(S)
  BY DEF IsList
<1> HIDE DEF S
<1> QED BY <1>1, SaysJoined

\* Lists, one for each of n.
AreLists(ss, n) == n \in Nat /\ IsMap(ss) /\ DOMAIN ss = 1..n /\ \A i \in 1..n : IsList(ss[i])

LEMMA ListsAre ==
  ASSUME NEW ss, NEW n, AreLists(ss, n)
  PROVE  ss \in Seq(Seq(UNION {Range(ss[i]) : i \in 1..n}))
<1> DEFINE S == UNION {Range(ss[i]) : i \in 1..n}
<1>1. n \in Nat /\ ss = [i \in 1..n |-> ss[i]]
  BY DEF AreLists, IsMap
<1>2. ASSUME NEW i \in 1..n PROVE ss[i] \in Seq(S)
  <2>1. ss[i] \in Seq(Range(ss[i]))
    BY DEF AreLists, IsList
  <2>2. Range(ss[i]) \subseteq S
    OBVIOUS
  <2> HIDE DEF S
  <2> QED BY <2>1, <2>2
<1> HIDE DEF S
<1>3. ss \in Seq(Seq(S))
  BY <1>1, <1>2
<1> QED BY <1>3 DEF S

LEMMA FlattenedList ==
  ASSUME NEW ss, NEW n, AreLists(ss, n)
  PROVE  /\ IsList(FlattenSeq(ss))
         /\ \A y : y \in Range(FlattenSeq(ss)) <=> \E i \in 1..n : y \in Range(ss[i])
<1> DEFINE S == UNION {Range(ss[i]) : i \in 1..n}
<1>1. ss \in Seq(Seq(S)) /\ DOMAIN ss = 1..n
  BY ListsAre DEF AreLists
<1> HIDE DEF S
<1>2. FlattenSeq(ss) \in Seq(S) /\ \A y : y \in Range(FlattenSeq(ss)) <=> \E i \in DOMAIN ss : y \in Range(ss[i])
  BY <1>1, FlattenAll
<1> QED BY <1>1, <1>2, ListOf

LEMMA FlattenedSays ==
  ASSUME NEW ss, NEW n, AreLists(ss, n), NEW e, NEW p
  PROVE  Says(e, p, FlattenSeq(ss)) = Earliest(SaysEach(e, p, ss))
<1> DEFINE S == UNION {Range(ss[i]) : i \in 1..n}
<1>1. ss \in Seq(Seq(S)) /\ DOMAIN ss = 1..n
  BY ListsAre DEF AreLists
<1> HIDE DEF S
<1> QED BY <1>1, SaysFlattened

\* Decisions that are v or nothing.
LEMMA EarliestAlike ==
  ASSUME NEW vs, NEW n \in Nat, DOMAIN vs = 1..n, NEW v, \A i \in 1..n : vs[i] \in {Empty, v}
  PROVE  Earliest(vs) = IF \E i \in 1..n : vs[i] = v THEN v ELSE Empty
<1>1. IsEarliest(vs, n, Earliest(vs))
  BY EarliestIs
<1> QED BY <1>1 DEF IsEarliest

LEMMA OrIs ==
  \A a, b, c : Or(Or(a, b), c) = Or(a, Or(b, c)) /\ Or(Empty, a) = a /\ Or(a, Empty) = a
BY DEF Or

(***************************************************************************)
(* What one line does with a packet.                                       *)
(***************************************************************************)
CondOK(cond, p) == cond.dst \in {Empty, p.dst} /\ cond.set \in {Empty, p.dst} /\ cond.proto \in {Empty, p.proto}
Goes(e, to, p) == IF Takes(e, to, p) THEN Outbound(e, to) ELSE Empty

LEMMA LineOf ==
  \A w, c, t : Line(w, c, t).who = w /\ Line(w, c, t).cond = c /\ Line(w, c, t).to = t
BY DEF Line

LEMMA DecidesIP ==
  \A e, d, cond, to, p :
      Decides(e, Line(ByIP(d), cond, to), p) =
          IF p.dev = d /\ ~p.v6 /\ CondOK(cond, p) THEN Goes(e, to, p) ELSE Empty
<1> TAKE e, d, cond, to, p
<1> DEFINE l == Line(ByIP(d), cond, to)
<1>1. l.who.by = "ip" /\ l.who.dev = d /\ l.cond = cond /\ l.to = to
  BY DEF Line, ByIP
<1> HIDE DEF l
<1>2. Matches(l, p) <=> p.dev = d /\ ~p.v6 /\ CondOK(cond, p)
  BY <1>1 DEF Matches, CondOK
<1> QED BY <1>1, <1>2 DEF Decides, Goes, l

LEMMA DecidesUser ==
  \A e, d, cond, to, p :
      Decides(e, Line(ByUser(d), cond, to), p) =
          IF p.dev = d /\ p.v6 /\ CondOK(cond, p) THEN Goes(e, to, p) ELSE Empty
<1> TAKE e, d, cond, to, p
<1> DEFINE l == Line(ByUser(d), cond, to)
<1>1. l.who.by = "user" /\ l.who.dev = d /\ l.cond = cond /\ l.to = to
  BY DEF Line, ByUser
<1> HIDE DEF l
<1>2. Matches(l, p) <=> p.dev = d /\ p.v6 /\ CondOK(cond, p)
  BY <1>1 DEF Matches, CondOK
<1> QED BY <1>1, <1>2 DEF Decides, Goes, l

LEMMA DecidesMac ==
  \A e, cond, to, p :
      Decides(e, Line(Mac, cond, to), p) =
          IF p.dev = "mac" /\ CondOK(cond, p) THEN Goes(e, to, p) ELSE Empty
<1> TAKE e, cond, to, p
<1> DEFINE l == Line(Mac, cond, to)
<1>1. l.who.by = "mac" /\ l.cond = cond /\ l.to = to
  BY DEF Line, Mac
<1> HIDE DEF l
<1>2. Matches(l, p) <=> p.dev = "mac" /\ CondOK(cond, p)
  BY <1>1 DEF Matches, CondOK
<1> QED BY <1>1, <1>2 DEF Decides, Goes, l

LEMMA DecidesAny ==
  \A e, cond, to, p :
      Decides(e, Line(AnyOne, cond, to), p) = IF CondOK(cond, p) THEN Goes(e, to, p) ELSE Empty
<1> TAKE e, cond, to, p
<1> DEFINE l == Line(AnyOne, cond, to)
<1>1. l.who.by = "any" /\ l.cond = cond /\ l.to = to
  BY DEF Line, AnyOne
<1> HIDE DEF l
<1>2. Matches(l, p) <=> CondOK(cond, p)
  BY <1>1 DEF Matches, CondOK
<1> QED BY <1>1, <1>2 DEF Decides, Goes, l

IsPacket(p) == p \in [dev : Devices \cup {"mac", "guest"}, v6 : BOOLEAN, dst : Places, proto : {"tcp", "udp"}]

LEMMA CondIs ==
  ASSUME NEW p, IsPacket(p)
  PROVE  /\ CondOK(Anything, p)
         /\ \A a \in Places : CondOK(At(a), p) <=> p.dst = a
         /\ CondOK([Anything EXCEPT !.proto = "tcp"], p) <=> p.proto = "tcp"
         /\ CondOK([Anything EXCEPT !.proto = "udp"], p) <=> p.proto = "udp"
<1>1. p.dst \in Places /\ p.proto \in {"tcp", "udp"} /\ p.dst # Empty /\ Empty \notin Places
  BY DEF IsPacket, Places, Empty
<1> QED BY <1>1 DEF CondOK, Anything, At, Empty

\* A built-in target, or the Tailnet, carries every packet.
LEMMA FixedTargets ==
  ASSUME NEW e, NEW p
  PROVE  /\ Goes(e, To("DIRECT"), p) = "DIRECT" /\ Goes(e, To("REJECT"), p) = "REJECT"
         /\ Goes(e, To("tsnet"), p) = "tsnet"
<1>1. \A t : To(t).dev = "none" /\ To(t).slot = t
  BY DEF To
<1>2. "DIRECT" \notin NoUDP /\ "REJECT" \notin NoUDP /\ "tsnet" \notin NoUDP
  BY RoutingAssumption DEF Builtin, Inner
<1> QED BY <1>1, <1>2 DEF Goes, Takes, Outbound, Carries

V4(p) == [p EXCEPT !.v6 = FALSE]

LEMMA V4Is ==
  ASSUME NEW p, IsPacket(p)
  PROVE  /\ IsPacket(V4(p)) /\ V4(p).dev = p.dev /\ V4(p).v6 = FALSE /\ V4(p).dst = p.dst /\ V4(p).proto = p.proto
         /\ \A e, to : Goes(e, to, V4(p)) = Goes(e, to, p)
         /\ \A cond : CondOK(cond, V4(p)) <=> CondOK(cond, p)
<1>1. /\ IsPacket(V4(p)) /\ V4(p).dev = p.dev /\ V4(p).v6 = FALSE /\ V4(p).dst = p.dst /\ V4(p).proto = p.proto
  BY DEF IsPacket, V4
<1> QED BY <1>1 DEF Goes, Takes, CondOK

(***************************************************************************)
(* addIPv6IdentityRules: the lines of a device see its IPv6 packets as     *)
(* they see the others.                                                    *)
(***************************************************************************)
IsOwned(d, l) == l = Line(ByIP(d), l.cond, l.to)
ForUser(d, l) == [l EXCEPT !.who = ByUser(d)]
Owned(d, lines) == IsList(lines) /\ \A l \in Range(lines) : IsOwned(d, l)

\* How a line for a device decides by address, and how by inbound user.
LEMMA OwnedDecides ==
  ASSUME NEW d, NEW l, IsOwned(d, l), NEW e, NEW p, IsPacket(p)
  PROVE  /\ Decides(e, l, p) = (IF p.v6 THEN Empty ELSE Decides(e, l, V4(p)))
         /\ Decides(e, ForUser(d, l), p) = (IF p.v6 THEN Decides(e, l, V4(p)) ELSE Empty)
<1> DEFINE c == l.cond
           t == l.to
<1>1. l = Line(ByIP(d), c, t)
  BY DEF IsOwned
<1>2. ForUser(d, l) = Line(ByUser(d), c, t)
  <2> HIDE DEF c, t
  <2> QED BY <1>1 DEF Line, ForUser
<1> HIDE DEF c, t
<1>3. Decides(e, Line(ByIP(d), c, t), p) = IF p.dev = d /\ ~p.v6 /\ CondOK(c, p) THEN Goes(e, t, p) ELSE Empty
  BY DecidesIP
<1>4. Decides(e, Line(ByUser(d), c, t), p) = IF p.dev = d /\ p.v6 /\ CondOK(c, p) THEN Goes(e, t, p) ELSE Empty
  BY DecidesUser
<1>5. Decides(e, Line(ByIP(d), c, t), V4(p)) = IF p.dev = d /\ CondOK(c, p) THEN Goes(e, t, p) ELSE Empty
  <2>1. /\ V4(p).dev = p.dev /\ ~V4(p).v6 /\ Goes(e, t, V4(p)) = Goes(e, t, p)
        /\ CondOK(c, V4(p)) <=> CondOK(c, p)
    BY V4Is
  <2>2. Decides(e, Line(ByIP(d), c, t), V4(p)) =
          IF V4(p).dev = d /\ ~V4(p).v6 /\ CondOK(c, V4(p)) THEN Goes(e, t, V4(p)) ELSE Empty
    BY DecidesIP
  <2> QED BY <2>1, <2>2
<1>6. p.v6 \in BOOLEAN
  BY DEF IsPacket
<1> QED BY <1>1, <1>2, <1>3, <1>4, <1>5, <1>6

LEMMA OwnedSays ==
  ASSUME NEW d, NEW lines, Owned(d, lines), NEW e, NEW p, IsPacket(p)
  PROVE  Says(e, p, lines) = IF p.v6 THEN Empty ELSE Says(e, V4(p), lines)
<1>1. ASSUME NEW i \in DOMAIN lines
      PROVE  Decides(e, lines[i], p) = IF p.v6 THEN Empty ELSE Decides(e, lines[i], V4(p))
  <2> DEFINE l == lines[i]
  <2>1. l \in Range(lines)
    BY DEF Range
  <2> HIDE DEF l
  <2>2. IsOwned(d, l)
    BY <2>1 DEF Owned
  <2>3. Decides(e, l, p) = (IF p.v6 THEN Empty ELSE Decides(e, l, V4(p)))
    BY <2>2, OwnedDecides
  <2> QED BY <2>3 DEF l
<1>2. CASE p.v6
  <2>1. \A i \in DOMAIN lines : Decides(e, lines[i], p) = Empty
    BY <1>1, <1>2
  <2> QED BY <1>2, <2>1 DEF Says, Earliest
<1>3. CASE ~p.v6
  <2>1. \A i \in DOMAIN lines : Decides(e, lines[i], p) = Decides(e, lines[i], V4(p))
    BY <1>1, <1>3
  <2>2. [i \in DOMAIN lines |-> Decides(e, lines[i], p)] = [i \in DOMAIN lines |-> Decides(e, lines[i], V4(p))]
    BY <2>1
  <2> QED BY <1>3, <2>2 DEF Says
<1> QED BY <1>2, <1>3

\* Lines for both identities say the same of a packet by either, if the device has both.
LEMMA TwiceIs ==
  ASSUME NEW w, NEW m, NEW lines, Owned(m.dev, lines), NEW e, NEW p, IsPacket(p), p.v6 => w.v6
  PROVE  /\ IsList(Twice(w, m, lines))
         /\ Says(e, p, Twice(w, m, lines)) = IF p.v6 => m.mac THEN Says(e, V4(p), lines) ELSE Empty
<1>1. CASE ~w.v6 \/ ~m.mac
  <2>1. Twice(w, m, lines) = lines
    BY <1>1 DEF Twice
  <2> QED BY <1>1, <2>1, OwnedSays DEF Owned
<1>2. CASE w.v6 /\ m.mac
  <2> DEFINE n == Len(lines)
             ss == [i \in DOMAIN lines |-> <<lines[i], [lines[i] EXCEPT !.who = ByUser(m.dev)]>>]
  <2>1. Twice(w, m, lines) = FlattenSeq(ss)
    BY <1>2 DEF Twice, Each
  <2>2. n \in Nat /\ DOMAIN lines = 1..n
    BY ListIs DEF Owned
  <2>3. ASSUME NEW i \in 1..n
        PROVE  IsList(ss[i]) /\ Says(e, p, ss[i]) = Decides(e, lines[i], V4(p))
    <3> DEFINE x == lines[i]
               y == ForUser(m.dev, lines[i])
    <3>1. ss[i] = <<x>> \o <<y>>
      BY <2>2 DEF ForUser
    <3>2. x \in Range(lines)
      BY <2>2 DEF Range
    <3>3. Decides(e, x, p) = (IF p.v6 THEN Empty ELSE Decides(e, x, V4(p)))
          /\ Decides(e, y, p) = (IF p.v6 THEN Decides(e, x, V4(p)) ELSE Empty)
      BY <3>2, OwnedDecides DEF Owned
    <3> HIDE DEF x, y, ss
    <3>4. IsList(<<x>> \o <<y>>) /\ Says(e, p, <<x>> \o <<y>>) = Or(Decides(e, x, p), Decides(e, y, p))
      BY ShortList, JoinedList, JoinedSays, SaysOne
    <3>5. Or(Decides(e, x, p), Decides(e, y, p)) = Decides(e, x, V4(p))
      BY <3>3 DEF Or
    <3> QED BY <3>1, <3>4, <3>5 DEF x
  <2>4. AreLists(ss, n)
    <3>1. DOMAIN ss = 1..n /\ IsMap(ss)
      BY <2>2 DEF IsMap
    <3> HIDE DEF ss
    <3> QED BY <2>2, <2>3, <3>1 DEF AreLists
  <2> HIDE DEF ss
  <2>5. Says(e, p, FlattenSeq(ss)) = Earliest(SaysEach(e, p, ss)) /\ DOMAIN ss = 1..n
    BY <2>4, FlattenedSays DEF AreLists
  <2>6. SaysEach(e, p, ss) = [i \in DOMAIN lines |-> Decides(e, lines[i], V4(p))]
    BY <2>2, <2>3, <2>5 DEF SaysEach
  <2>7. Says(e, p, FlattenSeq(ss)) = Says(e, V4(p), lines)
    BY <2>5, <2>6 DEF Says
  <2>8. IsList(FlattenSeq(ss))
    BY <2>4, FlattenedList
  <2> QED BY <1>2, <2>1, <2>7, <2>8
<1>3. (w.v6 /\ m.mac) \/ ~w.v6 \/ ~m.mac
  OBVIOUS
<1> QED BY <1>1, <1>2, <1>3

(***************************************************************************)
(* A finite set as a list, and the variants of a rule.                     *)
(***************************************************************************)
LEMMA SetAsList ==
  ASSUME NEW S, IsFiniteSet(S)
  PROVE  IsList(SetToSeq(S)) /\ Range(SetToSeq(S)) = S
<1> DEFINE n == Cardinality(S)
           f == SetToSeq(S)
<1>1. n \in Nat /\ \E g : g \in Bijection(1..n, S)
  BY FS_CardinalityType DEF ExistsBijection
<1>2. \E g \in [1..n -> S] : IsInjective(g)
  BY <1>1 DEF Bijection, Injection
<1>3. f \in [1..n -> S] /\ IsInjective(f)
  BY <1>2 DEF SetToSeq
<1>4. f \in Surjection(1..n, S)
  <2>1. f \in Injection(1..n, S)
    BY <1>3 DEF Injection
  <2>2. Cardinality(1..n) = n
    BY <1>1, FS_Interval
  <2> HIDE DEF f
  <2>3. Cardinality(1..n) = Cardinality(S) <=> f \in Surjection(1..n, S)
    BY <2>1, FS_Injection
  <2> QED BY <2>2, <2>3
<1>5. Range(f) = S
  BY <1>3, <1>4 DEF Surjection, Range
<1>6. f \in Seq(S)
  <2> HIDE DEF f, n
  <2> QED BY <1>1, <1>3
<1> QED BY <1>5, <1>6, ListOf

LEMMA DimensionIs ==
  ASSUME NEW s, NEW T, IsFiniteSet(T), s \subseteq T
  PROVE  IsFiniteSet(Dimension(s))
<1>1. IsFiniteSet(s) /\ IsFiniteSet({Empty})
  BY FS_Subset, FS_Singleton
<1> QED BY <1>1 DEF Dimension

LEMMA FinitePlaces == IsFiniteSet(Places) /\ IsFiniteSet({"tcp", "udp"})
<1>1. IsFiniteSet({"lan"}) /\ IsFiniteSet({"tcp"})
  BY FS_Singleton
<1>2. IsFiniteSet({"lan"} \cup {"tail"}) /\ IsFiniteSet({"tcp"} \cup {"udp"})
  BY <1>1, FS_AddElement
<1>3. IsFiniteSet(({"lan"} \cup {"tail"}) \cup {"media"})
  BY <1>2, FS_AddElement
<1>4. IsFiniteSet((({"lan"} \cup {"tail"}) \cup {"media"}) \cup {"web"})
  BY <1>3, FS_AddElement
<1>5. (({"lan"} \cup {"tail"}) \cup {"media"}) \cup {"web"} = Places /\ {"tcp"} \cup {"udp"} = {"tcp", "udp"}
  BY DEF Places
<1> QED BY <1>2, <1>4, <1>5

IsMatch(m) == m.dst \subseteq Places /\ m.sets \subseteq Places /\ m.proto \subseteq {"tcp", "udp"}

\* The variants of a rule, one per protocol, place and port, match what the rule does.
LEMMA VariantsAre ==
  ASSUME NEW m, IsMatch(m)
  PROVE  /\ IsList(Variants(m))
         /\ \A v : v \in Range(Variants(m)) <=>
                \E a \in Dimension(m.dst), b \in Dimension(m.proto), c \in Dimension(m.sets) :
                    v = [dst |-> a, proto |-> b, set |-> c]
<1> DEFINE A == Dimension(m.dst)
           B == Dimension(m.proto)
           C == Dimension(m.sets)
           V == {[dst |-> a, proto |-> b, set |-> c] : a \in A, b \in B, c \in C}
           D == A \X (B \X C)
           f == [x \in D |-> [dst |-> x[1], proto |-> x[2][1], set |-> x[2][2]]]
<1>1. IsFiniteSet(A) /\ IsFiniteSet(B) /\ IsFiniteSet(C)
  BY DimensionIs, FinitePlaces DEF IsMatch
<1> HIDE DEF A, B, C
<1>2. IsFiniteSet(B \X C)
  BY <1>1, FS_Product
<1>3. IsFiniteSet(D)
  BY <1>1, <1>2, FS_Product
<1>4. f \in [D -> V]
  OBVIOUS
<1>5. ASSUME NEW v \in V PROVE \E x \in D : f[x] = v
  <2>1. PICK a \in A, b \in B, c \in C : v = [dst |-> a, proto |-> b, set |-> c]
    OBVIOUS
  <2>2. <<a, <<b, c>>>> \in D /\ f[<<a, <<b, c>>>>] = v
    BY <2>1
  <2> HIDE DEF f, D
  <2> QED BY <2>2
<1>6. f \in Surjection(D, V)
  <2> HIDE DEF f, D, V
  <2> QED BY <1>4, <1>5 DEF Surjection
<1>7. IsFiniteSet(V)
  <2> HIDE DEF f, D, V
  <2> QED BY <1>3, <1>6, FS_Surjection
<1>8. Variants(m) = SetToSeq(V)
  BY DEF Variants, A, B, C
<1>9. \A v : v \in V <=> \E a \in A, b \in B, c \in C : v = [dst |-> a, proto |-> b, set |-> c]
  OBVIOUS
<1> HIDE DEF V
<1>10. IsList(Variants(m)) /\ Range(Variants(m)) = V
  BY <1>7, <1>8, SetAsList
<1> QED BY <1>9, <1>10 DEF A, B, C

MatchSays(m, p) ==
    /\ m.dst = {} \/ p.dst \in m.dst
    /\ m.proto = {} \/ p.proto \in m.proto
    /\ m.sets = {} \/ p.dst \in m.sets

\* ruleVariants: an AND of the fields that are given, an OR within each.
LEMMA VariantsSay ==
  ASSUME NEW m, IsMatch(m), NEW p, IsPacket(p)
  PROVE  MatchSays(m, p) <=> \E v \in Range(Variants(m)) : CondOK(v, p)
<1>1. p.dst \in Places /\ p.proto \in {"tcp", "udp"} /\ Empty \notin Places /\ Empty \notin {"tcp", "udp"}
  BY DEF IsPacket, Places, Empty
<1>2. ASSUME NEW s, NEW T, s \subseteq T, Empty \notin T, NEW x \in T
      PROVE  (s = {} \/ x \in s) <=> \E a \in Dimension(s) : a \in {Empty, x}
  BY <1>2 DEF Dimension
<1>3. (m.dst = {} \/ p.dst \in m.dst) <=> \E a \in Dimension(m.dst) : a \in {Empty, p.dst}
  BY <1>1, <1>2 DEF IsMatch
<1>4. (m.proto = {} \/ p.proto \in m.proto) <=> \E a \in Dimension(m.proto) : a \in {Empty, p.proto}
  <2> DEFINE T == {"tcp", "udp"}
  <2>1. m.proto \subseteq T /\ Empty \notin T /\ p.proto \in T
    BY <1>1 DEF IsMatch
  <2> HIDE DEF T
  <2> QED BY <1>2, <2>1
<1>5. (m.sets = {} \/ p.dst \in m.sets) <=> \E a \in Dimension(m.sets) : a \in {Empty, p.dst}
  BY <1>1, <1>2 DEF IsMatch
<1>6. \A a, b, c : CondOK([dst |-> a, proto |-> b, set |-> c], p) <=>
                     a \in {Empty, p.dst} /\ b \in {Empty, p.proto} /\ c \in {Empty, p.dst}
  BY DEF CondOK
<1>7. ASSUME NEW v \in Range(Variants(m)), CondOK(v, p) PROVE MatchSays(m, p)
  <2>1. PICK a \in Dimension(m.dst), b \in Dimension(m.proto), c \in Dimension(m.sets) :
           v = [dst |-> a, proto |-> b, set |-> c]
    BY VariantsAre
  <2>2. a \in {Empty, p.dst} /\ b \in {Empty, p.proto} /\ c \in {Empty, p.dst}
    BY <1>6, <1>7, <2>1
  <2> QED BY <1>3, <1>4, <1>5, <2>2 DEF MatchSays
<1>8. ASSUME MatchSays(m, p) PROVE \E v \in Range(Variants(m)) : CondOK(v, p)
  <2>1. PICK a \in Dimension(m.dst) : a \in {Empty, p.dst}
    BY <1>3, <1>8 DEF MatchSays
  <2>2. PICK b \in Dimension(m.proto) : b \in {Empty, p.proto}
    BY <1>4, <1>8 DEF MatchSays
  <2>3. PICK c \in Dimension(m.sets) : c \in {Empty, p.dst}
    BY <1>5, <1>8 DEF MatchSays
  <2> DEFINE v == [dst |-> a, proto |-> b, set |-> c]
  <2>4. CondOK(v, p)
    BY <1>6, <2>1, <2>2, <2>3
  <2>5. v \in Range(Variants(m))
    BY VariantsAre
  <2> HIDE DEF v
  <2> QED BY <2>4, <2>5
<1> QED BY <1>7, <1>8

(***************************************************************************)
(* A target and what follows it, for the lines of a device.                *)
(***************************************************************************)
\* A target of a line that runs carries a name.
Names(e, to) == Outbound(e, to) # Empty

\* A target followed by REJECT says the target if it can carry the packet and else rejects.
LEMMA OrRejectIs ==
  ASSUME NEW d, NEW cond, NEW to, NEW unsupported, NEW e, NEW p, p.dev = d, ~p.v6, Names(e, to)
  PROVE  /\ Owned(d, OrReject(d, cond, to, unsupported))
         /\ Says(e, p, OrReject(d, cond, to, unsupported)) =
                IF CondOK(cond, p) THEN By(e, to, unsupported, p) ELSE Empty
<1> DEFINE x == Line(ByIP(d), cond, to)
           y == Line(ByIP(d), cond, To("REJECT"))
           more == unsupported = "reject" /\ (to.dev # "none" \/ to.slot \notin Builtin)
           tail == IF more THEN <<y>> ELSE <<>>
<1>1. OrReject(d, cond, to, unsupported) = <<x>> \o tail
  BY DEF OrReject
<1>2. IsOwned(d, x) /\ IsOwned(d, y)
  BY DEF IsOwned, Line
<1>3. Decides(e, x, p) = (IF CondOK(cond, p) THEN Goes(e, to, p) ELSE Empty)
      /\ Decides(e, y, p) = (IF CondOK(cond, p) THEN "REJECT" ELSE Empty)
  BY DecidesIP, FixedTargets
<1> HIDE DEF x, y, more
<1>4. IsList(<<x>>) /\ IsList(tail) /\ \A l \in Range(tail) : l = y
  BY ShortList
<1>5. Says(e, p, tail) = IF more THEN Decides(e, y, p) ELSE Empty
  BY SaysOne, SaysNothing
<1>6. Says(e, p, <<x>>) = Decides(e, x, p)
  BY SaysOne
<1> HIDE DEF tail
<1>7. Says(e, p, <<x>> \o tail) = Or(Decides(e, x, p), Says(e, p, tail))
  BY <1>4, <1>6, JoinedSays
<1>8. Owned(d, <<x>> \o tail)
  BY <1>2, <1>4, ShortList, JoinedList DEF Owned
<1>9. ~more => unsupported # "reject" \/ Takes(e, to, p)
  <2>1. ASSUME to.dev = "none", to.slot \in Builtin PROVE Takes(e, to, p)
    BY <2>1, RoutingAssumption DEF Takes, Outbound, Builtin, Carries
  <2> QED BY <2>1 DEF more
<1>10. "REJECT" # Empty
  BY DEF Empty
<1>11. Or(Decides(e, x, p), Says(e, p, tail)) = IF CondOK(cond, p) THEN By(e, to, unsupported, p) ELSE Empty
  <2>1. CASE ~CondOK(cond, p)
    BY <1>3, <1>5, <2>1 DEF Or
  <2>2. CASE CondOK(cond, p) /\ Takes(e, to, p)
    BY <1>3, <2>2 DEF Or, By, Goes, Names
  <2>3. CASE CondOK(cond, p) /\ ~Takes(e, to, p)
    <3>1. Decides(e, x, p) = Empty
      BY <1>3, <2>3 DEF Goes
    <3>2. Or(Decides(e, x, p), Says(e, p, tail)) = IF more THEN "REJECT" ELSE Empty
      BY <1>3, <1>5, <2>3, <3>1 DEF Or
    <3>3. more <=> unsupported = "reject"
      BY <1>9, <2>3 DEF more
    <3> QED BY <2>3, <3>2, <3>3 DEF By
  <2> QED BY <2>1, <2>2, <2>3
<1> QED BY <1>1, <1>7, <1>8, <1>11

\* The lines of a rule of a device decide exactly what the rule is for.
LEMMA RuleLinesAre ==
  ASSUME NEW d, NEW r, IsMatch(r.match), NEW to, NEW unsupported,
         NEW e, NEW p, IsPacket(p), p.dev = d, ~p.v6, Names(e, to)
  PROVE  /\ Owned(d, RuleLines(d, r, to, unsupported))
         /\ Says(e, p, RuleLines(d, r, to, unsupported)) =
                IF MatchSays(r.match, p) THEN By(e, to, unsupported, p) ELSE Empty
<1> DEFINE vs == Variants(r.match)
           n == Len(vs)
           ss == [i \in DOMAIN vs |-> OrReject(d, vs[i], to, unsupported)]
           v == By(e, to, unsupported, p)
<1>1. RuleLines(d, r, to, unsupported) = FlattenSeq(ss)
  BY DEF RuleLines, Each
<1>2. n \in Nat /\ DOMAIN vs = 1..n
  BY VariantsAre, ListIs
<1>3. ASSUME NEW i \in 1..n
      PROVE  /\ Owned(d, ss[i])
             /\ Says(e, p, ss[i]) = IF CondOK(vs[i], p) THEN v ELSE Empty
  <2>1. ss[i] = OrReject(d, vs[i], to, unsupported)
    BY <1>2
  <2> HIDE DEF ss, vs
  <2> QED BY <2>1, OrRejectIs
<1>4. AreLists(ss, n)
  <2>1. DOMAIN ss = 1..n /\ IsMap(ss)
    BY <1>2 DEF IsMap
  <2> HIDE DEF ss
  <2> QED BY <1>2, <1>3, <2>1 DEF AreLists, Owned
<1>5. DOMAIN ss = 1..n
  BY <1>4 DEF AreLists
<1> HIDE DEF ss
<1>6. Owned(d, FlattenSeq(ss))
  BY <1>3, <1>4, FlattenedList DEF Owned
<1>7. Says(e, p, FlattenSeq(ss)) = Earliest(SaysEach(e, p, ss))
  BY <1>4, FlattenedSays
<1> DEFINE ds == SaysEach(e, p, ss)
<1>8. DOMAIN ds = 1..n /\ \A i \in 1..n : ds[i] = IF CondOK(vs[i], p) THEN v ELSE Empty
  BY <1>3, <1>5 DEF SaysEach
<1>9. MatchSays(r.match, p) <=> \E i \in 1..n : CondOK(vs[i], p)
  <2>1. MatchSays(r.match, p) <=> \E x \in Range(vs) : CondOK(x, p)
    BY VariantsSay
  <2> HIDE DEF vs
  <2> QED BY <1>2, <2>1 DEF Range
<1> HIDE DEF ds, v, vs
<1>10. Earliest(ds) = IF \E i \in 1..n : ds[i] = v THEN v ELSE Empty
  BY <1>2, <1>8, EarliestAlike
<1>11. Earliest(ds) = IF MatchSays(r.match, p) THEN v ELSE Empty
  BY <1>8, <1>9, <1>10
<1> QED BY <1>1, <1>6, <1>7, <1>11 DEF ds, v

(***************************************************************************)
(* An engine that runs a compiled document.                                *)
(***************************************************************************)
Bundle(set, w, res) == CompilePolicySet(set, w, res)

\* An engine runs the rules compiled from a document under a resolution of its
\* groups, and each of its groups has one of its candidates selected.
Fits(e, set, w, res) ==
    /\ IsDocument(set) /\ IsWorld(w) /\ ~res.all /\ res.avail = Offers(w)
    /\ e.doc = set /\ e.world = w /\ e.rules = Rendered(w, Bundle(set, w, res))
    /\ \A g \in Groups(Bundle(set, w, res)) : g.name \in DOMAIN e.sel /\ e.sel[g.name] \in Range(g.of)
    /\ \A n \in DOMAIN e.sel : n.dev \in Devices => \E g \in Groups(Bundle(set, w, res)) : g.name = n
    /\ \A g \in MacGroups(w) : g.name \in DOMAIN e.sel /\ e.sel[g.name] \in Range(g.of)

LEMMA AvailableIs ==
  ASSUME NEW e, NEW set, NEW w, NEW res, Fits(e, set, w, res), NEW t
  PROVE  /\ Available(res, t) <=> t \in Builtin \cup Offers(w)
         /\ Available(res, t) => t \notin Inner /\ t # Empty
<1>1. Available(res, t) <=> t \in Builtin \cup Offers(w)
  BY DEF Fits, Available
<1>2. t \in Builtin \cup Offers(w) => t \notin Inner
  BY DEF Fits, IsWorld, Offers, Builtin, Inner, Exit, Empty
<1>3. t \notin Inner => t # Empty
  BY DEF Inner
<1> QED BY <1>1, <1>2, <1>3

LEMMA GroupNames ==
  ASSUME NEW e, NEW set, NEW w, NEW res, Fits(e, set, w, res), NEW g \in Groups(Bundle(set, w, res))
  PROVE  Names(e, g.name)
<1>1. /\ g = [name |-> g.name, of |-> Candidates(res, g.name, Named(set, g.name))]
      /\ IsTargets(Named(set, g.name)) /\ Named(set, g.name) # <<>> /\ g.name.dev \in Devices
  BY GroupIsNamed, GroupsOfDevices DEF Fits, Bundle
<1>2. g.of = Candidates(res, g.name, Named(set, g.name))
  BY <1>1
<1>3. e.sel[g.name] \in Range(g.of)
  BY DEF Fits
<1>4. Available(res, e.sel[g.name])
  BY <1>1, <1>2, <1>3, CandidatesAre
<1>5. e.sel[g.name] # "global" /\ e.sel[g.name] # Empty
  BY <1>4, AvailableIs DEF Inner
<1>6. g.name.dev # "none"
  BY <1>1 DEF Devices
<1> QED BY <1>5, <1>6 DEF Names, Outbound

LEMMA OutletNames ==
  ASSUME NEW w, IsWorld(w)
  PROVE  IsList(Outlets(w)) /\ \A t \in Range(Outlets(w)) : t # Empty
<1>1. IsList(SetToSeq(w.offered)) /\ Range(SetToSeq(w.offered)) = w.offered
  BY SetAsList DEF IsWorld
<1> DEFINE tail == IF w.ts.on /\ w.ts.exit /\ w.ts.mac THEN <<Exit>> ELSE <<>>
<1>2. IsList(tail) /\ \A t \in Range(tail) : t = Exit
  BY ShortList
<1>3. Outlets(w) = SetToSeq(w.offered) \o tail
  BY DEF Outlets
<1> HIDE DEF tail
<1>4. Exit # Empty /\ Empty \notin w.offered
  BY DEF Exit, Empty, IsWorld, Inner
<1> QED BY <1>1, <1>2, <1>3, <1>4, JoinedList

LEMMA MacNamesName ==
  ASSUME NEW e, NEW set, NEW w, NEW res, Fits(e, set, w, res)
  PROVE  Names(e, TCP) /\ Names(e, UDP)
<1> DEFINE outlets == Outlets(w)
           too == IF outlets = <<>> THEN <<>> ELSE <<"global">>
           a == [name |-> TCP, of |-> <<"PASS", "DIRECT">> \o too]
           b == [name |-> UDP, of |-> <<"PASS", "DIRECT", "REJECT">> \o too]
           c == [name |-> GLOBAL, of |-> outlets]
<1>1. /\ a \in MacGroups(w) /\ b \in MacGroups(w)
      /\ outlets # <<>> => c \in MacGroups(w)
  BY DEF MacGroups
<1>2. a.name = TCP /\ b.name = UDP /\ c.name = GLOBAL /\ c.of = outlets
      /\ a.of = <<"PASS", "DIRECT">> \o too /\ b.of = <<"PASS", "DIRECT", "REJECT">> \o too
  OBVIOUS
<1>3. \A t : t \in Range(a.of) \cup Range(b.of) =>
             t \in {"PASS", "DIRECT", "REJECT"} \/ (t = "global" /\ outlets # <<>>)
  <2>1. IsList(too) /\ \A t \in Range(too) : t = "global" /\ outlets # <<>>
    BY ShortList
  <2> HIDE DEF too
  <2> DEFINE x == <<"PASS", "DIRECT">>
             y == <<"PASS", "DIRECT", "REJECT">>
  <2>2. /\ x \in Seq({"PASS", "DIRECT"}) /\ DOMAIN x = 1..2 /\ x[1] = "PASS" /\ x[2] = "DIRECT"
        /\ y \in Seq({"PASS", "DIRECT", "REJECT"}) /\ DOMAIN y = 1..3
        /\ y[1] = "PASS" /\ y[2] = "DIRECT" /\ y[3] = "REJECT"
    OBVIOUS
  <2>3. a.of = x \o too /\ b.of = y \o too
    BY <1>2
  <2>4. IsList(x) /\ Range(x) = {"PASS", "DIRECT"} /\ IsList(y) /\ Range(y) = {"PASS", "DIRECT", "REJECT"}
        /\ a.of = x \o too /\ b.of = y \o too
    <3> HIDE DEF x, y, a, b
    <3>1. IsList(x) /\ IsList(y)
      BY <2>2, ListOf
    <3>2. Range(x) = {"PASS", "DIRECT"}
      BY <2>2 DEF Range
    <3>3. Range(y) = {"PASS", "DIRECT", "REJECT"}
      BY <2>2 DEF Range
    <3> QED BY <2>3, <3>1, <3>2, <3>3
  <2> HIDE DEF x, y, a, b
  <2>5. \A t : t \in Range(x \o too) <=> t \in Range(x) \/ t \in Range(too)
    BY <2>1, <2>4, JoinedList
  <2>6. \A t : t \in Range(y \o too) <=> t \in Range(y) \/ t \in Range(too)
    BY <2>1, <2>4, JoinedList
  <2> QED BY <2>1, <2>4, <2>5, <2>6
<1> HIDE DEF a, b, c, too
<1>4. /\ e.sel[TCP] \in Range(a.of) /\ e.sel[UDP] \in Range(b.of)
      /\ outlets # <<>> => e.sel[GLOBAL] \in Range(outlets)
  BY <1>1, <1>2 DEF Fits
<1>5. outlets # <<>> => e.sel[GLOBAL] # Empty
  BY <1>4, OutletNames DEF Fits
<1>6. \A t : t \in {"PASS", "DIRECT", "REJECT"} => t # Empty
  BY DEF Empty
<1> HIDE DEF outlets
<1>7. TCP.dev # "none" /\ UDP.dev # "none"
  BY DEF TCP, UDP, Group
<1>8. Names(e, TCP)
  BY <1>3, <1>4, <1>5, <1>6, <1>7 DEF Names, Outbound
<1>9. Names(e, UDP)
  BY <1>3, <1>4, <1>5, <1>6, <1>7 DEF Names, Outbound
<1> QED BY <1>8, <1>9

\* Where a rule of a device leads, and whether it is there.
LEMMA RuleIsThere ==
  ASSUME NEW e, NEW set, NEW w, NEW res, Fits(e, set, w, res),
         NEW d \in Devices, Active(set, w, d), Open(set, d), NEW r \in Range(Rules(set, d))
  PROVE  /\ RuleKept(res, d, r) <=> IF r.policies # <<>> THEN Group(d, r.id) \in DOMAIN e.sel
                                    ELSE r.action \in Builtin \cup Offers(w)
         /\ RuleKept(res, d, r) => Names(e, RuleTarget(d, r))
<1> DEFINE n == Group(d, r.id)
           g == [name |-> n, of |-> Candidates(res, n, r.policies)]
<1>1. CASE r.policies = <<>>
  <2>1. RuleKept(res, d, r) <=> Available(res, r.action)
    BY <1>1 DEF RuleKept
  <2>2. To(r.action).dev = "none" /\ To(r.action).slot = r.action /\ RuleTarget(d, r) = To(r.action)
    BY <1>1 DEF To, RuleTarget
  <2>3. Available(res, r.action) => Names(e, To(r.action))
    BY <2>2, AvailableIs DEF Names, Outbound
  <2> QED BY <1>1, <2>1, <2>2, <2>3, AvailableIs
<1>2. CASE r.policies # <<>>
  <2>1. RuleTarget(d, r) = n
    BY <1>2 DEF RuleTarget
  <2>2. ASSUME RuleKept(res, d, r) PROVE n \in DOMAIN e.sel /\ Names(e, n)
    <3>1. g \in Compiled(set, res, d).groups
      BY <1>2, <2>2, CompiledGroups
    <3>2. g.name = n
      OBVIOUS
    <3> HIDE DEF g, n
    <3>3. g \in Groups(Bundle(set, w, res))
      BY <3>1, GroupsAre DEF Bundle
    <3> QED BY <3>2, <3>3, GroupNames DEF Fits
  <2>3. ASSUME n \in DOMAIN e.sel PROVE RuleKept(res, d, r)
    <3>1. n.dev = d /\ n.slot = r.id
      BY DEF Group
    <3>2. PICK h \in Groups(Bundle(set, w, res)) : h.name = n
      BY <2>3, <3>1 DEF Fits
    <3>3. h \in Compiled(set, res, d).groups
      BY <3>1, <3>2, GroupsOfDevices DEF Bundle
    <3>0. \A x, o : [name |-> x, of |-> o].name = x
      OBVIOUS
    <3>4. \/ \E q \in Range(Rules(set, d)) :
               /\ RuleKept(res, d, q) /\ q.policies # <<>>
               /\ h = [name |-> Group(d, q.id), of |-> Candidates(res, Group(d, q.id), q.policies)]
          \/ h = [name |-> Group(d, "default"), of |-> Base(set, res, d)]
      BY <3>3, CompiledGroups
    <3>5. CASE h = [name |-> Group(d, "default"), of |-> Base(set, res, d)]
      <4>1. h.name = Group(d, "default")
        BY <3>0, <3>5, Zenon
      <4>2. r.id = "default"
        BY <3>1, <3>2, <4>1 DEF Group
      <4> QED BY <4>2, NamedRule DEF Fits
    <3>6. CASE \E q \in Range(Rules(set, d)) :
               /\ RuleKept(res, d, q) /\ q.policies # <<>>
               /\ h = [name |-> Group(d, q.id), of |-> Candidates(res, Group(d, q.id), q.policies)]
      <4>1. PICK q \in Range(Rules(set, d)) :
               /\ RuleKept(res, d, q)
               /\ h = [name |-> Group(d, q.id), of |-> Candidates(res, Group(d, q.id), q.policies)]
        BY <3>6
      <4>2. h.name = Group(d, q.id)
        BY <3>0, <4>1, Zenon
      <4>3. q.id = r.id
        BY <3>1, <3>2, <4>2 DEF Group
      <4>4. q = r
        BY <4>3, DocumentRules DEF Fits
      <4> QED BY <4>1, <4>4
    <3> QED BY <3>4, <3>5, <3>6, Zenon
  <2> HIDE DEF n
  <2>4. RuleKept(res, d, r) <=> n \in DOMAIN e.sel
    BY <2>2, <2>3
  <2> QED BY <1>2, <2>1, <2>2, <2>4 DEF n
<1> QED BY <1>1, <1>2

\* A device has a default group exactly if its mode is one that can be carried out.
LEMMA DefaultIsThere ==
  ASSUME NEW e, NEW set, NEW w, NEW res, Fits(e, set, w, res),
         NEW d \in Devices, Active(set, w, d), Open(set, d)
  PROVE  /\ Group(d, "default") \in DOMAIN e.sel <=> Mode(set, res, d) # "inherit_global"
         /\ Group(d, "default") \in DOMAIN e.sel => Names(e, Group(d, "default"))
         /\ Mode(set, res, d) = IF Group(d, "default") \in DOMAIN e.sel THEN set[d].mode ELSE "inherit_global"
<1> DEFINE n == Group(d, "default")
           g == [name |-> n, of |-> Base(set, res, d)]
<1>1. ASSUME Mode(set, res, d) # "inherit_global" PROVE n \in DOMAIN e.sel /\ Names(e, n)
  <2>1. g \in Compiled(set, res, d).groups
    BY <1>1, CompiledGroups
  <2>2. g.name = n
    OBVIOUS
  <2> HIDE DEF g, n
  <2>3. g \in Groups(Bundle(set, w, res))
    BY <2>1, GroupsAre DEF Bundle
  <2> QED BY <2>2, <2>3, GroupNames DEF Fits
<1>2. ASSUME n \in DOMAIN e.sel PROVE Mode(set, res, d) # "inherit_global"
  <2>1. n.dev = d /\ n.slot = "default"
    BY DEF Group
  <2>2. PICK h \in Groups(Bundle(set, w, res)) : h.name = n
    BY <1>2, <2>1 DEF Fits
  <2>3. h \in Compiled(set, res, d).groups
    BY <2>1, <2>2, GroupsOfDevices DEF Bundle
  <2>4. ASSUME NEW q \in Range(Rules(set, d)),
               h = [name |-> Group(d, q.id), of |-> Candidates(res, Group(d, q.id), q.policies)]
        PROVE  FALSE
    <3>1. h.name = Group(d, q.id)
      BY <2>4
    <3>2. q.id = "default"
      BY <2>1, <2>2, <3>1 DEF Group
    <3> QED BY <3>2, NamedRule DEF Fits
  <2> QED BY <2>3, <2>4, CompiledGroups
<1> HIDE DEF n
<1>3. Mode(set, res, d) # "inherit_global" => Mode(set, res, d) = set[d].mode
  BY DEF Mode
<1>4. /\ n \in DOMAIN e.sel <=> Mode(set, res, d) # "inherit_global"
      /\ n \in DOMAIN e.sel => Names(e, n)
      /\ Mode(set, res, d) = IF n \in DOMAIN e.sel THEN set[d].mode ELSE "inherit_global"
  BY <1>1, <1>2, <1>3
<1> QED BY <1>4 DEF n

(***************************************************************************)
(* The lines compiled for a device, and what they do with its packets.     *)
(***************************************************************************)
Reason(set, d, r) == Unsupported(r.unsupported, Resolved(set[d].profile).unsupported)
LastReason(set, d) == Unsupported(Empty, Resolved(set[d].profile).unsupported)
LinesOfRule(set, res, d, r) ==
    IF RuleKept(res, d, r) THEN RuleLines(d, r, RuleTarget(d, r), Reason(set, d, r)) ELSE <<>>
LinesOfRules(set, res, d) == [i \in DOMAIN Rules(set, d) |-> LinesOfRule(set, res, d, Rules(set, d)[i])]
LastLines(set, d) == OrReject(d, Anything, Group(d, "default"), LastReason(set, d))

LEMMA CompiledLines ==
  ASSUME NEW set, NEW res, NEW d
  PROVE  /\ Compiled(set, res, d).override =
               IF Open(set, d) THEN FlattenSeq(LinesOfRules(set, res, d)) ELSE <<>>
         /\ Compiled(set, res, d).dedicated =
               IF Open(set, d) /\ Mode(set, res, d) = "dedicated" THEN LastLines(set, d) ELSE <<>>
         /\ Compiled(set, res, d).defaults =
               IF Open(set, d) /\ Mode(set, res, d) = "legacy_fallback" THEN LastLines(set, d) ELSE <<>>
<1> DEFINE rules == Rules(set, d)
           kept == {r \in Range(rules) : RuleKept(res, d, r)}
           f == [i \in DOMAIN rules |-> IF rules[i] \notin kept THEN <<>>
                    ELSE RuleLines(d, rules[i], RuleTarget(d, rules[i]), Reason(set, d, rules[i]))]
<1>1. Compiled(set, res, d).override = IF Open(set, d) THEN FlattenSeq(f) ELSE <<>>
  BY DEF Compiled, Open, Rules, Each, Reason
<1>2. ASSUME NEW i \in DOMAIN rules PROVE rules[i] \in kept <=> RuleKept(res, d, rules[i])
  BY DEF Range
<1>3. f = LinesOfRules(set, res, d)
  <2> HIDE DEF kept
  <2> QED BY <1>2 DEF LinesOfRules, LinesOfRule
<1>4. /\ Compiled(set, res, d).dedicated =
               IF Open(set, d) /\ Mode(set, res, d) = "dedicated" THEN LastLines(set, d) ELSE <<>>
      /\ Compiled(set, res, d).defaults =
               IF Open(set, d) /\ Mode(set, res, d) = "legacy_fallback" THEN LastLines(set, d) ELSE <<>>
  BY DEF Compiled, Open, Mode, Base, Defaults, LastLines, LastReason
<1> HIDE DEF f
<1> QED BY <1>1, <1>3, <1>4

LEMMA NoLines ==
  ASSUME NEW d, NEW e, NEW p
  PROVE  Owned(d, <<>>) /\ Says(e, p, <<>>) = Empty
BY ShortList, SaysNothing DEF Owned

LEMMA RuleLinesSay ==
  ASSUME NEW e, NEW set, NEW w, NEW res, Fits(e, set, w, res),
         NEW d \in Devices, Active(set, w, d), Open(set, d), NEW r \in Range(Rules(set, d)),
         NEW p, IsPacket(p), p.dev = d, ~p.v6
  PROVE  /\ Owned(d, LinesOfRule(set, res, d, r))
         /\ Says(e, p, LinesOfRule(set, res, d, r)) = RuleSays(e, d, r, p)
<1>1. IsMatch(r.match)
  <2>1. IsRule(r)
    BY DocumentRules DEF Fits
  <2> QED BY <2>1 DEF IsRule, IsMatch
<1>2. RuleSays(e, d, r, p) =
        IF MatchSays(r.match, p) /\ RuleKept(res, d, r)
        THEN By(e, RuleTarget(d, r), Reason(set, d, r), p) ELSE Empty
  <2>1. RuleKept(res, d, r) <=> IF r.policies # <<>> THEN Group(d, r.id) \in DOMAIN e.sel
                                ELSE r.action \in Builtin \cup Offers(w)
    BY RuleIsThere
  <2>2. e.doc = set /\ e.world = w
    BY DEF Fits
  <2> QED BY <2>1, <2>2, Zenon DEF RuleSays, MatchSays, RuleTarget, Reason
<1>3. CASE ~RuleKept(res, d, r)
  BY <1>2, <1>3, NoLines DEF LinesOfRule
<1>4. CASE RuleKept(res, d, r)
  <2>1. Names(e, RuleTarget(d, r))
    BY <1>4, RuleIsThere
  <2> QED BY <1>1, <1>2, <1>4, <2>1, RuleLinesAre DEF LinesOfRule
<1> QED BY <1>3, <1>4

\* The first lines of a device say what its first rule that decides says.
LEMMA OverrideSays ==
  ASSUME NEW e, NEW set, NEW w, NEW res, Fits(e, set, w, res),
         NEW d \in Devices, Active(set, w, d), NEW p, IsPacket(p), p.dev = d, ~p.v6
  PROVE  /\ Owned(d, Compiled(set, res, d).override)
         /\ Says(e, p, Compiled(set, res, d).override) =
                IF Open(set, d) THEN FirstRule(e, d, Rules(set, d), p) ELSE Empty
<1>1. CASE ~Open(set, d)
  BY <1>1, CompiledLines, NoLines
<1>2. CASE Open(set, d)
  <2> DEFINE rules == Rules(set, d)
             n == Len(rules)
             ss == LinesOfRules(set, res, d)
  <2>1. n \in Nat /\ DOMAIN rules = 1..n
    <3>1. rules \in Seq(Range(rules))
      BY DocumentRules DEF Fits
    <3> QED BY <3>1
  <2>2. DOMAIN ss = 1..n /\ IsMap(ss) /\ \A i \in 1..n : ss[i] = LinesOfRule(set, res, d, rules[i])
    BY <2>1 DEF LinesOfRules, IsMap
  <2> HIDE DEF ss, n
  <2>3. ASSUME NEW i \in 1..n
        PROVE  Owned(d, ss[i]) /\ Says(e, p, ss[i]) = RuleSays(e, d, rules[i], p)
    <3>1. rules[i] \in Range(rules)
      BY <2>1 DEF Range
    <3> QED BY <1>2, <2>2, <3>1, RuleLinesSay
  <2>4. AreLists(ss, n)
    BY <2>1, <2>2, <2>3 DEF AreLists, Owned
  <2>5. Owned(d, FlattenSeq(ss))
    BY <2>3, <2>4, FlattenedList DEF Owned
  <2>6. Says(e, p, FlattenSeq(ss)) = Earliest(SaysEach(e, p, ss))
    BY <2>4, FlattenedSays
  <2>7. SaysEach(e, p, ss) = [i \in DOMAIN rules |-> RuleSays(e, d, rules[i], p)]
    BY <2>1, <2>2, <2>3 DEF SaysEach
  <2>8. Compiled(set, res, d).override = FlattenSeq(ss)
    BY <1>2, CompiledLines DEF ss
  <2> QED BY <1>2, <2>5, <2>6, <2>7, <2>8 DEF FirstRule
<1> QED BY <1>1, <1>2

\* The default group of a device, where it has lines.
DefaultSays(e, set, d, p) == By(e, Group(d, "default"), LastReason(set, d), p)

\* The last lines of a device say its default, before or after the source's, as its mode has it.
LEMMA LastSays ==
  ASSUME NEW e, NEW set, NEW w, NEW res, Fits(e, set, w, res),
         NEW d \in Devices, Active(set, w, d), NEW p, IsPacket(p), p.dev = d, ~p.v6
  PROVE  /\ Owned(d, Compiled(set, res, d).dedicated) /\ Owned(d, Compiled(set, res, d).defaults)
         /\ Says(e, p, Compiled(set, res, d).dedicated) =
                IF Open(set, d) /\ Mode(set, res, d) = "dedicated" THEN DefaultSays(e, set, d, p) ELSE Empty
         /\ Says(e, p, Compiled(set, res, d).defaults) =
                IF Open(set, d) /\ Mode(set, res, d) = "legacy_fallback" THEN DefaultSays(e, set, d, p) ELSE Empty
<1>1. ASSUME Open(set, d), Mode(set, res, d) # "inherit_global"
      PROVE  Owned(d, LastLines(set, d)) /\ Says(e, p, LastLines(set, d)) = DefaultSays(e, set, d, p)
  <2>1. Names(e, Group(d, "default"))
    BY <1>1, DefaultIsThere
  <2>2. CondOK(Anything, p)
    BY CondIs
  <2> QED BY <2>1, <2>2, OrRejectIs DEF LastLines, DefaultSays
<1> DEFINE a == Compiled(set, res, d).dedicated
           b == Compiled(set, res, d).defaults
<1>2. /\ a = IF Open(set, d) /\ Mode(set, res, d) = "dedicated" THEN LastLines(set, d) ELSE <<>>
      /\ b = IF Open(set, d) /\ Mode(set, res, d) = "legacy_fallback" THEN LastLines(set, d) ELSE <<>>
  BY CompiledLines
<1> HIDE DEF a, b
<1>3. /\ Owned(d, a)
      /\ Says(e, p, a) = IF Open(set, d) /\ Mode(set, res, d) = "dedicated" THEN DefaultSays(e, set, d, p) ELSE Empty
  <2>1. CASE Open(set, d) /\ Mode(set, res, d) = "dedicated"
    BY <1>1, <1>2, <2>1
  <2>2. CASE ~(Open(set, d) /\ Mode(set, res, d) = "dedicated")
    BY <1>2, <2>2, NoLines
  <2> QED BY <2>1, <2>2
<1>4. /\ Owned(d, b)
      /\ Says(e, p, b) = IF Open(set, d) /\ Mode(set, res, d) = "legacy_fallback" THEN DefaultSays(e, set, d, p) ELSE Empty
  <2>1. CASE Open(set, d) /\ Mode(set, res, d) = "legacy_fallback"
    BY <1>1, <1>2, <2>1
  <2>2. CASE ~(Open(set, d) /\ Mode(set, res, d) = "legacy_fallback")
    BY <1>2, <2>2, NoLines
  <2> QED BY <2>1, <2>2
<1> QED BY <1>3, <1>4 DEF a, b

(***************************************************************************)
(* What the members of a bundle say together.                              *)
(***************************************************************************)
LEMMA Members ==
  ASSUME NEW set, NEW w, NEW res, NEW b, b = Bundle(set, w, res)
  PROVE  /\ Len(b) \in Nat /\ DOMAIN b = 1..Len(b)
         /\ \A i \in 1..Len(b) : /\ b[i].dev \in Devices /\ Active(set, w, b[i].dev)
                                 /\ b[i] = Compiled(set, res, b[i].dev)
         /\ \A d \in Devices : Active(set, w, d) => \E i \in 1..Len(b) : b[i].dev = d
<1>1. b \in Seq(AllCompiled(set, res))
  BY BundleHas DEF Bundle
<1>2. Len(b) \in Nat /\ DOMAIN b = 1..Len(b)
  BY <1>1
<1>3. \A m : m \in Range(b) <=> \E d \in Devices : Active(set, w, d) /\ m = Compiled(set, res, d)
  BY BundleRange DEF Bundle
<1>4. \A d : Compiled(set, res, d).dev = d
  BY CompiledFields
<1>5. ASSUME NEW i \in 1..Len(b)
      PROVE  b[i].dev \in Devices /\ Active(set, w, b[i].dev) /\ b[i] = Compiled(set, res, b[i].dev)
  <2>1. b[i] \in Range(b)
    BY <1>2 DEF Range
  <2>2. PICK d \in Devices : Active(set, w, d) /\ b[i] = Compiled(set, res, d)
    BY <1>3, <2>1
  <2>3. b[i].dev = d
    BY <1>4, <2>2, Zenon
  <2> QED BY <2>2, <2>3, Zenon
<1>6. ASSUME NEW d \in Devices, Active(set, w, d) PROVE \E i \in 1..Len(b) : b[i].dev = d
  <2>1. Compiled(set, res, d) \in Range(b)
    BY <1>3, <1>6
  <2>2. PICK i \in 1..Len(b) : b[i] = Compiled(set, res, d)
    BY <1>2, <2>1 DEF Range
  <2> QED BY <1>4, <2>2, Zenon
<1> QED BY <1>2, <1>5, <1>6

\* A packet that the rules know by the identity it comes with.
IsKnown(set, w, p) == p.dev \in Devices /\ Active(set, w, p.dev) /\ (p.v6 => set[p.dev].mac)

\* Each of ss is what one member says: v of its own packets, nothing of others.
MembersSay(e, p, set, b, ss, v) ==
    \A i \in 1..Len(b) : Says(e, p, ss[i]) = IF b[i].dev = p.dev /\ (p.v6 => set[p.dev].mac) THEN v ELSE Empty

\* The lines for the devices of a bundle say about a packet what those of its device say.
LEMMA OfBundle ==
  ASSUME NEW set, NEW w, NEW res, NEW b, b = Bundle(set, w, res),
         NEW e, NEW p, NEW v, NEW ss, AreLists(ss, Len(b)), MembersSay(e, p, set, b, ss, v)
  PROVE  /\ IsList(FlattenSeq(ss))
         /\ Says(e, p, FlattenSeq(ss)) = IF IsKnown(set, w, p) THEN v ELSE Empty
<1> DEFINE ds == SaysEach(e, p, ss)
           n == Len(b)
<1>1. IsList(FlattenSeq(ss)) /\ Says(e, p, FlattenSeq(ss)) = Earliest(ds)
  BY FlattenedSays, FlattenedList
<1>2. n \in Nat /\ DOMAIN ds = 1..n
  BY DEF SaysEach, AreLists
<1>3. \A i \in 1..n : ds[i] = IF b[i].dev = p.dev /\ (p.v6 => set[p.dev].mac) THEN v ELSE Empty
  BY DEF SaysEach, AreLists, MembersSay
<1>4. /\ \A i \in 1..n : b[i].dev \in Devices /\ Active(set, w, b[i].dev)
      /\ \A d \in Devices : Active(set, w, d) => \E i \in 1..n : b[i].dev = d
  BY Members
<1> HIDE DEF ds, n
<1>5. \A i \in 1..n : ds[i] \in {Empty, v}
  BY <1>3
<1>6. Earliest(ds) = IF \E i \in 1..n : ds[i] = v THEN v ELSE Empty
  BY <1>2, <1>5, EarliestAlike
<1>7. CASE IsKnown(set, w, p)
  BY <1>1, <1>3, <1>4, <1>6, <1>7 DEF IsKnown
<1>8. CASE ~IsKnown(set, w, p)
  <2>1. \A i \in 1..n : ds[i] = Empty
    BY <1>3, <1>4, <1>8 DEF IsKnown
  <2> QED BY <1>1, <1>6, <1>8, <2>1
<1> QED BY <1>7, <1>8

\* The lines of one device say nothing of the packets of another.
LEMMA OwnedElsewhere ==
  ASSUME NEW d, NEW lines, Owned(d, lines), NEW e, NEW p, p.dev # d
  PROVE  Says(e, p, lines) = Empty
<1>1. ASSUME NEW i \in DOMAIN lines PROVE Decides(e, lines[i], p) = Empty
  <2> DEFINE l == lines[i]
  <2>1. l \in Range(lines)
    BY DEF Range
  <2> HIDE DEF l
  <2>2. l = Line(ByIP(d), l.cond, l.to)
    BY <2>1 DEF Owned, IsOwned
  <2>3. Decides(e, Line(ByIP(d), l.cond, l.to), p) = Empty
    BY DecidesIP
  <2> QED BY <2>2, <2>3 DEF l
<1> QED BY <1>1 DEF Says, Earliest

LEMMA TwiceSays ==
  ASSUME NEW w, NEW m, NEW lines, Owned(m.dev, lines), NEW e, NEW p, IsPacket(p), p.v6 => w.v6
  PROVE  /\ IsList(Twice(w, m, lines))
         /\ Says(e, p, Twice(w, m, lines)) =
                IF m.dev = p.dev /\ (p.v6 => m.mac) THEN Says(e, V4(p), lines) ELSE Empty
<1>1. /\ IsList(Twice(w, m, lines))
      /\ Says(e, p, Twice(w, m, lines)) = IF p.v6 => m.mac THEN Says(e, V4(p), lines) ELSE Empty
  BY TwiceIs
<1>2. ASSUME m.dev # p.dev PROVE Says(e, V4(p), lines) = Empty
  <2>1. V4(p).dev # m.dev
    BY <1>2, V4Is
  <2> QED BY <2>1, OwnedElsewhere
<1> QED BY <1>1, <1>2

LEMMA V4Says ==
  ASSUME NEW p, IsPacket(p)
  PROVE  /\ \A e, to, u : By(e, to, u, V4(p)) = By(e, to, u, p)
         /\ \A e, d, r : RuleSays(e, d, r, V4(p)) = RuleSays(e, d, r, p)
         /\ \A e, d, rules : FirstRule(e, d, rules, V4(p)) = FirstRule(e, d, rules, p)
<1>1. V4(p).dst = p.dst /\ V4(p).proto = p.proto
  BY V4Is
<1>2. \A e, to : Takes(e, to, V4(p)) <=> Takes(e, to, p)
  BY <1>1 DEF Takes
<1>3. \A e, to, u : By(e, to, u, V4(p)) = By(e, to, u, p)
  BY <1>2 DEF By
<1>4. \A e, d, r : RuleSays(e, d, r, V4(p)) = RuleSays(e, d, r, p)
  BY <1>1, <1>3 DEF RuleSays
<1>5. \A e, d, rules : FirstRule(e, d, rules, V4(p)) = FirstRule(e, d, rules, p)
  BY <1>4 DEF FirstRule
<1> QED BY <1>3, <1>4, <1>5

LEMMA OneLine ==
  ASSUME NEW d, NEW a \in Places, NEW to, NEW e, NEW p, IsPacket(p)
  PROVE  /\ Owned(d, <<Line(ByIP(d), At(a), to)>>)
         /\ Says(e, p, <<Line(ByIP(d), At(a), to)>>) =
                IF p.dev = d /\ ~p.v6 /\ p.dst = a THEN Goes(e, to, p) ELSE Empty
<1> DEFINE x == Line(ByIP(d), At(a), to)
<1>1. IsOwned(d, x)
  BY DEF IsOwned, Line
<1>2. Decides(e, x, p) = IF p.dev = d /\ ~p.v6 /\ CondOK(At(a), p) THEN Goes(e, to, p) ELSE Empty
  BY DecidesIP
<1>3. CondOK(At(a), p) <=> p.dst = a
  BY CondIs
<1> HIDE DEF x
<1>4. Owned(d, <<x>>) /\ Says(e, p, <<x>>) = Decides(e, x, p)
  BY <1>1, ShortList, SaysOne DEF Owned
<1> QED BY <1>2, <1>3, <1>4 DEF x

(***************************************************************************)
(* The sections of the rule list, one by one.                              *)
(***************************************************************************)
IsPacketOf(w, p) == IsPacket(p) /\ (p.v6 => w.v6 /\ p.dev \in Devices)

\* A section that gives every member of the bundle its lines.
LEMMA SectionOf ==
  ASSUME NEW set, NEW w, NEW res, NEW b, b = Bundle(set, w, res), NEW e, NEW p, NEW v,
         NEW ss, IsMap(ss), DOMAIN ss = DOMAIN b, \A i \in 1..Len(b) : IsList(ss[i]),
         MembersSay(e, p, set, b, ss, v)
  PROVE  /\ IsList(FlattenSeq(ss))
         /\ Says(e, p, FlattenSeq(ss)) = IF IsKnown(set, w, p) THEN v ELSE Empty
<1>1. AreLists(ss, Len(b)) /\ MembersSay(e, p, set, b, ss, v)
  BY Members DEF AreLists, MembersSay
<1> QED BY <1>1, OfBundle

\* What the lines that keep IPv6 from bypassing a policy say: a device with a policy has none.
LEMMA Bypassed ==
  ASSUME NEW e, NEW set, NEW w, NEW res, Fits(e, set, w, res), NEW b, b = Bundle(set, w, res),
         NEW p, IsPacketOf(w, p)
  PROVE  /\ IsList(BypassRejects(w, b))
         /\ Says(e, p, BypassRejects(w, b)) =
                IF IsKnown(set, w, p) THEN IF p.v6 /\ ~Open(set, p.dev) THEN "REJECT" ELSE Empty ELSE Empty
<1> DEFINE X(m) == IF w.v6 /\ m.bypass /\ m.mac THEN <<Line(ByUser(m.dev), Anything, To("REJECT"))>> ELSE <<>>
           ss == [i \in DOMAIN b |-> X(b[i])]
           v == IF p.v6 /\ ~Open(set, p.dev) THEN "REJECT" ELSE Empty
<1>1. BypassRejects(w, b) = FlattenSeq(ss)
  BY DEF BypassRejects, Each
<1>2. IsMap(ss) /\ DOMAIN ss = DOMAIN b /\ \A i \in DOMAIN b : ss[i] = X(b[i])
  BY DEF IsMap
<1> HIDE DEF ss
<1>3. ASSUME NEW i \in 1..Len(b)
      PROVE  /\ IsList(ss[i])
             /\ Says(e, p, ss[i]) = IF b[i].dev = p.dev /\ (p.v6 => set[p.dev].mac) THEN v ELSE Empty
  <2> DEFINE m == b[i]
             d == m.dev
             x == Line(ByUser(d), Anything, To("REJECT"))
  <2>1. d \in Devices /\ m = Compiled(set, res, d) /\ i \in DOMAIN b
    BY Members
  <2>2. ss[i] = IF w.v6 /\ m.bypass /\ m.mac THEN <<x>> ELSE <<>>
    BY <1>2, <2>1
  <2> HIDE DEF m, d
  <2>3. m.mac = set[d].mac /\ (m.bypass <=> ~Open(set, d))
    <3>1. Compiled(set, res, d).mac = set[d].mac
      BY CompiledFields
    <3>2. Compiled(set, res, d).bypass <=> ~Open(set, d)
      BY CompiledFields
    <3>3. m.mac = set[d].mac
      BY <2>1, <3>1
    <3>4. m.bypass <=> ~Open(set, d)
      BY <2>1, <3>2
    <3> QED BY <3>3, <3>4
  <2>4. Decides(e, x, p) = IF p.dev = d /\ p.v6 THEN "REJECT" ELSE Empty
    BY DecidesUser, FixedTargets, CondIs DEF IsPacketOf
  <2> HIDE DEF x
  <2>5. IsList(<<x>>) /\ IsList(<<>>) /\ Says(e, p, <<x>>) = Decides(e, x, p) /\ Says(e, p, <<>>) = Empty
    BY ShortList, SaysOne, SaysNothing
  <2>6. IsList(ss[i])
    BY <2>2, <2>5
  <2>7. p.v6 => w.v6
    BY DEF IsPacketOf
  <2>8. Says(e, p, ss[i]) = IF d = p.dev /\ (p.v6 => set[p.dev].mac) THEN v ELSE Empty
    BY <2>2, <2>3, <2>4, <2>5, <2>7
  <2> QED BY <2>6, <2>8 DEF d, m
<1> HIDE DEF v
<1>4. /\ IsList(FlattenSeq(ss))
      /\ Says(e, p, FlattenSeq(ss)) = IF IsKnown(set, w, p) THEN v ELSE Empty
  <2>1. MembersSay(e, p, set, b, ss, v)
    BY <1>3 DEF MembersSay
  <2> HIDE DEF X
  <2> QED BY <1>2, <1>3, <2>1, SectionOf
<1> QED BY <1>1, <1>4 DEF v

\* The lines for Tailscale say where its addresses go.
LEMMA Tailscaled ==
  ASSUME NEW e, NEW set, NEW w, NEW res, Fits(e, set, w, res), NEW b, b = Bundle(set, w, res),
         NEW p, IsPacketOf(w, p)
  PROVE  /\ IsList(TailscaleRules(w, b))
         /\ Says(e, p, TailscaleRules(w, b)) =
                IF w.ts.on /\ p.dst = "tail" THEN IF MayReachTailnet(e, p) THEN "tsnet" ELSE "REJECT" ELSE Empty
<1> DEFINE X(m) == IF m.dev \in w.ts.devs
                   THEN Twice(w, m, <<Line(ByIP(m.dev), At("tail"), To("tsnet"))>>) ELSE <<>>
           ss == [i \in DOMAIN b |-> X(b[i])]
           v == IF p.dev \in w.ts.devs /\ p.dst = "tail" THEN "tsnet" ELSE Empty
           x == Line(Mac, At("tail"), To("tsnet"))
           y == Line(AnyOne, At("tail"), To("REJECT"))
           mac == IF w.ts.mac THEN <<x>> ELSE <<>>
<1>0. CASE ~w.ts.on
  BY <1>0, ShortList, SaysNothing DEF TailscaleRules
<1>1. CASE w.ts.on
  <2>1. TailscaleRules(w, b) = mac \o FlattenSeq(ss) \o <<y>>
    BY <1>1 DEF TailscaleRules, Each
  <2>2. IsMap(ss) /\ DOMAIN ss = DOMAIN b /\ \A i \in DOMAIN b : ss[i] = X(b[i])
    BY DEF IsMap
  <2>p. IsPacket(p) /\ (p.v6 => w.v6) /\ (p.v6 => p.dev \in Devices) /\ "tail" \in Places
    BY DEF IsPacketOf, Places
  <2> HIDE DEF ss
  <2>3. ASSUME NEW i \in 1..Len(b)
        PROVE  /\ IsList(ss[i])
               /\ Says(e, p, ss[i]) = IF b[i].dev = p.dev /\ (p.v6 => set[p.dev].mac) THEN v ELSE Empty
    <3> DEFINE m == b[i]
               l == <<Line(ByIP(m.dev), At("tail"), To("tsnet"))>>
    <3>1. m.dev \in Devices /\ m = Compiled(set, res, m.dev) /\ i \in DOMAIN b
      BY Members
    <3>2. ss[i] = IF m.dev \in w.ts.devs THEN Twice(w, m, l) ELSE <<>>
      BY <2>2, <3>1
    <3> HIDE DEF m
    <3>3. m.mac = set[m.dev].mac
      BY <3>1, CompiledFields
    <3>4. Owned(m.dev, l)
      BY <2>p, OneLine
    <3>5. Says(e, V4(p), l) = IF p.dev = m.dev /\ p.dst = "tail" THEN "tsnet" ELSE Empty
      <4>1. IsPacket(V4(p)) /\ V4(p).dev = p.dev /\ ~V4(p).v6 /\ V4(p).dst = p.dst
        BY <2>p, V4Is
      <4>2. Says(e, V4(p), l) = IF V4(p).dev = m.dev /\ ~V4(p).v6 /\ V4(p).dst = "tail"
                                THEN Goes(e, To("tsnet"), V4(p)) ELSE Empty
        BY <2>p, <4>1, OneLine
      <4> QED BY <4>1, <4>2, FixedTargets
    <3> HIDE DEF l
    <3>6. /\ IsList(Twice(w, m, l))
          /\ Says(e, p, Twice(w, m, l)) = IF m.dev = p.dev /\ (p.v6 => m.mac) THEN Says(e, V4(p), l) ELSE Empty
      BY <2>p, <3>4, TwiceSays
    <3>7. IsList(<<>>) /\ Says(e, p, <<>>) = Empty
      BY ShortList, SaysNothing
    <3>8. IsList(ss[i])
      BY <3>2, <3>6, <3>7
    <3>9. Says(e, p, ss[i]) = IF m.dev = p.dev /\ (p.v6 => set[p.dev].mac) THEN v ELSE Empty
      <4>1. CASE m.dev \in w.ts.devs
        BY <3>2, <3>3, <3>5, <3>6, <4>1
      <4>2. CASE m.dev \notin w.ts.devs
        BY <3>2, <3>7, <4>2
      <4> QED BY <4>1, <4>2
    <3> QED BY <3>8, <3>9 DEF m
  <2> HIDE DEF v
  <2>4. /\ IsList(FlattenSeq(ss))
        /\ Says(e, p, FlattenSeq(ss)) = IF IsKnown(set, w, p) THEN v ELSE Empty
    <3>1. MembersSay(e, p, set, b, ss, v)
      BY <2>3 DEF MembersSay
    <3> HIDE DEF X
    <3> QED BY <2>2, <2>3, <3>1, SectionOf
  <2>5. Decides(e, x, p) = IF p.dev = "mac" /\ p.dst = "tail" THEN "tsnet" ELSE Empty
    BY <2>p, DecidesMac, FixedTargets, CondIs
  <2>6. Decides(e, y, p) = IF p.dst = "tail" THEN "REJECT" ELSE Empty
    BY <2>p, DecidesAny, FixedTargets, CondIs
  <2> HIDE DEF x, y
  <2>7. IsList(mac) /\ Says(e, p, mac) = IF w.ts.mac THEN Decides(e, x, p) ELSE Empty
    BY ShortList, SaysOne, SaysNothing
  <2>8. IsList(<<y>>) /\ Says(e, p, <<y>>) = Decides(e, y, p)
    BY ShortList, SaysOne
  <2> HIDE DEF mac
  <2> DEFINE t == FlattenSeq(ss)
             z == <<y>>
  <2>9. IsList(mac \o t) /\ Says(e, p, mac \o t) = Or(Says(e, p, mac), Says(e, p, t))
    BY <2>4, <2>7, JoinedList, JoinedSays
  <2>10. IsList(mac \o t \o z) /\ Says(e, p, mac \o t \o z) = Or(Says(e, p, mac \o t), Says(e, p, z))
    BY <2>8, <2>9, JoinedList, JoinedSays
  <2>11. MayReachTailnet(e, p) <=> IF p.dev = "mac" THEN w.ts.mac ELSE IsKnown(set, w, p) /\ p.dev \in w.ts.devs
    BY DEF MayReachTailnet, Known, IsKnown, Fits
  <2>12. "mac" \notin Devices /\ "tsnet" # Empty
    BY DEF Devices, Empty
  <2> HIDE DEF t, z
  <2>13. Says(e, p, mac \o t \o z) =
           IF p.dst = "tail" THEN IF MayReachTailnet(e, p) THEN "tsnet" ELSE "REJECT" ELSE Empty
    <3>1. Says(e, p, t) = IF IsKnown(set, w, p) THEN v ELSE Empty
      BY <2>4 DEF t
    <3>2. Says(e, p, z) = IF p.dst = "tail" THEN "REJECT" ELSE Empty
      BY <2>6, <2>8 DEF z
    <3>3. CASE p.dev = "mac"
      <4>1. ~IsKnown(set, w, p)
        BY <2>12, <3>3 DEF IsKnown
      <4> QED BY <2>5, <2>7, <2>9, <2>10, <2>11, <2>12, <3>1, <3>2, <3>3, <4>1 DEF Or
    <3>4. CASE p.dev # "mac"
      <4>1. Says(e, p, mac) = Empty
        BY <2>5, <2>7, <3>4
      <4>2. v = IF p.dev \in w.ts.devs /\ p.dst = "tail" THEN "tsnet" ELSE Empty
        BY DEF v
      <4> QED BY <2>9, <2>10, <2>11, <2>12, <3>1, <3>2, <3>4, <4>1, <4>2 DEF Or
    <3> QED BY <3>3, <3>4
  <2> QED BY <1>1, <2>1, <2>10, <2>13 DEF t, z
<1> QED BY <1>0, <1>1

LEMMA PairJoined ==
  ASSUME NEW x, NEW y
  PROVE  <<x>> \o <<y>> = <<x, y>>
<1> DEFINE S == {x, y}
           u == <<x, y>>
           v == <<x>> \o <<y>>
<1>1. <<x>> \in Seq(S) /\ <<y>> \in Seq(S) /\ u \in Seq(S)
  OBVIOUS
<1>2. Len(u) = 2 /\ Len(<<x>>) = 1 /\ Len(<<y>>) = 1
  OBVIOUS
<1>3. v \in Seq(S) /\ Len(v) = 2
  BY <1>1, <1>2
<1>4. v[1] = x /\ v[2] = y /\ u[1] = x /\ u[2] = y
  BY <1>1, <1>2
<1> HIDE DEF u, v, S
<1>5. u = v
  BY <1>1, <1>2, <1>3, <1>4
<1> QED BY <1>5 DEF u, v

LEMMA TwoLines ==
  ASSUME NEW x, NEW y, NEW e, NEW p
  PROVE  IsList(<<x, y>>) /\ Says(e, p, <<x, y>>) = Or(Decides(e, x, p), Decides(e, y, p))
<1>1. <<x, y>> = <<x>> \o <<y>>
  BY PairJoined
<1>2. /\ IsList(<<x>>) /\ Says(e, p, <<x>>) = Decides(e, x, p)
      /\ IsList(<<y>>) /\ Says(e, p, <<y>>) = Decides(e, y, p)
  BY ShortList, SaysOne
<1> DEFINE s == <<x>>
           t == <<y>>
           u == <<x, y>>
<1>3. u = s \o t /\ IsList(s) /\ IsList(t) /\ Says(e, p, s) = Decides(e, x, p) /\ Says(e, p, t) = Decides(e, y, p)
  BY <1>1, <1>2
<1> HIDE DEF s, t, u
<1>4. IsList(u) /\ Says(e, p, u) = Or(Decides(e, x, p), Decides(e, y, p))
  BY <1>3, JoinedList, JoinedSays
<1> QED BY <1>4 DEF u

LEMMA Local ==
  ASSUME NEW e, NEW set, NEW w, NEW res, Fits(e, set, w, res), NEW p, IsPacketOf(w, p)
  PROVE  IsList(LocalRules) /\ Says(e, p, LocalRules) = IF p.dev = "mac" THEN OfMac(e, p) ELSE Empty
<1> DEFINE a == Line(Mac, At("lan"), To("DIRECT"))
           b == Line(Mac, At("tail"), To("DIRECT"))
           c == Line(Mac, [Anything EXCEPT !.proto = "tcp"], TCP)
           d == Line(Mac, [Anything EXCEPT !.proto = "udp"], UDP)
<1>p. IsPacket(p) /\ "lan" \in Places /\ "tail" \in Places
  BY DEF IsPacketOf, Places
<1>1. Decides(e, a, p) = IF p.dev = "mac" /\ p.dst = "lan" THEN "DIRECT" ELSE Empty
  BY <1>p, DecidesMac, CondIs, FixedTargets
<1>2. Decides(e, b, p) = IF p.dev = "mac" /\ p.dst = "tail" THEN "DIRECT" ELSE Empty
  BY <1>p, DecidesMac, CondIs, FixedTargets
<1>3. Decides(e, c, p) = IF p.dev = "mac" /\ p.proto = "tcp" THEN Goes(e, TCP, p) ELSE Empty
  BY <1>p, DecidesMac, CondIs
<1>4. Decides(e, d, p) = IF p.dev = "mac" /\ p.proto = "udp" THEN Goes(e, UDP, p) ELSE Empty
  BY <1>p, DecidesMac, CondIs
<1>5. LocalRules = <<a, b>> \o <<c, d>>
  BY DEF LocalRules
<1> HIDE DEF a, b, c, d
<1> DEFINE s == <<a, b>>
           t == <<c, d>>
<1>6. /\ IsList(s) /\ Says(e, p, s) = Or(Decides(e, a, p), Decides(e, b, p))
      /\ IsList(t) /\ Says(e, p, t) = Or(Decides(e, c, p), Decides(e, d, p))
  BY TwoLines
<1>7. LocalRules = s \o t
  BY <1>5
<1> HIDE DEF s, t
<1>8. IsList(s \o t) /\ Says(e, p, s \o t) = Or(Says(e, p, s), Says(e, p, t))
  BY <1>6, JoinedList, JoinedSays
<1>9. p.dev = "mac" => (AtHome(p) <=> p.dst = "lan" \/ p.dst = "tail")
  BY DEF IsPacketOf, Devices, AtHome
<1>10. p.proto = "tcp" \/ p.proto = "udp"
  BY <1>p DEF IsPacket
<1>11. OfMac(e, p) = IF AtHome(p) THEN "DIRECT" ELSE IF p.proto = "tcp" THEN Goes(e, TCP, p) ELSE Goes(e, UDP, p)
  BY DEF OfMac, Goes
<1>12. "DIRECT" # Empty /\ "tcp" # "udp"
  BY DEF Empty
<1>13. CASE p.dev # "mac"
  BY <1>1, <1>2, <1>3, <1>4, <1>6, <1>7, <1>8, <1>13 DEF Or
<1>14. CASE p.dev = "mac" /\ AtHome(p)
  BY <1>1, <1>2, <1>6, <1>7, <1>8, <1>9, <1>11, <1>12, <1>14 DEF Or
<1>15. CASE p.dev = "mac" /\ ~AtHome(p)
  BY <1>1, <1>2, <1>3, <1>4, <1>6, <1>7, <1>8, <1>9, <1>10, <1>11, <1>12, <1>15 DEF Or
<1> QED BY <1>13, <1>14, <1>15

\* What the lines of the source say.
LEMMA FromSource ==
  ASSUME NEW e, NEW set, NEW w, NEW res, Fits(e, set, w, res), NEW p, IsPacketOf(w, p)
  PROVE  /\ IsList(Imported(w)) /\ Says(e, p, Imported(w)) = Global(e, p)
         /\ IsList(Terminal(w)) /\ Or(Says(e, p, Terminal(w)), "DIRECT") = LastMatch(e, p)
<1> DEFINE x == Line(AnyOne, At("media"), To("A"))
           y == Line(AnyOne, Anything, To(w.match))
<1>p. IsPacket(p) /\ "media" \in Places
  BY DEF IsPacketOf, Places
<1>1. \A t : Goes(e, To(t), p) = IF t # "PASS" /\ Carries(t, p.proto) THEN t ELSE Empty
  BY DEF Goes, Takes, Outbound, To
<1>2. Decides(e, x, p) = IF p.dst = "media" THEN Goes(e, To("A"), p) ELSE Empty
  BY <1>p, DecidesAny, CondIs
<1>3. Decides(e, y, p) = Goes(e, To(w.match), p)
  BY <1>p, DecidesAny, CondIs
<1> HIDE DEF x, y
<1>4. /\ IsList(<<>>) /\ Says(e, p, <<>>) = Empty
      /\ IsList(<<x>>) /\ Says(e, p, <<x>>) = Decides(e, x, p)
      /\ IsList(<<y>>) /\ Says(e, p, <<y>>) = Decides(e, y, p)
  BY ShortList, SaysOne, SaysNothing
<1>5. e.world = w
  BY DEF Fits
<1>6. IsList(Imported(w)) /\ Says(e, p, Imported(w)) = Global(e, p)
  <2>1. Imported(w) = IF "A" \in w.offered THEN <<x>> ELSE <<>>
    BY DEF Imported, x
  <2>2. "A" # "PASS"
    OBVIOUS
  <2>3. CASE "A" \in w.offered
    <3>1. Goes(e, To("A"), p) = IF Carries("A", p.proto) THEN "A" ELSE Empty
      BY <1>1, <2>2
    <3> QED BY <1>2, <1>4, <1>5, <2>1, <2>3, <3>1 DEF Global
  <2>4. CASE "A" \notin w.offered
    BY <1>4, <1>5, <2>1, <2>4 DEF Global
  <2> QED BY <2>3, <2>4
<1>7. IsList(Terminal(w)) /\ Or(Says(e, p, Terminal(w)), "DIRECT") = LastMatch(e, p)
  <2>1. Terminal(w) = IF w.match \in w.offered \cup Builtin THEN <<y>> ELSE <<>>
    BY DEF Terminal, y
  <2>2. CASE w.match \in w.offered \cup Builtin
    <3>1. w.match # "PASS" /\ w.match # Empty
      BY <2>2 DEF Fits, IsWorld, Builtin, Inner, Empty
    <3>2. Goes(e, To(w.match), p) = IF Carries(w.match, p.proto) THEN w.match ELSE Empty
      BY <1>1, <3>1
    <3>3. Says(e, p, Terminal(w)) = Goes(e, To(w.match), p) /\ IsList(Terminal(w))
      BY <1>3, <1>4, <2>1, <2>2
    <3>4. LastMatch(e, p) = IF Carries(w.match, p.proto) THEN w.match ELSE "DIRECT"
      BY <1>5, <2>2 DEF LastMatch
    <3> QED BY <3>1, <3>2, <3>3, <3>4 DEF Or
  <2>3. CASE w.match \notin w.offered \cup Builtin
    <3>1. Says(e, p, Terminal(w)) = Empty /\ IsList(Terminal(w))
      BY <1>4, <2>1, <2>3
    <3>2. LastMatch(e, p) = "DIRECT"
      BY <1>5, <2>3 DEF LastMatch
    <3> QED BY <3>1, <3>2 DEF Or
  <2> QED BY <2>2, <2>3
<1> QED BY <1>6, <1>7

(***************************************************************************)
(* The lines that the members of a bundle have for both identities.        *)
(***************************************************************************)
TwiceEach(w, b, ls) == [i \in DOMAIN b |-> Twice(w, b[i], ls[i])]
LinesSay(e, p, b, ls, v) ==
    \A i \in 1..Len(b) : Owned(b[i].dev, ls[i]) /\ (b[i].dev = p.dev => Says(e, V4(p), ls[i]) = v)

LEMMA TwiceOfBundle ==
  ASSUME NEW set, NEW w, NEW res, NEW b, b = Bundle(set, w, res), NEW e, NEW p, IsPacketOf(w, p),
         NEW ls, NEW v, LinesSay(e, p, b, ls, v)
  PROVE  /\ IsList(FlattenSeq(TwiceEach(w, b, ls)))
         /\ Says(e, p, FlattenSeq(TwiceEach(w, b, ls))) = IF IsKnown(set, w, p) THEN v ELSE Empty
<1> DEFINE ss == TwiceEach(w, b, ls)
<1>1. IsMap(ss) /\ DOMAIN ss = DOMAIN b /\ \A i \in DOMAIN b : ss[i] = Twice(w, b[i], ls[i])
  BY DEF IsMap, TwiceEach
<1> HIDE DEF ss
<1>2. ASSUME NEW i \in 1..Len(b)
      PROVE  /\ IsList(ss[i])
             /\ Says(e, p, ss[i]) = IF b[i].dev = p.dev /\ (p.v6 => set[p.dev].mac) THEN v ELSE Empty
  <2> DEFINE m == b[i]
             l == ls[i]
  <2>1. m.dev \in Devices /\ m = Compiled(set, res, m.dev) /\ i \in DOMAIN b
    BY Members
  <2>2. ss[i] = Twice(w, m, l)
    BY <1>1, <2>1
  <2>3. Owned(m.dev, l) /\ (m.dev = p.dev => Says(e, V4(p), l) = v)
    BY DEF LinesSay
  <2> HIDE DEF m, l
  <2>4. m.mac = set[m.dev].mac
    BY <2>1, CompiledFields
  <2>5. /\ IsList(Twice(w, m, l))
        /\ Says(e, p, Twice(w, m, l)) = IF m.dev = p.dev /\ (p.v6 => m.mac) THEN Says(e, V4(p), l) ELSE Empty
    BY <2>3, TwiceSays DEF IsPacketOf
  <2>6. Says(e, p, ss[i]) = IF m.dev = p.dev /\ (p.v6 => set[p.dev].mac) THEN v ELSE Empty
    BY <2>2, <2>3, <2>4, <2>5
  <2> QED BY <2>2, <2>5, <2>6 DEF m
<1>3. MembersSay(e, p, set, b, ss, v)
  BY <1>2 DEF MembersSay
<1>4. IsList(FlattenSeq(ss)) /\ Says(e, p, FlattenSeq(ss)) = IF IsKnown(set, w, p) THEN v ELSE Empty
  BY <1>1, <1>2, <1>3, SectionOf
<1> QED BY <1>4 DEF ss

LEMMA CompiledOwned ==
  ASSUME NEW e, NEW set, NEW w, NEW res, Fits(e, set, w, res), NEW d \in Devices, Active(set, w, d)
  PROVE  /\ Owned(d, Compiled(set, res, d).override) /\ Owned(d, Compiled(set, res, d).dedicated)
         /\ Owned(d, Compiled(set, res, d).defaults)
<1> DEFINE q == [dev |-> d, v6 |-> FALSE, dst |-> "lan", proto |-> "tcp"]
<1>1. IsPacket(q) /\ q.dev = d /\ ~q.v6
  BY DEF IsPacket, Places
<1> HIDE DEF q
<1> QED BY <1>1, OverrideSays, LastSays

\* What the three kinds of lines of a device say.
RulesSay(e, set, p)          == IF Open(set, p.dev) THEN FirstRule(e, p.dev, Rules(set, p.dev), p) ELSE Empty
LastOf(e, set, res, p, mode) == IF Open(set, p.dev) /\ Mode(set, res, p.dev) = mode
                                THEN DefaultSays(e, set, p.dev, p) ELSE Empty

LEMMA MemberLines ==
  ASSUME NEW e, NEW set, NEW w, NEW res, Fits(e, set, w, res), NEW b, b = Bundle(set, w, res),
         NEW p, IsPacketOf(w, p)
  PROVE  /\ LinesSay(e, p, b, [i \in DOMAIN b |-> b[i].override], RulesSay(e, set, p))
         /\ LinesSay(e, p, b, [i \in DOMAIN b |-> b[i].dedicated], LastOf(e, set, res, p, "dedicated"))
         /\ LinesSay(e, p, b, [i \in DOMAIN b |-> b[i].defaults], LastOf(e, set, res, p, "legacy_fallback"))
<1> SUFFICES ASSUME NEW i \in 1..Len(b)
             PROVE  LET m == b[i] IN
                    /\ i \in DOMAIN b
                    /\ Owned(m.dev, m.override) /\ Owned(m.dev, m.dedicated) /\ Owned(m.dev, m.defaults)
                    /\ m.dev = p.dev =>
                         /\ Says(e, V4(p), m.override) = RulesSay(e, set, p)
                         /\ Says(e, V4(p), m.dedicated) = LastOf(e, set, res, p, "dedicated")
                         /\ Says(e, V4(p), m.defaults) = LastOf(e, set, res, p, "legacy_fallback")
  BY DEF LinesSay
<1> DEFINE m == b[i]
<1>1. m.dev \in Devices /\ Active(set, w, m.dev) /\ m = Compiled(set, res, m.dev) /\ i \in DOMAIN b
  BY Members
<1> HIDE DEF m
<1>2. Owned(m.dev, m.override) /\ Owned(m.dev, m.dedicated) /\ Owned(m.dev, m.defaults)
  <2> DEFINE d == m.dev
             x == Compiled(set, res, d)
  <2>1. d \in Devices /\ Active(set, w, d) /\ m = x
    BY <1>1
  <2> HIDE DEF d
  <2>2. Owned(d, x.override) /\ Owned(d, x.dedicated) /\ Owned(d, x.defaults)
    BY <2>1, CompiledOwned
  <2> QED BY <2>1, <2>2 DEF d
<1>3. ASSUME m.dev = p.dev
      PROVE  /\ Says(e, V4(p), m.override) = RulesSay(e, set, p)
             /\ Says(e, V4(p), m.dedicated) = LastOf(e, set, res, p, "dedicated")
             /\ Says(e, V4(p), m.defaults) = LastOf(e, set, res, p, "legacy_fallback")
  <2> DEFINE d == p.dev
             q == V4(p)
             x == Compiled(set, res, d)
  <2>1. d \in Devices /\ Active(set, w, d) /\ m = x
    BY <1>1, <1>3
  <2>2. IsPacket(q) /\ q.dev = d /\ ~q.v6
    BY V4Is DEF IsPacketOf
  <2>3. /\ FirstRule(e, d, Rules(set, d), q) = FirstRule(e, d, Rules(set, d), p)
        /\ DefaultSays(e, set, d, q) = DefaultSays(e, set, d, p)
    BY V4Says DEF IsPacketOf, DefaultSays
  <2> HIDE DEF d, q
  <2>4. Says(e, q, x.override) = IF Open(set, d) THEN FirstRule(e, d, Rules(set, d), q) ELSE Empty
    BY <2>1, <2>2, OverrideSays
  <2>5. /\ Says(e, q, x.dedicated) =
             IF Open(set, d) /\ Mode(set, res, d) = "dedicated" THEN DefaultSays(e, set, d, q) ELSE Empty
        /\ Says(e, q, x.defaults) =
             IF Open(set, d) /\ Mode(set, res, d) = "legacy_fallback" THEN DefaultSays(e, set, d, q) ELSE Empty
    BY <2>1, <2>2, LastSays
  <2> HIDE DEF x
  <2>6. /\ Says(e, q, m.override) = IF Open(set, d) THEN FirstRule(e, d, Rules(set, d), p) ELSE Empty
        /\ Says(e, q, m.dedicated) =
             IF Open(set, d) /\ Mode(set, res, d) = "dedicated" THEN DefaultSays(e, set, d, p) ELSE Empty
        /\ Says(e, q, m.defaults) =
             IF Open(set, d) /\ Mode(set, res, d) = "legacy_fallback" THEN DefaultSays(e, set, d, p) ELSE Empty
    BY <2>1, <2>3, <2>4, <2>5
  <2> QED BY <2>6 DEF RulesSay, LastOf, d, q
<1> QED BY <1>1, <1>2, <1>3 DEF m

ModeOfDevice(set, res, d) == IF Open(set, d) THEN Mode(set, res, d) ELSE set[d].mode
HomeOf(w, m) ==
    IF m.mode # "dedicated" THEN <<>> ELSE
        Twice(w, m, <<Line(ByIP(m.dev), At("lan"), To("DIRECT"))>>)
        \o <<Line(ByIP(m.dev), At("tail"), To("DIRECT"))>>
HomeSays(set, res, p) ==
    IF ModeOfDevice(set, res, p.dev) = "dedicated" /\ AtHome(p) THEN "DIRECT" ELSE Empty

LEMMA HomeMember ==
  ASSUME NEW e, NEW set, NEW w, NEW res, NEW p, IsPacketOf(w, p),
         NEW m, NEW d, m.dev = d, m.mac = set[d].mac, m.mode = ModeOfDevice(set, res, d)
  PROVE  /\ IsList(HomeOf(w, m))
         /\ Says(e, p, HomeOf(w, m)) =
                IF m.dev = p.dev /\ (p.v6 => set[p.dev].mac) THEN HomeSays(set, res, p) ELSE Empty
<1> DEFINE s == <<Line(ByIP(d), At("lan"), To("DIRECT"))>>
           t == <<Line(ByIP(d), At("tail"), To("DIRECT"))>>
           u == Twice(w, m, s)
<1>p. IsPacket(p) /\ (p.v6 => w.v6) /\ "lan" \in Places /\ "tail" \in Places
  BY DEF IsPacketOf, Places
<1>v. IsPacket(V4(p)) /\ V4(p).dev = p.dev /\ ~V4(p).v6 /\ V4(p).dst = p.dst
  BY <1>p, V4Is
<1>1. /\ Owned(d, s)
      /\ Says(e, V4(p), s) = IF V4(p).dev = d /\ ~V4(p).v6 /\ V4(p).dst = "lan" THEN Goes(e, To("DIRECT"), V4(p)) ELSE Empty
  BY <1>p, <1>v, OneLine
<1>2. /\ Owned(d, t)
      /\ Says(e, p, t) = IF p.dev = d /\ ~p.v6 /\ p.dst = "tail" THEN Goes(e, To("DIRECT"), p) ELSE Empty
  BY <1>p, OneLine
<1>3. HomeOf(w, m) = IF m.mode # "dedicated" THEN <<>> ELSE u \o t
  BY Zenon DEF HomeOf
<1> HIDE DEF s, t
<1>4. /\ IsList(u)
      /\ Says(e, p, u) = IF m.dev = p.dev /\ (p.v6 => m.mac) THEN Says(e, V4(p), s) ELSE Empty
  BY <1>p, <1>1, TwiceSays
<1> HIDE DEF u
<1>5. IsList(u \o t) /\ Says(e, p, u \o t) = Or(Says(e, p, u), Says(e, p, t))
  BY <1>2, <1>4, JoinedList, JoinedSays DEF Owned
<1>6. IsList(<<>>) /\ Says(e, p, <<>>) = Empty
  BY ShortList, SaysNothing
<1>7. CASE m.mode # "dedicated"
  BY <1>3, <1>6, <1>7 DEF HomeSays
<1>8. CASE m.mode = "dedicated"
  <2>1. Says(e, V4(p), s) = IF p.dev = d /\ p.dst = "lan" THEN "DIRECT" ELSE Empty
    BY <1>v, <1>1, FixedTargets
  <2>2. Says(e, p, t) = IF p.dev = d /\ ~p.v6 /\ p.dst = "tail" THEN "DIRECT" ELSE Empty
    BY <1>2, FixedTargets
  <2>3. Says(e, p, u \o t) =
           IF d = p.dev /\ (p.v6 => set[p.dev].mac) /\ AtHome(p) THEN "DIRECT" ELSE Empty
    <3>1. "DIRECT" # Empty /\ "lan" # "tail"
      BY DEF Empty
    <3>2. Says(e, p, u) = IF d = p.dev /\ (p.v6 => set[d].mac) /\ p.dst = "lan" THEN "DIRECT" ELSE Empty
      BY <1>4, <2>1
    <3> QED BY <1>5, <2>2, <3>1, <3>2 DEF Or, AtHome
  <2> QED BY <1>3, <1>5, <1>8, <2>3 DEF HomeSays
<1> QED BY <1>7, <1>8

\* What the lines for the home network say, for all devices.
LEMMA AtHomeSays ==
  ASSUME NEW e, NEW set, NEW w, NEW res, Fits(e, set, w, res), NEW b, b = Bundle(set, w, res),
         NEW p, IsPacketOf(w, p), NEW ss, ss = [i \in DOMAIN b |-> HomeOf(w, b[i])]
  PROVE  /\ IsList(FlattenSeq(ss))
         /\ Says(e, p, FlattenSeq(ss)) = IF IsKnown(set, w, p) THEN HomeSays(set, res, p) ELSE Empty
<1>1. IsMap(ss) /\ DOMAIN ss = DOMAIN b /\ \A i \in DOMAIN b : ss[i] = HomeOf(w, b[i])
  BY DEF IsMap
<1> DEFINE v == HomeSays(set, res, p)
<1>2. ASSUME NEW i \in 1..Len(b)
      PROVE  /\ IsList(ss[i])
             /\ Says(e, p, ss[i]) = IF b[i].dev = p.dev /\ (p.v6 => set[p.dev].mac) THEN v ELSE Empty
  <2> DEFINE m == b[i]
             d == m.dev
  <2>1. d \in Devices /\ m = Compiled(set, res, d) /\ i \in DOMAIN b
    BY Members
  <2> HIDE DEF m
  <2>2. /\ Compiled(set, res, d).mac = set[d].mac
        /\ Compiled(set, res, d).mode = ModeOfDevice(set, res, d)
    BY CompiledFields DEF ModeOfDevice
  <2>3. m.mac = set[d].mac /\ m.mode = ModeOfDevice(set, res, d)
    BY <2>1, <2>2, Zenon
  <2>4. /\ IsList(HomeOf(w, m))
        /\ Says(e, p, HomeOf(w, m)) = IF m.dev = p.dev /\ (p.v6 => set[p.dev].mac) THEN v ELSE Empty
    BY <2>3, HomeMember
  <2>5. ss[i] = HomeOf(w, m)
    BY <1>1, <2>1 DEF m
  <2> QED BY <2>4, <2>5 DEF m
<1> HIDE DEF v
<1>3. MembersSay(e, p, set, b, ss, v)
  BY <1>2 DEF MembersSay
<1>4. IsList(FlattenSeq(ss)) /\ Says(e, p, FlattenSeq(ss)) = IF IsKnown(set, w, p) THEN v ELSE Empty
  BY <1>1, <1>2, <1>3, SectionOf
<1> QED BY <1>4 DEF v

LateLines(w, b) == Each(b, LAMBDA m : Twice(w, m, m.defaults))

\* All lines of all devices about a packet of one of them.
LEMMA DevicesSay ==
  ASSUME NEW e, NEW set, NEW w, NEW res, Fits(e, set, w, res), NEW b, b = Bundle(set, w, res),
         NEW p, IsPacketOf(w, p)
  PROVE  /\ IsList(DeviceRules(w, b))
         /\ Says(e, p, DeviceRules(w, b)) =
              IF IsKnown(set, w, p)
              THEN Or(Or(HomeSays(set, res, p), RulesSay(e, set, p)), LastOf(e, set, res, p, "dedicated"))
              ELSE Empty
         /\ IsList(LateLines(w, b))
         /\ Says(e, p, LateLines(w, b)) =
              IF IsKnown(set, w, p) THEN LastOf(e, set, res, p, "legacy_fallback") ELSE Empty
<1> DEFINE hs == [i \in DOMAIN b |-> HomeOf(w, b[i])]
           os == [i \in DOMAIN b |-> b[i].override]
           ds == [i \in DOMAIN b |-> b[i].dedicated]
           ls == [i \in DOMAIN b |-> b[i].defaults]
           h == FlattenSeq(hs)
           o == FlattenSeq(TwiceEach(w, b, os))
           d == FlattenSeq(TwiceEach(w, b, ds))
           l == FlattenSeq(TwiceEach(w, b, ls))
<1>1. [i \in DOMAIN b |-> Twice(w, b[i], b[i].override)] = TwiceEach(w, b, os)
  BY DEF TwiceEach
<1>2. [i \in DOMAIN b |-> Twice(w, b[i], b[i].dedicated)] = TwiceEach(w, b, ds)
  BY DEF TwiceEach
<1>3. [i \in DOMAIN b |-> Twice(w, b[i], b[i].defaults)] = TwiceEach(w, b, ls)
  BY DEF TwiceEach
<1>4. DeviceRules(w, b) = h \o o \o d
  <2>1. DeviceRules(w, b) =
          FlattenSeq([i \in DOMAIN b |-> HomeOf(w, b[i])])
          \o FlattenSeq([i \in DOMAIN b |-> Twice(w, b[i], b[i].override)])
          \o FlattenSeq([i \in DOMAIN b |-> Twice(w, b[i], b[i].dedicated)])
    BY DEF DeviceRules, Each, HomeOf
  <2> HIDE DEF os, ds
  <2> QED BY <1>1, <1>2, <2>1, Zenon
<1>5. LateLines(w, b) = l
  <2>1. LateLines(w, b) = FlattenSeq([i \in DOMAIN b |-> Twice(w, b[i], b[i].defaults)])
    BY DEF LateLines, Each
  <2> HIDE DEF ls
  <2> QED BY <1>3, <2>1, Zenon
<1>6. IsList(h) /\ Says(e, p, h) = IF IsKnown(set, w, p) THEN HomeSays(set, res, p) ELSE Empty
  BY AtHomeSays
<1>7. /\ LinesSay(e, p, b, os, RulesSay(e, set, p))
      /\ LinesSay(e, p, b, ds, LastOf(e, set, res, p, "dedicated"))
      /\ LinesSay(e, p, b, ls, LastOf(e, set, res, p, "legacy_fallback"))
  BY MemberLines
<1> HIDE DEF os, ds, ls, h
<1>8. IsList(o) /\ Says(e, p, o) = IF IsKnown(set, w, p) THEN RulesSay(e, set, p) ELSE Empty
  BY <1>7, TwiceOfBundle
<1>9. IsList(d) /\ Says(e, p, d) = IF IsKnown(set, w, p) THEN LastOf(e, set, res, p, "dedicated") ELSE Empty
  BY <1>7, TwiceOfBundle
<1>10. IsList(l) /\ Says(e, p, l) = IF IsKnown(set, w, p) THEN LastOf(e, set, res, p, "legacy_fallback") ELSE Empty
  BY <1>7, TwiceOfBundle
<1> HIDE DEF o, d, l
<1>11. IsList(h \o o) /\ Says(e, p, h \o o) = Or(Says(e, p, h), Says(e, p, o))
  BY <1>6, <1>8, JoinedList, JoinedSays
<1>12. IsList(h \o o \o d) /\ Says(e, p, h \o o \o d) = Or(Says(e, p, h \o o), Says(e, p, d))
  BY <1>9, <1>11, JoinedList, JoinedSays
<1>13. Or(Empty, Empty) = Empty
  BY DEF Or
<1>14. Says(e, p, h \o o \o d) =
         IF IsKnown(set, w, p)
         THEN Or(Or(HomeSays(set, res, p), RulesSay(e, set, p)), LastOf(e, set, res, p, "dedicated"))
         ELSE Empty
  BY <1>6, <1>8, <1>9, <1>11, <1>12, <1>13
<1>15. IsList(DeviceRules(w, b)) /\ Says(e, p, DeviceRules(w, b)) =
         IF IsKnown(set, w, p)
         THEN Or(Or(HomeSays(set, res, p), RulesSay(e, set, p)), LastOf(e, set, res, p, "dedicated"))
         ELSE Empty
  BY <1>4, <1>12, <1>14
<1>16. IsList(LateLines(w, b)) /\ Says(e, p, LateLines(w, b)) =
              IF IsKnown(set, w, p) THEN LastOf(e, set, res, p, "legacy_fallback") ELSE Empty
  BY <1>5, <1>10, Zenon
<1> QED BY <1>15, <1>16

(***************************************************************************)
(* The whole list.                                                         *)
(***************************************************************************)
LEMMA OrSeven ==
  /\ \A a, b, c, d, f, g, h : Or(Or(Or(Or(Or(Or(a, b), c), d), f), g), h) =
                                 Or(a, Or(b, Or(c, Or(d, Or(f, Or(g, h))))))
  /\ \A a, b, c, d, f, g, h, t : Or(Or(a, Or(b, Or(c, Or(d, Or(f, Or(g, h)))))), t) =
                                    Or(a, Or(b, Or(c, Or(d, Or(f, Or(g, Or(h, t)))))))
BY DEF Or

\* The sections of the rule list, in their order.
LEMMA SevenSay ==
  ASSUME NEW e, NEW p, NEW a, NEW b, NEW c, NEW d, NEW f, NEW g, NEW h,
         IsList(a), IsList(b), IsList(c), IsList(d), IsList(f), IsList(g), IsList(h)
  PROVE  Says(e, p, a \o b \o c \o d \o f \o g \o h) =
           Or(Says(e, p, a), Or(Says(e, p, b), Or(Says(e, p, c), Or(Says(e, p, d),
             Or(Says(e, p, f), Or(Says(e, p, g), Says(e, p, h)))))))
<1>1. IsList(a \o b) /\ Says(e, p, a \o b) = Or(Says(e, p, a), Says(e, p, b))
  BY JoinedList, JoinedSays
<1> DEFINE x == a \o b
<1>2. IsList(x) /\ Says(e, p, x) = Or(Says(e, p, a), Says(e, p, b))
  BY <1>1
<1> HIDE DEF x
<1> DEFINE y == x \o c
<1>3. IsList(y) /\ Says(e, p, y) = Or(Says(e, p, x), Says(e, p, c))
  BY <1>2, JoinedList, JoinedSays
<1> HIDE DEF y
<1> DEFINE z == y \o d
<1>4. IsList(z) /\ Says(e, p, z) = Or(Says(e, p, y), Says(e, p, d))
  BY <1>3, JoinedList, JoinedSays
<1> HIDE DEF z
<1> DEFINE u == z \o f
<1>5. IsList(u) /\ Says(e, p, u) = Or(Says(e, p, z), Says(e, p, f))
  BY <1>4, JoinedList, JoinedSays
<1> HIDE DEF u
<1> DEFINE v == u \o g
<1>6. IsList(v) /\ Says(e, p, v) = Or(Says(e, p, u), Says(e, p, g))
  BY <1>5, JoinedList, JoinedSays
<1> HIDE DEF v
<1>7. Says(e, p, v \o h) = Or(Says(e, p, v), Says(e, p, h))
  BY <1>6, JoinedSays
<1>8. a \o b \o c \o d \o f \o g \o h = v \o h
  BY Zenon DEF x, y, z, u, v
<1>9. Says(e, p, v \o h) = Or(Or(Or(Or(Or(Or(Says(e, p, a), Says(e, p, b)), Says(e, p, c)), Says(e, p, d)),
                             Says(e, p, f)), Says(e, p, g)), Says(e, p, h))
  BY <1>2, <1>3, <1>4, <1>5, <1>6, <1>7
<1> QED BY <1>8, <1>9, OrSeven

\* What the registration of a device says is what its lines say, the source's
\* rules between them.
LEMMA DeviceCarriedOut ==
  ASSUME NEW e, NEW set, NEW w, NEW res, Fits(e, set, w, res), NEW p, IsKnown(set, w, p), NEW last
  PROVE  Or(OfDevice(e, p), Or(Global(e, p), last)) =
           Or(Or(Or(HomeSays(set, res, p), RulesSay(e, set, p)), LastOf(e, set, res, p, "dedicated")),
              Or(Global(e, p), Or(LastOf(e, set, res, p, "legacy_fallback"), last)))
<1> DEFINE d == p.dev
           reg == set[d]
           own == Group(d, "default")
           rule == FirstRule(e, d, Rules(set, d), p)
           dflt == DefaultSays(e, set, d, p)
           mode == IF own \in DOMAIN e.sel THEN reg.mode ELSE "inherit_global"
           g == Global(e, p)
<1>1. d \in Devices /\ Active(set, w, d)
  BY DEF IsKnown
<1>2. OfDevice(e, p) =
        IF ~Open(set, d) THEN IF reg.mode = "dedicated" /\ AtHome(p) THEN "DIRECT" ELSE Empty
        ELSE IF mode = "dedicated" THEN IF AtHome(p) THEN "DIRECT" ELSE Or(rule, dflt)
        ELSE IF mode = "legacy_fallback" THEN Or(rule, Or(g, dflt))
        ELSE rule
  <2>1. e.doc = set
    BY DEF Fits
  <2> QED BY <2>1 DEF OfDevice, Open, Rules, DefaultSays, LastReason
<1>3. Open(set, d) => Mode(set, res, d) = mode
  BY <1>1, DefaultIsThere
<1>4. HomeSays(set, res, p) =
        IF (IF Open(set, d) THEN Mode(set, res, d) ELSE reg.mode) = "dedicated" /\ AtHome(p) THEN "DIRECT" ELSE Empty
  BY DEF HomeSays, ModeOfDevice
<1>5. RulesSay(e, set, p) = IF Open(set, d) THEN rule ELSE Empty
  BY DEF RulesSay
<1>6. \A x : LastOf(e, set, res, p, x) = IF Open(set, d) /\ Mode(set, res, d) = x THEN dflt ELSE Empty
  BY DEF LastOf
<1> HIDE DEF d, reg, own, rule, dflt, mode, g
<1>7. Or(OfDevice(e, p), Or(g, last)) =
           Or(Or(Or(HomeSays(set, res, p), RulesSay(e, set, p)), LastOf(e, set, res, p, "dedicated")),
              Or(g, Or(LastOf(e, set, res, p, "legacy_fallback"), last)))
  <2>0. "DIRECT" # Empty /\ "dedicated" # "legacy_fallback"
    BY DEF Empty
  <2>1. CASE ~Open(set, d)
    BY <1>2, <1>4, <1>5, <1>6, <2>1, OrIs
  <2>2. CASE Open(set, d) /\ mode = "dedicated"
    BY <1>2, <1>3, <1>4, <1>5, <1>6, <2>0, <2>2 DEF Or
  <2>3. CASE Open(set, d) /\ mode = "legacy_fallback"
    BY <1>2, <1>3, <1>4, <1>5, <1>6, <2>0, <2>3 DEF Or
  <2>4. CASE Open(set, d) /\ mode # "dedicated" /\ mode # "legacy_fallback"
    BY <1>2, <1>3, <1>4, <1>5, <1>6, <2>4, OrIs
  <2> QED BY <2>1, <2>2, <2>3, <2>4
<1> QED BY <1>7 DEF g

\* The rule list that composeImportedPolicySections puts together routes each
\* packet as the registration of its device intends.
LEMMA RoutedAsIntended ==
  ASSUME NEW e, NEW set, NEW w, NEW res, Fits(e, set, w, res), NEW p \in Packets(w)
  PROVE  Route(e, p) = Intended(e, p)
<1> DEFINE b == Bundle(set, w, res)
           tail == LateLines(w, b)
           s1 == Says(e, p, BypassRejects(w, b))
           s2 == Says(e, p, TailscaleRules(w, b))
           s3 == Says(e, p, LocalRules)
           s4 == Says(e, p, DeviceRules(w, b))
           s5 == Says(e, p, Imported(w))
           s6 == Says(e, p, tail)
           s7 == Says(e, p, Terminal(w))
           k == IsKnown(set, w, p)
           mine == Or(Or(HomeSays(set, res, p), RulesSay(e, set, p)), LastOf(e, set, res, p, "dedicated"))
           late == LastOf(e, set, res, p, "legacy_fallback")
           last == LastMatch(e, p)
<1>p. IsPacketOf(w, p)
  BY DEF Packets, IsPacketOf, IsPacket
<1>1. IsList(BypassRejects(w, b)) /\ s1 = IF k THEN IF p.v6 /\ ~Open(set, p.dev) THEN "REJECT" ELSE Empty ELSE Empty
  BY <1>p, Bypassed
<1>2. IsList(TailscaleRules(w, b)) /\
      s2 = IF w.ts.on /\ p.dst = "tail" THEN IF MayReachTailnet(e, p) THEN "tsnet" ELSE "REJECT" ELSE Empty
  BY <1>p, Tailscaled
<1>3. IsList(LocalRules) /\ s3 = IF p.dev = "mac" THEN OfMac(e, p) ELSE Empty
  BY <1>p, Local
<1>4. /\ IsList(DeviceRules(w, b)) /\ s4 = IF k THEN mine ELSE Empty
      /\ IsList(tail) /\ s6 = IF k THEN late ELSE Empty
  BY <1>p, DevicesSay
<1>5. /\ IsList(Imported(w)) /\ s5 = Global(e, p)
      /\ IsList(Terminal(w)) /\ Or(s7, "DIRECT") = last
  BY <1>p, FromSource
<1>6. e.rules = BypassRejects(w, b) \o TailscaleRules(w, b) \o LocalRules \o DeviceRules(w, b)
                \o Imported(w) \o tail \o Terminal(w)
  BY Zenon DEF Fits, Rendered, LateLines
<1> HIDE DEF tail, b
<1>7. Says(e, p, e.rules) = Or(s1, Or(s2, Or(s3, Or(s4, Or(s5, Or(s6, s7))))))
  BY <1>1, <1>2, <1>3, <1>4, <1>5, <1>6, SevenSay
<1>8. Route(e, p) = Or(Says(e, p, e.rules), "DIRECT")
  BY DEF Route, Says
<1> HIDE DEF s1, s2, s3, s4, s5, s6, s7
<1>9. Route(e, p) = Or(s1, Or(s2, Or(s3, Or(s4, Or(s5, Or(s6, last))))))
  <2>1. Route(e, p) = Or(s1, Or(s2, Or(s3, Or(s4, Or(s5, Or(s6, Or(s7, "DIRECT")))))))
    BY <1>7, <1>8, OrSeven
  <2>2. Or(s7, "DIRECT") = last
    BY <1>5
  <2> QED BY <2>1, <2>2, Zenon
<1>10. Intended(e, p) =
         IF k /\ p.v6 /\ ~Open(set, p.dev) THEN "REJECT"
         ELSE IF w.ts.on /\ p.dst = "tail" THEN IF MayReachTailnet(e, p) THEN "tsnet" ELSE "REJECT"
         ELSE Or(IF p.dev = "mac" THEN OfMac(e, p) ELSE IF k THEN OfDevice(e, p) ELSE Empty,
                 Or(Global(e, p), last))
  <2>1. e.doc = set /\ e.world = w
    BY DEF Fits
  <2>2. Known(e, p) <=> k
    BY <2>1 DEF Known, IsKnown
  <2> QED BY <2>1, <2>2 DEF Intended, Open
<1>11. k => Or(OfDevice(e, p), Or(Global(e, p), last)) = Or(mine, Or(Global(e, p), Or(late, last)))
  BY DeviceCarriedOut
<1>12. p.dev = "mac" => ~k
  BY DEF IsKnown, Devices
<1>13. "REJECT" # Empty /\ "tsnet" # Empty
  BY DEF Empty
<1> HIDE DEF k, mine, late, last
<1>14. \A x : Or(Empty, x) = x
  BY OrIs
<1>15. CASE k /\ p.v6 /\ ~Open(set, p.dev)
  <2>1. s1 = "REJECT"
    BY <1>1, <1>15
  <2> QED BY <1>9, <1>10, <1>13, <1>15, <2>1 DEF Or
<1>16. CASE ~(k /\ p.v6 /\ ~Open(set, p.dev))
  <2>1. s1 = Empty
    BY <1>1, <1>16
  <2>2. CASE w.ts.on /\ p.dst = "tail"
    BY <1>2, <1>9, <1>10, <1>13, <1>14, <1>16, <2>1, <2>2 DEF Or
  <2>3. CASE ~(w.ts.on /\ p.dst = "tail")
    <3>1. s2 = Empty
      BY <1>2, <2>3
    <3>2. Route(e, p) = Or(s3, Or(s4, Or(Global(e, p), Or(s6, last))))
      BY <1>5, <1>9, <1>14, <2>1, <3>1
    <3>3. Intended(e, p) = Or(IF p.dev = "mac" THEN OfMac(e, p) ELSE IF k THEN OfDevice(e, p) ELSE Empty,
                              Or(Global(e, p), last))
      BY <1>10, <1>16, <2>3
    <3>4. CASE p.dev = "mac"
      BY <1>3, <1>4, <1>12, <1>14, <3>2, <3>3, <3>4
    <3>5. CASE p.dev # "mac" /\ k
      BY <1>3, <1>4, <1>11, <1>14, <3>2, <3>3, <3>5
    <3>6. CASE p.dev # "mac" /\ ~k
      BY <1>3, <1>4, <1>14, <3>2, <3>3, <3>6
    <3> QED BY <3>4, <3>5, <3>6
  <2> QED BY <2>2, <2>3
<1> QED BY <1>15, <1>16

(***************************************************************************)
(* Which addresses have lines.                                             *)
(***************************************************************************)
\* Lines by the addresses of D only.
IsFor(D, s) == IsList(s) /\ \A l \in Range(s) : l.who.by = "ip" => l.who.dev \in D

LEMMA ForNone ==
  ASSUME NEW D
  PROVE  /\ IsFor(D, <<>>)
         /\ \A x : (x.who.by = "ip" => x.who.dev \in D) => IsFor(D, <<x>>)
<1>1. \A x : IsList(<<>>) /\ IsList(<<x>>) /\ Range(<<>>) = {} /\ Range(<<x>>) = {x}
  BY ShortList
<1>2. IsFor(D, <<>>)
  BY <1>1 DEF IsFor
<1>3. ASSUME NEW x, x.who.by = "ip" => x.who.dev \in D PROVE IsFor(D, <<x>>)
  <2> DEFINE s == <<x>>
  <2>1. IsList(s) /\ Range(s) = {x}
    BY <1>1
  <2> HIDE DEF s
  <2>2. IsFor(D, s)
    BY <1>3, <2>1 DEF IsFor
  <2> QED BY <2>2 DEF s
<1> QED BY <1>2, <1>3

LEMMA ForOwned ==
  ASSUME NEW D, NEW d \in D, NEW s, Owned(d, s)
  PROVE  IsFor(D, s)
<1>1. ASSUME NEW l, IsOwned(d, l) PROVE l.who.dev \in D
  <2> DEFINE c == l.cond
             t == l.to
  <2>1. l = Line(ByIP(d), c, t)
    BY <1>1 DEF IsOwned
  <2> HIDE DEF c, t
  <2>2. l.who = ByIP(d)
    BY <2>1, LineOf
  <2>3. ByIP(d).dev = d
    BY DEF ByIP
  <2> QED BY <2>2, <2>3
<1> QED BY <1>1 DEF Owned, IsFor

LEMMA ForJoined ==
  ASSUME NEW D, NEW s, NEW t, IsFor(D, s), IsFor(D, t)
  PROVE  IsFor(D, s \o t)
BY JoinedList DEF IsFor

LEMMA ForEach ==
  ASSUME NEW D, NEW n \in Nat, NEW ss, IsMap(ss), DOMAIN ss = 1..n, \A i \in 1..n : IsFor(D, ss[i])
  PROVE  IsFor(D, FlattenSeq(ss))
<1>1. AreLists(ss, n)
  BY DEF AreLists, IsFor
<1> QED BY <1>1, FlattenedList DEF IsFor

LEMMA ForTwice ==
  ASSUME NEW D, NEW w, NEW m, m.dev \in D, NEW s, Owned(m.dev, s)
  PROVE  IsFor(D, Twice(w, m, s))
<1>1. IsFor(D, s)
  BY ForOwned
<1>2. CASE ~w.v6 \/ ~m.mac
  BY <1>1, <1>2 DEF Twice
<1>3. CASE ~(~w.v6 \/ ~m.mac)
  <2> DEFINE ss == [i \in DOMAIN s |-> <<s[i], [s[i] EXCEPT !.who = ByUser(m.dev)]>>]
  <2>1. Twice(w, m, s) = FlattenSeq(ss)
    BY <1>3 DEF Twice, Each
  <2>2. Len(s) \in Nat /\ DOMAIN s = 1..Len(s)
    BY ListIs DEF Owned
  <2>3. IsMap(ss) /\ DOMAIN ss = 1..Len(s) /\ \A i \in 1..Len(s) : ss[i] = <<s[i], ForUser(m.dev, s[i])>>
    BY <2>2 DEF IsMap, ForUser
  <2> HIDE DEF ss
  <2>4. ASSUME NEW i \in 1..Len(s) PROVE IsFor(D, ss[i])
    <3> DEFINE x == s[i]
               y == ForUser(m.dev, x)
    <3>1. x \in Range(s)
      BY <2>2 DEF Range
    <3> HIDE DEF x
    <3>2. x.who.by = "ip" => x.who.dev \in D
      BY <1>1, <3>1 DEF IsFor
    <3>3. y.who.by # "ip"
      <4>1. x = Line(ByIP(m.dev), x.cond, x.to)
        BY <3>1 DEF Owned, IsOwned
      <4>2. \A c, t : ForUser(m.dev, Line(ByIP(m.dev), c, t)).who = ByUser(m.dev)
        BY DEF Line, ForUser
      <4>3. y.who = ByUser(m.dev)
        BY <4>1, <4>2, Zenon
      <4> QED BY <4>3 DEF ByUser
    <3> HIDE DEF y
    <3>4. IsFor(D, <<x>>) /\ IsFor(D, <<y>>)
      BY <3>2, <3>3, ForNone
    <3>5. IsFor(D, <<x>> \o <<y>>)
      BY <3>4, ForJoined
    <3>6. <<x>> \o <<y>> = <<x, y>>
      BY PairJoined
    <3> QED BY <2>3, <3>5, <3>6 DEF x, y
  <2> QED BY <2>1, <2>2, <2>3, <2>4, ForEach
<1> QED BY <1>2, <1>3

LEMMA OwnLine ==
  ASSUME NEW d, NEW a, NEW to
  PROVE  Owned(d, <<Line(ByIP(d), a, to)>>)
<1> DEFINE x == Line(ByIP(d), a, to)
<1>1. IsOwned(d, x)
  BY DEF IsOwned, Line
<1> HIDE DEF x
<1>2. Owned(d, <<x>>)
  BY <1>1, ShortList DEF Owned
<1> QED BY <1>2 DEF x

\* A device that has a line is one of the bundle.
LEMMA SectionsFor ==
  ASSUME NEW e, NEW set, NEW w, NEW res, Fits(e, set, w, res), NEW b, b = Bundle(set, w, res),
         NEW D, \A i \in 1..Len(b) : b[i].dev \in D
  PROVE  IsFor(D, Rendered(w, b))
<1>1. /\ Len(b) \in Nat /\ DOMAIN b = 1..Len(b)
      /\ \A i \in 1..Len(b) : /\ Owned(b[i].dev, b[i].override) /\ Owned(b[i].dev, b[i].dedicated)
                              /\ Owned(b[i].dev, b[i].defaults)
  <2>1. /\ Len(b) \in Nat /\ DOMAIN b = 1..Len(b)
        /\ \A i \in 1..Len(b) : /\ b[i].dev \in Devices /\ Active(set, w, b[i].dev)
                                /\ b[i] = Compiled(set, res, b[i].dev)
    BY Members
  <2>2. ASSUME NEW i \in 1..Len(b)
        PROVE  Owned(b[i].dev, b[i].override) /\ Owned(b[i].dev, b[i].dedicated) /\ Owned(b[i].dev, b[i].defaults)
    <3> DEFINE m == b[i]
               d == m.dev
               x == Compiled(set, res, d)
    <3>1. d \in Devices /\ Active(set, w, d) /\ m = x
      BY <2>1
    <3> HIDE DEF d
    <3>2. Owned(d, x.override) /\ Owned(d, x.dedicated) /\ Owned(d, x.defaults)
      BY <3>1, CompiledOwned
    <3> HIDE DEF m, x
    <3>3. Owned(d, m.override) /\ Owned(d, m.dedicated) /\ Owned(d, m.defaults)
      BY <3>1, <3>2
    <3> QED BY <3>3 DEF d, m
  <2> QED BY <2>1, <2>2
<1>2. IsFor(D, BypassRejects(w, b))
  <2> DEFINE X(m) == IF w.v6 /\ m.bypass /\ m.mac THEN <<Line(ByUser(m.dev), Anything, To("REJECT"))>> ELSE <<>>
             ss == [i \in DOMAIN b |-> X(b[i])]
  <2>1. BypassRejects(w, b) = FlattenSeq(ss)
    BY DEF BypassRejects, Each
  <2>2. IsMap(ss) /\ DOMAIN ss = 1..Len(b) /\ \A i \in 1..Len(b) : ss[i] = X(b[i])
    BY <1>1 DEF IsMap
  <2> HIDE DEF ss
  <2>3. ASSUME NEW m PROVE IsFor(D, X(m))
    <3> DEFINE x == Line(ByUser(m.dev), Anything, To("REJECT"))
    <3>1. x.who.by # "ip"
      BY DEF Line, ByUser
    <3> HIDE DEF x
    <3>2. IsFor(D, <<x>>) /\ IsFor(D, <<>>)
      BY <3>1, ForNone
    <3> QED BY <3>2 DEF x
  <2> HIDE DEF X
  <2>4. \A i \in 1..Len(b) : IsFor(D, ss[i])
    BY <2>2, <2>3
  <2> QED BY <1>1, <2>1, <2>2, <2>4, ForEach
<1>3. IsFor(D, TailscaleRules(w, b))
  <2> DEFINE X(m) == IF m.dev \in w.ts.devs
                     THEN Twice(w, m, <<Line(ByIP(m.dev), At("tail"), To("tsnet"))>>) ELSE <<>>
             ss == [i \in DOMAIN b |-> X(b[i])]
             x == Line(Mac, At("tail"), To("tsnet"))
             y == Line(AnyOne, At("tail"), To("REJECT"))
             mac == IF w.ts.mac THEN <<x>> ELSE <<>>
             f == FlattenSeq(ss)
             z == <<y>>
  <2>1. TailscaleRules(w, b) = IF ~w.ts.on THEN <<>> ELSE mac \o f \o z
    BY DEF TailscaleRules, Each
  <2>2. IsMap(ss) /\ DOMAIN ss = 1..Len(b) /\ \A i \in 1..Len(b) : ss[i] = X(b[i])
    BY <1>1 DEF IsMap
  <2> HIDE DEF ss
  <2>3. ASSUME NEW m, m.dev \in D PROVE IsFor(D, X(m))
    <3> DEFINE l == <<Line(ByIP(m.dev), At("tail"), To("tsnet"))>>
    <3>1. Owned(m.dev, l)
      BY OwnLine
    <3> HIDE DEF l
    <3>2. IsFor(D, Twice(w, m, l)) /\ IsFor(D, <<>>)
      BY <2>3, <3>1, ForTwice, ForNone
    <3> QED BY <3>2 DEF l
  <2> HIDE DEF X
  <2>4. IsFor(D, f)
    <3>1. \A i \in 1..Len(b) : IsFor(D, ss[i])
      BY <2>2, <2>3
    <3> QED BY <1>1, <2>2, <3>1, ForEach
  <2>5. x.who.by # "ip" /\ y.who.by # "ip"
    BY DEF Line, Mac, AnyOne
  <2> HIDE DEF x, y
  <2>6. IsFor(D, <<x>>) /\ IsFor(D, z) /\ IsFor(D, <<>>)
    BY <2>5, ForNone
  <2>7. IsFor(D, mac)
    BY <2>6
  <2> HIDE DEF mac, f, z
  <2>8. IsFor(D, mac \o f)
    BY <2>4, <2>7, ForJoined
  <2>9. IsFor(D, mac \o f \o z)
    BY <2>6, <2>8, ForJoined
  <2> QED BY <2>1, <2>6, <2>9
<1>4. IsFor(D, LocalRules)
  <2> DEFINE p == Line(Mac, At("lan"), To("DIRECT"))
             q == Line(Mac, At("tail"), To("DIRECT"))
             r == Line(Mac, [Anything EXCEPT !.proto = "tcp"], TCP)
             t == Line(Mac, [Anything EXCEPT !.proto = "udp"], UDP)
  <2>1. LocalRules = <<p, q, r, t>>
    BY DEF LocalRules
  <2>2. p.who.by # "ip" /\ q.who.by # "ip" /\ r.who.by # "ip" /\ t.who.by # "ip"
    BY DEF Line, Mac
  <2> HIDE DEF p, q, r, t
  <2>3. <<p, q, r, t>> \in Seq({p, q, r, t}) /\ DOMAIN <<p, q, r, t>> = 1..4
    OBVIOUS
  <2> DEFINE s == <<p, q, r, t>>
  <2>4. s \in Seq({p, q, r, t}) /\ DOMAIN s = 1..4 /\ \A i \in 1..4 : s[i] \in {p, q, r, t}
    BY <2>3
  <2>5. LocalRules = s
    BY <2>1
  <2> HIDE DEF s
  <2>6. IsList(s)
    BY <2>4, ListOf
  <2>7. \A l \in Range(s) : l \in {p, q, r, t}
    BY <2>4 DEF Range
  <2>8. IsFor(D, s)
    BY <2>2, <2>6, <2>7 DEF IsFor
  <2> QED BY <2>5, <2>8
<1>5. IsFor(D, Imported(w)) /\ IsFor(D, Terminal(w))
  <2> DEFINE x == Line(AnyOne, At("media"), To("A"))
             y == Line(AnyOne, Anything, To(w.match))
  <2>1. x.who.by # "ip" /\ y.who.by # "ip"
    BY DEF Line, AnyOne
  <2>2. /\ Imported(w) = IF "A" \in w.offered THEN <<x>> ELSE <<>>
        /\ Terminal(w) = IF w.match \in w.offered \cup Builtin THEN <<y>> ELSE <<>>
    BY DEF Imported, Terminal
  <2> HIDE DEF x, y
  <2>3. IsFor(D, <<x>>) /\ IsFor(D, <<y>>) /\ IsFor(D, <<>>)
    BY <2>1, ForNone
  <2> QED BY <2>2, <2>3
<1>6. ASSUME NEW ls, \A i \in 1..Len(b) : Owned(b[i].dev, ls[i])
      PROVE  IsFor(D, FlattenSeq(TwiceEach(w, b, ls)))
  <2> DEFINE ss == TwiceEach(w, b, ls)
  <2>1. IsMap(ss) /\ DOMAIN ss = 1..Len(b) /\ \A i \in 1..Len(b) : ss[i] = Twice(w, b[i], ls[i])
    BY <1>1 DEF TwiceEach, IsMap
  <2> HIDE DEF ss
  <2>2. \A i \in 1..Len(b) : IsFor(D, ss[i])
    BY <1>6, <2>1, ForTwice
  <2> QED BY <1>1, <2>1, <2>2, ForEach DEF ss
<1>7. ASSUME NEW m, m.dev \in D PROVE IsFor(D, HomeOf(w, m))
  <2> DEFINE s == <<Line(ByIP(m.dev), At("lan"), To("DIRECT"))>>
             t == <<Line(ByIP(m.dev), At("tail"), To("DIRECT"))>>
  <2>1. Owned(m.dev, s) /\ Owned(m.dev, t)
    BY OwnLine
  <2>2. HomeOf(w, m) = IF m.mode # "dedicated" THEN <<>> ELSE Twice(w, m, s) \o t
    BY Zenon DEF HomeOf
  <2> HIDE DEF s, t
  <2>3. IsFor(D, Twice(w, m, s)) /\ IsFor(D, t) /\ IsFor(D, <<>>)
    BY <1>7, <2>1, ForTwice, ForOwned, ForNone
  <2> DEFINE u == Twice(w, m, s)
  <2> HIDE DEF u
  <2>4. IsFor(D, u \o t)
    BY <2>3, ForJoined DEF u
  <2> QED BY <2>2, <2>3, <2>4 DEF u
<1> DEFINE hs == [i \in DOMAIN b |-> HomeOf(w, b[i])]
           os == [i \in DOMAIN b |-> b[i].override]
           ds == [i \in DOMAIN b |-> b[i].dedicated]
           ls == [i \in DOMAIN b |-> b[i].defaults]
           h == FlattenSeq(hs)
           o == FlattenSeq(TwiceEach(w, b, os))
           d == FlattenSeq(TwiceEach(w, b, ds))
           l == FlattenSeq(TwiceEach(w, b, ls))
<1>8. DeviceRules(w, b) = h \o o \o d /\ LateLines(w, b) = l
  <2>1. [i \in DOMAIN b |-> Twice(w, b[i], b[i].override)] = TwiceEach(w, b, os)
    BY DEF TwiceEach
  <2>2. [i \in DOMAIN b |-> Twice(w, b[i], b[i].dedicated)] = TwiceEach(w, b, ds)
    BY DEF TwiceEach
  <2>3. [i \in DOMAIN b |-> Twice(w, b[i], b[i].defaults)] = TwiceEach(w, b, ls)
    BY DEF TwiceEach
  <2>4. DeviceRules(w, b) =
          FlattenSeq([i \in DOMAIN b |-> HomeOf(w, b[i])])
          \o FlattenSeq([i \in DOMAIN b |-> Twice(w, b[i], b[i].override)])
          \o FlattenSeq([i \in DOMAIN b |-> Twice(w, b[i], b[i].dedicated)])
    BY DEF DeviceRules, Each, HomeOf
  <2>5. LateLines(w, b) = FlattenSeq([i \in DOMAIN b |-> Twice(w, b[i], b[i].defaults)])
    BY DEF LateLines, Each
  <2> HIDE DEF os, ds, ls
  <2> QED BY <2>1, <2>2, <2>3, <2>4, <2>5, Zenon
<1>9. IsFor(D, h)
  <2>1. IsMap(hs) /\ DOMAIN hs = 1..Len(b) /\ \A i \in 1..Len(b) : hs[i] = HomeOf(w, b[i])
    BY <1>1 DEF IsMap
  <2> HIDE DEF hs
  <2>2. \A i \in 1..Len(b) : IsFor(D, hs[i])
    BY <1>7, <2>1
  <2> QED BY <1>1, <2>1, <2>2, ForEach
<1>10. /\ \A i \in 1..Len(b) : Owned(b[i].dev, os[i])
       /\ \A i \in 1..Len(b) : Owned(b[i].dev, ds[i])
       /\ \A i \in 1..Len(b) : Owned(b[i].dev, ls[i])
  BY <1>1
<1> HIDE DEF hs, os, ds, ls, h
<1>11. IsFor(D, o) /\ IsFor(D, d) /\ IsFor(D, l)
  BY <1>6, <1>10
<1> HIDE DEF o, d, l
<1>12. IsFor(D, DeviceRules(w, b)) /\ IsFor(D, LateLines(w, b))
  <2>1. IsFor(D, h \o o)
    BY <1>9, <1>11, ForJoined
  <2>2. IsFor(D, h \o o \o d)
    BY <1>11, <2>1, ForJoined
  <2> QED BY <1>8, <1>11, <2>2
<1>13. Rendered(w, b) = BypassRejects(w, b) \o TailscaleRules(w, b) \o LocalRules \o DeviceRules(w, b)
                        \o Imported(w) \o LateLines(w, b) \o Terminal(w)
  BY Zenon DEF Rendered, LateLines
<1> DEFINE s1 == BypassRejects(w, b) \o TailscaleRules(w, b)
           s2 == s1 \o LocalRules
           s3 == s2 \o DeviceRules(w, b)
           s4 == s3 \o Imported(w)
           s5 == s4 \o LateLines(w, b)
<1>14. IsFor(D, s1)
  BY <1>2, <1>3, ForJoined
<1> HIDE DEF s1
<1>15. IsFor(D, s2)
  BY <1>4, <1>14, ForJoined
<1> HIDE DEF s2
<1>16. IsFor(D, s3)
  BY <1>12, <1>15, ForJoined
<1> HIDE DEF s3
<1>17. IsFor(D, s4)
  BY <1>5, <1>16, ForJoined
<1> HIDE DEF s4
<1>18. IsFor(D, s5)
  BY <1>12, <1>17, ForJoined
<1> HIDE DEF s5
<1>19. IsFor(D, s5 \o Terminal(w))
  BY <1>5, <1>18, ForJoined
<1> QED BY <1>13, <1>19, Zenon DEF s1, s2, s3, s4, s5

(***************************************************************************)
(* A compiled document renders, and reserves what it has rules for.        *)
(***************************************************************************)
LEMMA FitsRenders ==
  ASSUME NEW e, NEW set, NEW w, NEW res, Fits(e, set, w, res)
  PROVE  Renders(w, Bundle(set, w, res))
<1> DEFINE b == Bundle(set, w, res)
           T == Builtin \cup Offers(w)
<1>1. ASSUME NEW g \in Groups(b) PROVE Range(g.of) \subseteq T
  <2>1. /\ g = [name |-> g.name, of |-> Candidates(res, g.name, Named(set, g.name))]
        /\ IsTargets(Named(set, g.name)) /\ Named(set, g.name) # <<>>
    BY GroupIsNamed DEF Fits, Bundle
  <2>2. g.of = Candidates(res, g.name, Named(set, g.name))
    BY <2>1
  <2>3. \A t \in Range(g.of) : Available(res, t)
    BY <2>1, <2>2, CandidatesAre
  <2> HIDE DEF b, T
  <2>4. \A t : Available(res, t) <=> t \in T
    BY AvailableIs DEF T
  <2> QED BY <2>3, <2>4
<1>2. ASSUME NEW i \in DOMAIN b PROVE b[i].actions \subseteq T
  <2> DEFINE m == b[i]
             d == m.dev
             kept == {x \in Range(Rules(set, d)) : RuleKept(res, d, x)}
  <2>1. d \in Devices /\ m = Compiled(set, res, d)
    BY Members
  <2> HIDE DEF d, m
  <2>2. Compiled(set, res, d).actions = IF Open(set, d) THEN {r.action : r \in kept} \ {"none"} ELSE {}
    BY CompiledActions
  <2>3. ASSUME NEW r \in kept, r.action # "none" PROVE r.action \in T
    <3>1. r \in Range(Rules(set, d)) /\ RuleKept(res, d, r)
      OBVIOUS
    <3>2. RuleOK(r)
      BY <2>1, <3>1, DocumentRules DEF Fits
    <3>3. r.policies = <<>>
      BY <2>3, <3>2 DEF RuleOK
    <3>4. Available(res, r.action)
      BY <3>1, <3>3 DEF RuleKept
    <3> QED BY <3>4, AvailableIs
  <2> HIDE DEF kept, T
  <2>4. m.actions \subseteq T
    BY <2>1, <2>2, <2>3
  <2> QED BY <2>4 DEF m
<1> HIDE DEF b, T
<1>3. Targets(b) \subseteq T
  <2> SUFFICES ASSUME NEW t \in Targets(b) PROVE t \in T
    OBVIOUS
  <2>1. (\E g \in Groups(b) : t \in Range(g.of)) \/ (\E i \in DOMAIN b : t \in b[i].actions)
    BY DEF Targets
  <2> QED BY <1>1, <1>2, <2>1
<1> QED BY <1>3 DEF Renders, b, T

\* An address that has lines is reserved for its device.
LEMMA FitsReserved ==
  ASSUME NEW e, NEW set, NEW w, NEW res, Fits(e, set, w, res), w.mode = "dhcp",
         NEW i \in DOMAIN e.rules, e.rules[i].who.by = "ip"
  PROVE  e.rules[i].who.dev \in Reservations(Bundle(set, w, res))
<1> DEFINE b == Bundle(set, w, res)
           D == Reservations(b)
<1>1. ASSUME NEW k \in 1..Len(b) PROVE b[k].dev \in D
  <2> DEFINE m == b[k]
             d == m.dev
  <2>1. d \in Devices /\ Active(set, w, d) /\ m = Compiled(set, res, d) /\ k \in DOMAIN b
    BY Members
  <2> HIDE DEF d, m, b
  <2>2. set[d].mac
    BY <2>1 DEF Active
  <2>3. m.mac = set[d].mac
    <3>1. Compiled(set, res, d).mac = set[d].mac
      BY CompiledFields
    <3> QED BY <2>1, <3>1
  <2>4. b[k].mac
    BY <2>2, <2>3 DEF m
  <2> QED BY <2>1, <2>4 DEF Reservations
<1>2. b = Bundle(set, w, res)
  OBVIOUS
<1> HIDE DEF D, b
<1>3. IsFor(D, Rendered(w, b))
  BY <1>1, <1>2, SectionsFor
<1>4. e.rules = Rendered(w, b)
  BY <1>2 DEF Fits
<1>5. e.rules[i] \in Range(e.rules)
  BY DEF Range
<1>6. e.rules[i].who.dev \in D
  BY <1>3, <1>4, <1>5 DEF IsFor
<1> QED BY <1>2, <1>6 DEF D

(***************************************************************************)
(* Selections that stay within their groups.                               *)
(***************************************************************************)
LEMMA MacGroupsApart ==
  ASSUME NEW w, NEW g \in MacGroups(w), NEW h \in MacGroups(w), g.name = h.name
  PROVE  g = h
<1> DEFINE outlets == Outlets(w)
           too == IF outlets = <<>> THEN <<>> ELSE <<"global">>
           x == <<"PASS", "DIRECT">> \o too
           y == <<"PASS", "DIRECT", "REJECT">> \o too
<1>1. \A k \in MacGroups(w) : \/ k = [name |-> TCP, of |-> x] \/ k = [name |-> UDP, of |-> y]
                              \/ k = [name |-> GLOBAL, of |-> outlets]
  BY DEF MacGroups
<1> HIDE DEF outlets, x, y
<1>2. TCP # UDP /\ TCP # GLOBAL /\ UDP # GLOBAL
  BY DEF TCP, UDP, GLOBAL, Group
<1>3. \A n, o : [name |-> n, of |-> o].name = n
  OBVIOUS
<1> QED BY <1>1, <1>2, <1>3

LEMMA MacGroupsAre ==
  ASSUME NEW w, IsWorld(w), NEW g \in MacGroups(w)
  PROVE  IsList(g.of) /\ g.of # <<>>
<1> DEFINE outlets == Outlets(w)
           too == IF outlets = <<>> THEN <<>> ELSE <<"global">>
           a == <<"PASS", "DIRECT">>
           b == <<"PASS", "DIRECT", "REJECT">>
           x == a \o too
           y == b \o too
<1>1. \/ g = [name |-> TCP, of |-> x] \/ g = [name |-> UDP, of |-> y]
      \/ outlets # <<>> /\ g = [name |-> GLOBAL, of |-> outlets]
  BY DEF MacGroups
<1>2. /\ a \in Seq({"PASS", "DIRECT"}) /\ Len(a) = 2
      /\ b \in Seq({"PASS", "DIRECT", "REJECT"}) /\ Len(b) = 3
  OBVIOUS
<1>3. IsList(outlets)
  BY OutletNames
<1> HIDE DEF a, b, outlets
<1>4. IsList(too) /\ IsList(a) /\ IsList(b)
  BY <1>2, ShortList, ListOf
<1> HIDE DEF too
<1>5. IsList(x) /\ IsList(y)
  BY <1>4, JoinedList
<1>6. x # <<>> /\ y # <<>>
  <2>1. Len(too) \in Nat /\ Len(x) = Len(a) + Len(too) /\ Len(y) = Len(b) + Len(too)
    BY <1>4 DEF IsList
  <2>2. Len(x) # 0 /\ Len(y) # 0
    BY <1>2, <2>1
  <2> HIDE DEF x, y
  <2> QED BY <2>2
<1> HIDE DEF x, y
<1>7. g.of = x \/ g.of = y \/ (outlets # <<>> /\ g.of = outlets)
  <2>1. CASE g = [name |-> TCP, of |-> x]
    BY <2>1
  <2>2. CASE g = [name |-> UDP, of |-> y]
    BY <2>2
  <2>3. CASE outlets # <<>> /\ g = [name |-> GLOBAL, of |-> outlets]
    <3>1. g.of = outlets
      BY <2>3
    <3> QED BY <2>3, <3>1
  <2> QED BY <1>1, <2>1, <2>2, <2>3, Zenon
<1> QED BY <1>3, <1>5, <1>6, <1>7, Zenon

LEMMA ListContains ==
  ASSUME NEW s, IsList(s)
  PROVE  /\ \A t : Contains(s, t) => t \in Range(s)
         /\ s # <<>> => s[1] \in Range(s)
<1>1. Len(s) \in Nat /\ DOMAIN s = 1..Len(s)
  BY ListIs
<1>2. \A t : Contains(s, t) => t \in Range(s)
  BY <1>1 DEF Contains, Range
<1>3. ASSUME s # <<>> PROVE s[1] \in Range(s)
  <2>1. Len(s) # 0
    BY <1>3 DEF IsList
  <2>2. 1 \in DOMAIN s
    BY <1>1, <2>1
  <2> QED BY <2>2 DEF Range
<1> QED BY <1>2, <1>3

LEMMA SelectedIn ==
  ASSUME NEW g, IsList(g.of), g.of # <<>>
  PROVE  Selected(g) \in Range(g.of)
BY ListContains DEF Selected

\* One selection of what its group has keeps an engine what it was.
Selects(e, f, n, t) ==
    /\ f.doc = e.doc /\ f.world = e.world /\ f.rules = e.rules /\ DOMAIN f.sel = DOMAIN e.sel
    /\ \A x \in DOMAIN e.sel : f.sel[x] = IF x = n THEN t ELSE e.sel[x]

\* A selection of one of a group's candidates leaves the engine as compiled.
LEMMA FitsSelected ==
  ASSUME NEW e, NEW set, NEW w, NEW res, Fits(e, set, w, res),
         NEW f, NEW n, NEW t, Selects(e, f, n, t),
         \A g \in Groups(Bundle(set, w, res)) \cup MacGroups(w) : g.name = n => t \in Range(g.of)
  PROVE  Fits(f, set, w, res)
BY DEF Fits, Selects

(***************************************************************************)
(* The engine that runs is one that a compiled document made.              *)
(***************************************************************************)
\* The engine has the groups and the reservations of a bundle, and rendered.
MadeWith(e, b) == e.groups = Groups(b) /\ e.reserved = Reservations(b) /\ e.ok

\* A running engine was made from its document, whatever selections were found then.
Made(e) ==
    e.on # "off" => \E found :
        LET res == Resolution(e.doc, e.world, found) IN
        Fits(e, e.doc, e.world, res) /\ MadeWith(e, Bundle(e.doc, e.world, res))

\* The inductive invariant of the policies.
PolicyInv == ChoiceInv /\ Made(eng)

\* An engine that is started was made from the document.
LEMMA RunMakes ==
  ASSUME ChoiceInv, NEW kind \in {"prepared", "gateway"}, Run(kind)
  PROVE  Made(eng')
<1>1. PICK found : eng' = Engine(kind, found)
  BY DEF Run
<1> DEFINE res == Resolution(doc, world, found)
           b == CompilePolicySet(doc, world, res)
           e == Engine(kind, found)
<1>0. IsDocument(doc) /\ IsWorld(world) /\ e = Engine(kind, found)
  BY DEF ChoiceInv
<1> HIDE DEF e
<1>2. /\ e.on = kind /\ e.rules = Rendered(world, b) /\ e.groups = Groups(b) /\ e.kept = res.sel
      /\ e.world = world /\ e.reserved = Reservations(b) /\ e.doc = doc /\ e.ok = Renders(world, b)
      /\ DOMAIN e.sel = {g.name : g \in Groups(b) \cup MacGroups(world)}
      /\ \A g \in Groups(b) : e.sel[g.name] = Selected(g)
      /\ \A n \in DOMAIN e.sel : \E g \in Groups(b) \cup MacGroups(world) :
             g.name = n /\ e.sel[n] = Selected(g)
  BY <1>0, EngineIs
<1>3. ~res.all /\ res.avail = Offers(world)
  BY DEF Resolution
<1>4. ASSUME NEW g \in Groups(b) PROVE g.name \in DOMAIN e.sel /\ e.sel[g.name] \in Range(g.of)
  <2>1. /\ g = [name |-> g.name, of |-> Candidates(res, g.name, Named(doc, g.name))]
        /\ IsTargets(Named(doc, g.name)) /\ Named(doc, g.name) # <<>> /\ g.of # <<>>
    BY <1>0, GroupIsNamed
  <2>2. g.of = Candidates(res, g.name, Named(doc, g.name))
    BY <2>1
  <2>3. g.of \in Seq(Range(Named(doc, g.name)))
    BY <2>1, <2>2, CandidatesAre
  <2>4. Selected(g) \in Range(g.of)
    BY <2>1, <2>3, ListOf, SelectedIn
  <2> HIDE DEF b
  <2> QED BY <1>2, <2>4
<1>5. ASSUME NEW g \in MacGroups(world) PROVE g.name \in DOMAIN e.sel /\ e.sel[g.name] \in Range(g.of)
  <2>1. g.name \in DOMAIN e.sel
    BY <1>2
  <2>2. PICK h \in Groups(b) \cup MacGroups(world) : h.name = g.name /\ e.sel[g.name] = Selected(h)
    BY <1>2, <2>1
  <2>3. h \notin Groups(b)
    <3>1. g.name.dev \notin Devices
      BY MacGroupNames
    <3>2. \A x \in Groups(b) : x.name.dev \in Devices
      BY GroupsOfDevices
    <3> QED BY <2>2, <3>1, <3>2
  <2>4. h = g
    BY <2>2, <2>3, MacGroupsApart
  <2>5. Selected(g) \in Range(g.of)
    BY <1>0, MacGroupsAre, SelectedIn
  <2> QED BY <2>1, <2>2, <2>4, <2>5
<1>6. ASSUME NEW n \in DOMAIN e.sel, n.dev \in Devices PROVE \E g \in Groups(b) : g.name = n
  <2>1. PICK g \in Groups(b) \cup MacGroups(world) : g.name = n
    BY <1>2
  <2>2. g \notin MacGroups(world)
    BY <1>6, <2>1, MacGroupNames
  <2> QED BY <2>1, <2>2
<1> HIDE DEF b, res
<1>7. Fits(e, doc, world, res)
  <2>1. b = Bundle(doc, world, res)
    BY DEF b, Bundle
  <2> QED BY <1>0, <1>2, <1>3, <1>4, <1>5, <1>6, <2>1 DEF Fits
<1>8. MadeWith(e, Bundle(doc, world, res))
  <2>1. Renders(world, Bundle(doc, world, res))
    BY <1>7, FitsRenders
  <2>2. b = Bundle(doc, world, res)
    BY DEF b, Bundle
  <2>3. e.ok
    BY <1>2, <2>1, <2>2
  <2> QED BY <1>2, <2>2, <2>3 DEF MadeWith
<1>9. e = eng' /\ e.doc = doc /\ e.world = world
  BY <1>1, <1>2 DEF e
<1>10. Made(e)
  BY <1>7, <1>8, <1>9 DEF Made, res
<1> QED BY <1>9, <1>10

\* A selection leaves an engine one that was made from its document.
LEMMA SelectMakes ==
  ASSUME PolicyInv, NEW n, NEW t, eng' = [eng EXCEPT !.sel[n] = t], eng.on # "off",
         \A g \in eng.groups \cup MacGroups(eng.world) : g.name = n => t \in Range(g.of)
  PROVE  Made(eng')
<1> DEFINE e == eng'
<1>1. /\ e.on = eng.on /\ e.groups = eng.groups /\ DOMAIN e.sel = DOMAIN eng.sel
      /\ \A x \in DOMAIN eng.sel : e.sel[x] = IF x = n THEN t ELSE eng.sel[x]
  <2>1. IsRun(eng) /\ With(eng, eng', n, t)
    BY DEF PolicyInv, ChoiceInv, Running, IsRun, With
  <2>2. OneSelected(eng, eng', n, t)
    BY <2>1, SelectIs
  <2> QED BY <2>2 DEF OneSelected
<1>2. /\ e.doc = eng.doc /\ e.world = eng.world /\ e.rules = eng.rules
      /\ e.reserved = eng.reserved /\ e.ok = eng.ok
  BY DEF PolicyInv, ChoiceInv, Running, EngFields
<1> HIDE DEF e
<1>3. PICK found : LET res == Resolution(eng.doc, eng.world, found) IN
        Fits(eng, eng.doc, eng.world, res) /\ MadeWith(eng, Bundle(eng.doc, eng.world, res))
  BY DEF PolicyInv, Made
<1> DEFINE res == Resolution(eng.doc, eng.world, found)
<1>4. Fits(eng, eng.doc, eng.world, res) /\ MadeWith(eng, Bundle(eng.doc, eng.world, res))
  BY <1>3
<1> HIDE DEF res
<1>5. Fits(e, eng.doc, eng.world, res)
  <2>1. \A g \in Groups(Bundle(eng.doc, eng.world, res)) \cup MacGroups(eng.world) : g.name = n => t \in Range(g.of)
    BY <1>4 DEF MadeWith
  <2>2. Selects(eng, e, n, t)
    BY <1>1, <1>2 DEF Selects
  <2> QED BY <1>4, <2>1, <2>2, FitsSelected
<1>6. MadeWith(e, Bundle(eng.doc, eng.world, res))
  BY <1>1, <1>2, <1>4 DEF MadeWith
<1>7. Made(e)
  BY <1>2, <1>5, <1>6 DEF Made, res
<1> QED BY <1>7 DEF e

\* No action breaks the invariant of the policies.
LEMMA PolicyStep ==
  ASSUME PolicyInv, [RoutingNext]_routing
  PROVE  PolicyInv'
<1>0. ChoiceInv'
  BY ChoiceStep DEF PolicyInv
<1>c. ChoiceInv
  BY DEF PolicyInv
<1> SUFFICES Made(eng')
  BY <1>0 DEF PolicyInv
<1>1. CASE Prepare \/ Start
  <2>1. PICK kind \in {"prepared", "gateway"} : Run(kind)
    BY <1>1 DEF Prepare, Start
  <2> QED BY <1>c, <2>1, RunMakes
<1>2. CASE Stop
  BY <1>2 DEF Stop, Made, Off
<1>3. ASSUME UNCHANGED eng PROVE Made(eng')
  BY <1>3 DEF PolicyInv
<1>4. ASSUME NEW g, NEW h \in eng.groups, h.name = g, NEW x \in MacGroups(eng.world), x.name = g PROVE FALSE
  BY <1>4, <1>c, MacGroupNames DEF ChoiceInv, Running
<1>5. CASE SelectForDevice
  <2>1. PICK g \in eng.groups : \E k \in DOMAIN g.of : Select(g.name, g.of[k])
    BY <1>5 DEF SelectForDevice
  <2>2. PICK k \in DOMAIN g.of : Select(g.name, g.of[k])
    BY <2>1
  <2>3. eng.on # "off"
    BY <1>c DEF ChoiceInv, Holds, Off
  <2>4. ASSUME NEW h \in eng.groups, h.name = g.name PROVE h = g
    <3>1. PICK found : LET res == Resolution(eng.doc, eng.world, found) IN
        Fits(eng, eng.doc, eng.world, res) /\ MadeWith(eng, Bundle(eng.doc, eng.world, res))
      BY <2>3 DEF PolicyInv, Made
    <3> DEFINE res == Resolution(eng.doc, eng.world, found)
               b == CompilePolicySet(eng.doc, eng.world, res)
    <3>2. IsDocument(eng.doc) /\ g \in Groups(b) /\ h \in Groups(b)
      BY <3>1 DEF Fits, MadeWith, Bundle
    <3> HIDE DEF res
    <3>3. g = [name |-> g.name, of |-> Candidates(res, g.name, Named(eng.doc, g.name))]
      BY <3>2, GroupIsNamed
    <3>4. h = [name |-> h.name, of |-> Candidates(res, h.name, Named(eng.doc, h.name))]
      BY <3>2, GroupIsNamed
    <3> HIDE DEF b
    <3>5. h = [name |-> g.name, of |-> Candidates(res, g.name, Named(eng.doc, g.name))]
      BY <2>4, <3>4, Zenon
    <3> QED BY <3>3, <3>5, Zenon
  <2>5. g.of[k] \in Range(g.of)
    BY DEF Range
  <2>6. \A y \in eng.groups \cup MacGroups(eng.world) : y.name = g.name => g.of[k] \in Range(y.of)
    BY <1>4, <2>4, <2>5
  <2>7. eng' = [eng EXCEPT !.sel[g.name] = g.of[k]]
    BY <2>2 DEF Select
  <2> DEFINE n == g.name
             to == g.of[k]
  <2>8. eng' = [eng EXCEPT !.sel[n] = to]
    BY <2>7
  <2>9. \A y \in eng.groups \cup MacGroups(eng.world) : y.name = n => to \in Range(y.of)
    BY <2>6
  <2> HIDE DEF n, to
  <2> QED BY <2>3, <2>8, <2>9, SelectMakes
<1>6. ASSUME NEW g, NEW t, CanSelect(g, t), Select(g, t) PROVE Made(eng')
  <2>1. eng.on # "off"
    BY <1>6 DEF CanSelect
  <2>2. PICK x \in MacGroups(eng.world) : x.name = g /\ Contains(x.of, t)
    BY <1>6 DEF CanSelect
  <2>3. IsWorld(eng.world)
    BY <2>1 DEF PolicyInv, Made, Fits
  <2>4. t \in Range(x.of)
    BY <2>2, <2>3, MacGroupsAre, ListContains
  <2>5. \A y \in eng.groups \cup MacGroups(eng.world) : y.name = g => t \in Range(y.of)
    <3>1. \A y \in MacGroups(eng.world) : y.name = g => y = x
      BY <2>2, MacGroupsApart
    <3> QED BY <1>4, <2>2, <2>4, <3>1
  <2>6. eng' = [eng EXCEPT !.sel[g] = t]
    BY <1>6 DEF Select
  <2> QED BY <2>1, <2>5, <2>6, SelectMakes
<1>7. CASE Update \/ Move
  BY <1>3, <1>7 DEF Update, Move
<1>8. ASSUME NEW c \in Clients, BeginMode(c) \/ PutNext(c) \/ Verify(c) \/ TakeBack(c)
      PROVE  Made(eng')
  <2>1. UNCHANGED eng \/ \E g, t : CanSelect(g, t) /\ Select(g, t)
    <3>1. BeginMode(c) => UNCHANGED eng
      BY DEF BeginMode
    <3>2. PutNext(c) => UNCHANGED eng \/ \E g, t : CanSelect(g, t) /\ Select(g, t)
      BY DEF PutNext
    <3>3. Verify(c) => UNCHANGED eng
      BY DEF Verify
    <3>4. TakeBack(c) => UNCHANGED eng \/ \E g, t : CanSelect(g, t) /\ Select(g, t)
      BY DEF TakeBack
    <3> QED BY <1>8, <3>1, <3>2, <3>3, <3>4
  <2> QED BY <1>3, <1>6, <2>1
<1>9. CASE UNCHANGED routing
  BY <1>3, <1>9 DEF routing
<1> QED BY <1>1, <1>2, <1>5, <1>7, <1>8, <1>9 DEF RoutingNext

\* A valid policy document always renders, routes every packet as the
\* registration of its device says, and has rules for reserved addresses only
\* (compilePolicySet and composeImportedPolicySections), for every document and
\* source and after any sequence of requests.
THEOREM PolicyAlwaysCarriedOut == RoutingSpec => []PolicyCarriedOut
<1>1. RoutingInit => PolicyInv
  BY ChoiceInit DEF RoutingInit, PolicyInv, Made, Off
<1>2. PolicyInv /\ [RoutingNext]_routing => PolicyInv'
  BY PolicyStep
<1>3. PolicyInv => PolicyCarriedOut
  <2> SUFFICES ASSUME PolicyInv PROVE PolicyCarriedOut
    OBVIOUS
  <2>1. CASE eng.on = "off"
    <3>1. eng.ok
      BY <2>1 DEF PolicyInv, ChoiceInv, Holds, Off
    <3> QED BY <2>1, <3>1 DEF PolicyCarriedOut, AlwaysRenders, RoutesAsConfigured, RulesAreReserved, Working
  <2>2. CASE eng.on # "off"
    <3>1. PICK found : LET res == Resolution(eng.doc, eng.world, found) IN
        Fits(eng, eng.doc, eng.world, res) /\ MadeWith(eng, Bundle(eng.doc, eng.world, res))
      BY <2>2 DEF PolicyInv, Made
    <3> DEFINE res == Resolution(eng.doc, eng.world, found)
    <3>2. Fits(eng, eng.doc, eng.world, res) /\ MadeWith(eng, Bundle(eng.doc, eng.world, res))
      BY <3>1
    <3> HIDE DEF res
    <3>3. \A p \in Packets(eng.world) : Route(eng, p) = Intended(eng, p)
      BY <3>2, RoutedAsIntended
    <3>4. eng.ok /\ eng.reserved = Reservations(Bundle(eng.doc, eng.world, res))
      BY <3>2 DEF MadeWith
    <3>5. eng.world.mode = "dhcp" =>
            \A i \in DOMAIN eng.rules : eng.rules[i].who.by = "ip" => eng.rules[i].who.dev \in eng.reserved
      BY <3>2, <3>4, FitsReserved
    <3> QED BY <3>3, <3>4, <3>5 DEF PolicyCarriedOut, AlwaysRenders, RoutesAsConfigured, RulesAreReserved
  <2> QED BY <2>1, <2>2
<1> QED BY <1>1, <1>2, <1>3, PTL DEF RoutingSpec
=============================================================================
