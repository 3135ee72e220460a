----------------------------- MODULE Operations -----------------------------
(***************************************************************************)
(* Operations of the control service: from a request with an idempotency   *)
(* key to the record that the interface polls (controlapi/server.go,       *)
(* operations.go, store.go), and what the interface shows of the gateway   *)
(* meanwhile (gateway_presentation.go, gateway/status.go).                 *)
(*                                                                         *)
(* A record survives the service, the set of operations under way does     *)
(* not.  The helper and the command line work under one file lock; the     *)
(* service sees of a job that is not its own only that the lock is taken.  *)
(* A sample of the gateway reads one thing after the other.                *)
(***************************************************************************)
EXTENDS Naturals, Sequences, FiniteSets

CONSTANTS
    Keys,        \* idempotency keys and operation ids
    Clients,     \* requests in flight at a time
    Parts,       \* the gateway's processes, in the order a status reads them
    Kinds,       \* the operations this instance asks for
    External,    \* those that the command line may run
    Observed,    \* whether this instance looks at the gateway
    Faults,      \* the kinds of failure this instance may inject
    MaxFaults    \* how many of them

GatewayKinds == {"start", "stop", "reload", "restart"}
FaultKinds   == {"save", "answer", "job", "part", "crash"}
AllParts     == {Parts[i] : i \in 1..Len(Parts)}
Engine       == Parts[1]

\* "probe" stands for the requests that are recorded but have no state to show,
\* take no mutex and do nothing to the gateway (save-device-policy, the probes).
ASSUME OperationsAssumption ==
    /\ Kinds \subseteq GatewayKinds \cup {"probe"} /\ External \subseteq GatewayKinds
    /\ Observed \in BOOLEAN /\ Parts \in Seq(AllParts) /\ Len(Parts) > 0
    /\ Faults \subseteq FaultKinds /\ MaxFaults \in Nat
    /\ Keys \cap Clients = {} /\ {"free", "workspace", "cli", "none"} \cap (Keys \cup Clients) = {}

VARIABLES
    record,   \* operations/<key>.json
    active,   \* gatewayActivity.active: operations this instance runs
    mu,       \* who has lifecycleMu: nobody, a request, an operation, the policy page
    req,      \* what each request has come to
    op,       \* the goroutine of each operation
    file,     \* state.json exists
    up,       \* processes that run
    job,      \* the holder of the lifecycle file lock
    obs,      \* observeGateway: one attempt to sample the gateway
    ran,      \* history: how often the operation of a key was begun
    ended,    \* history: how the job of a key ended
    unseen,   \* history: a job of others that this attempt could not tell
    left      \* fault budget

host == <<file, up, job>>
svc  == <<active, mu, req, op>>
hist == <<ran, ended>>
vars == <<record, svc, host, obs, hist, unseen, left>>

NoRecord == [kind |-> "none", state |-> "none"]
NoReq == [phase |-> "none", key |-> "none", kind |-> "none"]
NoJob == [kind |-> "none", stage |-> "none", key |-> "none"]
NoObs == [phase |-> "idle", next |-> 1, again |-> FALSE, moved |-> FALSE, busy |-> FALSE,
          file |-> FALSE, up |-> {}, was |-> "none", is |-> "none", known |-> FALSE, shown |-> "none"]

Busy    == job # NoJob
Foreign == job.kind \in GatewayKinds /\ job.key \notin active
Known   == active # {} \/ mu = "workspace"
World   == IF ~file THEN "stopped" ELSE IF up = AllParts THEN "running" ELSE "degraded"
Views   == {"none", "stopped", "running", "degraded", "changing", "unknown"} \cup GatewayKinds

TypeOK ==
    /\ record \in [Keys -> [kind : Kinds \cup {"none"},
                            state : {"none", "running", "succeeded", "failed"}]]
    /\ active \subseteq Keys
    /\ mu \in {"free", "workspace"} \cup Clients \cup Keys
    /\ req \in [Clients -> [phase : {"none", "looked", "created"},
                            key : Keys \cup {"none"}, kind : Kinds \cup {"none"}]]
    /\ op \in [Keys -> {"none", "asked", "helped", "well", "badly", "closing"}]
    /\ file \in BOOLEAN /\ up \subseteq AllParts
    /\ job \in [kind : GatewayKinds \cup {"workspace", "none"},
                stage : {"none", "off", "down", "up", "back"}, key : Keys \cup {"cli", "none"}]
    /\ obs \in [phase : {"idle", "begun", "file", "parts", "checked"},
                next : 1..Len(Parts) + 1, again : BOOLEAN, moved : BOOLEAN, busy : BOOLEAN, file : BOOLEAN,
                up : SUBSET AllParts, was : Views, is : Views, known : BOOLEAN, shown : Views]
    /\ ran \in [Keys -> 0..2] /\ ended \in [Keys -> {"none", "well", "badly"}]
    /\ unseen \in {"no", "began", "hidden"} /\ left \in 0..MaxFaults

Init ==
    /\ record = [k \in Keys |-> NoRecord] /\ active = {} /\ mu = "free"
    /\ req = [c \in Clients |-> NoReq] /\ op = [k \in Keys |-> "none"]
    /\ \/ file = FALSE /\ up = {}
       \/ file = TRUE /\ up = AllParts
    /\ job = NoJob /\ obs = NoObs /\ ran = [k \in Keys |-> 0]
    /\ ended = [k \in Keys |-> "none"] /\ unseen = "no" /\ left = MaxFaults

Fine == UNCHANGED left
Fault(kind) == kind \in Faults /\ left > 0 /\ left' = left - 1

-----------------------------------------------------------------------------
(***************************************************************************)
(* A request: look the key up, take the mutex, create the record, go.      *)
(***************************************************************************)
\* Only the sampling between the two snapshots compares generations.
Sampling == obs.phase \notin {"idle", "checked"}
Moves    == obs' = IF Sampling THEN [obs EXCEPT !.moved = TRUE] ELSE obs

Refuse(c) == req' = [req EXCEPT ![c] = NoReq]

\* A key that is on record is answered with its record and changes nothing.
Lookup(c, k, kind) ==
    /\ req[c] = NoReq /\ (kind \in GatewayKinds => record[k] = NoRecord)
    /\ req' = [req EXCEPT ![c] = [phase |-> "looked", key |-> k, kind |-> kind]]
    /\ UNCHANGED <<record, active, mu, op, host, obs, hist>> /\ Fine

Startable(kind) == CASE kind = "start"   -> ~file
                     [] kind = "reload"  -> World = "running"
                     [] kind = "restart" -> file
                     [] kind \in {"stop", "probe"} -> TRUE

\* The mutex is tried, never waited for; the state is looked at under it.
Admitted(c) == (req[c].kind # "probe" => mu = "free") /\ Startable(req[c].kind)

Recorded(c) ==
    /\ record' = [record EXCEPT ![req[c].key] = [kind |-> req[c].kind, state |-> "running"]]
    /\ req' = [req EXCEPT ![c].phase = "created"]
    /\ mu' = IF req[c].kind = "probe" THEN mu ELSE c

\* Mutant: the record is written whether or not there is one.
CreateOver(c) ==
    /\ req[c].phase = "looked" /\ UNCHANGED <<active, op, host, obs, hist>>
    /\ \/ Admitted(c) /\ Recorded(c) /\ Fine
       \/ ~Admitted(c) /\ Refuse(c) /\ UNCHANGED <<record, mu>> /\ Fine

\* CreateOperation looks again, under the store's mutex.
Create(c) ==
    /\ req[c].phase = "looked" /\ UNCHANGED <<active, op, host, obs, hist>>
    /\ \/ Admitted(c) /\ record[req[c].key] = NoRecord /\ Recorded(c) /\ Fine
       \/ /\ ~Admitted(c) \/ record[req[c].key] # NoRecord
          /\ Refuse(c) /\ UNCHANGED <<record, mu>> /\ Fine
       \/ Admitted(c) /\ Refuse(c) /\ UNCHANGED <<record, mu>> /\ Fault("save")

\* The operation becomes visible and goes on in the background.
Launch(c) ==
    LET k == req[c].key IN
    /\ req[c].phase = "created" /\ Refuse(c)
    /\ active' = active \cup {k} /\ Moves
    /\ mu' = IF mu = c THEN k ELSE mu
    /\ op' = [op EXCEPT ![k] = "asked"]
    /\ ran' = [ran EXCEPT ![k] = IF @ < 2 THEN @ + 1 ELSE @]
    /\ UNCHANGED <<record, host, ended>> /\ Fine

-----------------------------------------------------------------------------
(***************************************************************************)
(* The operation in the background.                                        *)
(***************************************************************************)
Kind(k) == record[k].kind
Work(kind, key) == [kind |-> kind, key |-> key,
                    stage |-> IF kind = "start" THEN "off" ELSE "down"]

\* The helper takes the file lock, or refuses.
Take(k) ==
    /\ op[k] = "asked" /\ Kind(k) # "probe"
    /\ IF ~Busy /\ Startable(Kind(k))
       THEN job' = Work(Kind(k), k) /\ op' = [op EXCEPT ![k] = "helped"]
       ELSE UNCHANGED job /\ op' = [op EXCEPT ![k] = "badly"]
    /\ UNCHANGED <<record, active, mu, req, file, up, obs, hist>> /\ Fine

\* The answer is lost, or not there in time; the helper goes on.
Unanswered(k) ==
    /\ op[k] = "helped" /\ Fault("answer") /\ op' = [op EXCEPT ![k] = "badly"]
    /\ UNCHANGED <<record, active, mu, req, host, obs, hist>>

Probed(k) ==
    /\ op[k] = "asked" /\ Kind(k) = "probe"
    /\ \E r \in {"well", "badly"} : /\ op' = [op EXCEPT ![k] = r]
                                    /\ ended' = [ended EXCEPT ![k] = r]
    /\ UNCHANGED <<record, active, mu, req, host, obs, ran>> /\ Fine

\* Mutant: the record says "succeeded" whatever the helper answered.
SaveEndBlind(k) ==
    /\ op[k] \in {"well", "badly"} /\ op' = [op EXCEPT ![k] = "closing"]
    /\ record' = [record EXCEPT ![k].state = "succeeded"] /\ Fine
    /\ UNCHANGED <<active, mu, req, host, obs, hist>>

\* SaveOperation, whose error is ignored.
SaveEnd(k) ==
    /\ op[k] \in {"well", "badly"} /\ op' = [op EXCEPT ![k] = "closing"]
    /\ \/ record' = [record EXCEPT ![k].state =
                       IF op[k] = "well" THEN "succeeded" ELSE "failed"] /\ Fine
       \/ UNCHANGED record /\ Fault("save")
    /\ UNCHANGED <<active, mu, req, host, obs, hist>>

Close(k) ==
    /\ op[k] = "closing" /\ op' = [op EXCEPT ![k] = "none"]
    /\ active' = active \ {k} /\ Moves
    /\ mu' = IF mu = k THEN "free" ELSE mu
    /\ UNCHANGED <<record, req, host, hist>> /\ Fine

\* A request of the policy page holds the same mutex, without a record, and in
\* the helper the file lock; it ends at the latest when the page goes away.
Workspace ==
    /\ \/ mu = "free" /\ mu' = "workspace"
       \/ mu = "workspace" /\ mu' = "free"
    /\ Moves /\ UNCHANGED <<record, active, req, op, host, hist>> /\ Fine

WorkspaceJob ==
    /\ \/ mu = "workspace" /\ ~Busy /\ job' = [NoJob EXCEPT !.kind = "workspace"]
       \/ job.kind = "workspace" /\ job' = NoJob
    /\ UNCHANGED <<record, svc, file, up, obs, hist>> /\ Fine

-----------------------------------------------------------------------------
(***************************************************************************)
(* The job under the file lock, of the helper or the command line.         *)
(***************************************************************************)
Cli(kind) ==
    /\ ~Busy /\ Startable(kind) /\ job' = Work(kind, "cli")
    /\ UNCHANGED <<record, svc, file, up, obs, hist>> /\ Fine

Affected == IF job.kind = "restart" THEN {Engine} ELSE AllParts

\* The job ends; its requester may have given up.
EndJob(result) ==
    /\ job' = NoJob
    /\ op' = [k \in Keys |-> IF k = job.key /\ op[k] = "helped" THEN result ELSE op[k]]
    /\ ended' = [k \in Keys |-> IF k = job.key THEN result ELSE ended[k]]
    /\ UNCHANGED <<record, active, mu, req, obs, ran>>

Onward(stage) == job' = [job EXCEPT !.stage = stage] /\ UNCHANGED <<record, svc, obs, hist>>

Falls(p) ==
    /\ job.stage \in {"down", "back"} /\ p \in up \cap Affected
    /\ up' = up \ {p} /\ UNCHANGED <<record, svc, file, job, obs, hist>> /\ Fine

Fallen == job.stage \in {"down", "back"} /\ up \cap Affected = {}

Stopped ==
    /\ Fallen /\ job.kind # "restart" /\ file' = FALSE /\ UNCHANGED up /\ Fine
    /\ CASE job.stage = "back" -> EndJob("badly")
         [] job.stage = "down" /\ job.kind = "stop"   -> EndJob("well")
         [] job.stage = "down" /\ job.kind = "reload" -> Onward("off")

\* A start journals itself before it touches anything; a restart keeps the file.
Rising ==
    /\ job.stage = "off" \/ (Fallen /\ job.kind = "restart")
    /\ file' = TRUE /\ UNCHANGED up /\ Onward("up") /\ Fine

Rises(p) ==
    /\ job.stage = "up" /\ p \in Affected \ up
    /\ up' = up \cup {p} /\ UNCHANGED <<record, svc, file, job, obs, hist>> /\ Fine

Risen == /\ job.stage = "up" /\ Affected \subseteq up
         /\ EndJob("well") /\ UNCHANGED <<file, up>> /\ Fine

RollsBack == /\ job.stage = "up" /\ job.kind # "restart" /\ Fault("job")
             /\ Onward("back") /\ UNCHANGED <<file, up>>

\* The job cannot go on, or its process dies.
Breaks == Busy /\ Fault("job") /\ EndJob("badly") /\ UNCHANGED <<file, up>>

Job == \/ \E p \in AllParts : Falls(p) \/ Rises(p)
       \/ Stopped \/ Rising \/ Risen

-----------------------------------------------------------------------------
(***************************************************************************)
(* observeGateway: activity, lock, state.json, processes one by one,       *)
(* activity, lock; and once more when one of the pairs differs.            *)
(***************************************************************************)
Sample(o) == obs' = o /\ UNCHANGED <<record, svc, host, hist>> /\ Fine

\* A fresh request, or a second attempt.
Observe == /\ Observed /\ obs.phase = "idle"
           /\ Sample([NoObs EXCEPT !.phase = "begun"])

LockBefore ==
    /\ obs.phase = "begun"
    /\ Sample([obs EXCEPT !.phase = "file", !.busy = Busy, !.was = World])

ReadFile == obs.phase = "file" /\ Sample([obs EXCEPT !.phase = "parts", !.file = file])

ReadPart ==
    /\ obs.phase = "parts" /\ obs.next <= Len(Parts)
    /\ Sample([obs EXCEPT !.next = @ + 1, !.up = @ \cup ({Parts[obs.next]} \cap up)])

Shows == {k \in active : Kind(k) \in GatewayKinds}
ActivityAfter ==
    /\ obs.phase = "parts" /\ obs.next > Len(Parts)
    /\ \E shown \in {Kind(k) : k \in Shows} \cup (IF Shows = {} THEN {"none"} ELSE {}) :
          Sample([obs EXCEPT !.phase = "checked", !.known = Known,
                             !.shown = shown, !.is = World])

\* Mutant: the number of the last change is not compared.
OnlyLockChanged == obs.busy # Busy

Changed == obs.moved \/ obs.busy # Busy

\* deriveGatewayPresentation
Sampled == IF ~obs.file THEN "stopped" ELSE IF obs.up = AllParts THEN "running" ELSE "degraded"
View == IF Changed THEN "unknown"
        ELSE IF obs.shown # "none" THEN obs.shown
        ELSE IF Busy /\ ~obs.known THEN "changing" ELSE Sampled

Retries == Changed /\ ~obs.again
Again  == /\ obs.phase = "checked" /\ Retries
          /\ Sample([NoObs EXCEPT !.phase = "begun", !.again = TRUE])
Answer == obs.phase = "checked" /\ ~Retries /\ Sample(NoObs)

Look == Observe \/ LockBefore \/ ReadFile \/ ReadPart \/ ActivityAfter \/ Again \/ Answer

-----------------------------------------------------------------------------
(***************************************************************************)
(* What dies.                                                              *)
(***************************************************************************)
PartDies ==
    /\ Fault("part") /\ \E p \in up : up' = up \ {p}
    /\ UNCHANGED <<record, svc, file, job, obs, hist>>

\* Mutant: the new instance takes the running records for its own operations.
CrashAdopts ==
    /\ Fault("crash") /\ mu' = "free" /\ obs' = NoObs
    /\ active' = {k \in Keys : record[k].state = "running"}
    /\ req' = [c \in Clients |-> NoReq] /\ op' = [k \in Keys |-> "none"]
    /\ UNCHANGED <<record, host, hist>>

\* The control service dies and is started again; the helper goes on.
Crash ==
    /\ Fault("crash") /\ active' = {} /\ mu' = "free" /\ obs' = NoObs
    /\ req' = [c \in Clients |-> NoReq] /\ op' = [k \in Keys |-> "none"]
    /\ UNCHANGED <<record, host, hist>>

Request(c) == \/ \E k \in Keys, kind \in Kinds : Lookup(c, k, kind)
              \/ Create(c) \/ Launch(c)
Background(k) == Take(k) \/ Probed(k) \/ SaveEnd(k) \/ Close(k)

Step == \/ \E c \in Clients : Request(c)
        \/ \E k \in Keys : Background(k) \/ Unanswered(k)
        \/ Workspace \/ WorkspaceJob \/ (\E kind \in External : Cli(kind))
        \/ Job \/ RollsBack \/ Breaks \/ Look \/ PartDies \/ Crash

\* An attempt begins, another's job begins in it and ends in it, or another's
\* job is at work while the service has something of its own under way.
Unseen == CASE obs'.phase \in {"idle", "begun"} -> "no"
            [] obs'.phase \notin {"idle", "begun"} /\ unseen = "hidden" -> "hidden"
            [] obs'.phase \notin {"idle", "begun"} /\ unseen # "hidden" ->
                 IF (Foreign' /\ Known') \/ (unseen = "began" /\ ~Busy') THEN "hidden"
                 ELSE IF ~Busy /\ Foreign' THEN "began" ELSE unseen

Next == Step /\ unseen' = Unseen

Spec == Init /\ [][Next]_vars

\* The goroutine of an operation runs, and a job goes on: commands have time
\* limits.  Nothing is assumed of requests, observers and the policy page.
FairSpec ==
    /\ Spec /\ WF_vars(Job /\ unseen' = Unseen)
    /\ \A k \in Keys : WF_vars(Background(k) /\ unseen' = Unseen)

-----------------------------------------------------------------------------
\* However a request is repeated, by two pages at a time, after a lost answer or
\* after a crash: the operation of a key is begun at most once.
ExecutedOnce == \A k \in Keys : ran[k] <= 1

\* A record says "succeeded" only of an operation that was carried out once and
\* ended well, whatever died or was lost in between and whoever reads it later.
SuccessIsTrue ==
    \A k \in Keys : record[k].state = "succeeded" => ended[k] = "well" /\ ran[k] = 1

Shown(view) == obs.phase = "checked" /\ obs'.phase = "idle" /\ view = View

Underway(kind) == \E k \in Keys : op[k] # "none" /\ Kind(k) = kind

\* The sample that is shown holds: what is shown as degraded or stopped was so
\* when the sample was complete, and what is shown as running was running when
\* it began; except where another's job came and went in the sample, or
\* was at work while the service did something of its own.  An operation is
\* shown only if somebody carries it out, not because a dead service has left
\* its record as running.
ShownIsTrue ==
    [][/\ unseen # "hidden" =>
             /\ \A view \in {"degraded", "stopped"} : Shown(view) => obs.is = view
             /\ Shown("running") => obs.was = "running"
       /\ ActivityAfter /\ obs'.shown # "none" => Underway(obs'.shown)]_vars

\* "An intermediate absence of a service is not reported as a new fault"
\* (gui-control-plane.md): a gateway at work is not shown as degraded.
NoPartialFault == [][Shown("degraded") => ~Busy]_vars

\* Whatever fails or dies: an operation that is shown comes to an end, and the
\* mutex is free again.
OperationsEnd == \A k \in Keys : k \in active ~> k \notin active
=============================================================================
