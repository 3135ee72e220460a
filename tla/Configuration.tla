--------------------------- MODULE Configuration ---------------------------
(***************************************************************************)
(* How the gateway's configuration changes: profiles, Tailscale, topology, *)
(* device policies, and a start that first commits the edited drafts       *)
(* (controlapi/configuration_actions.go, policy_workspace.go), together    *)
(* with the source library they draw on (sources.go, source_delete.go).    *)
(*                                                                         *)
(* A handler of the control service looks at the library and the revision, *)
(* then asks the privileged helper.  The helper holds the lifecycle lock   *)
(* for the whole job: compare the revision again, write the candidate's    *)
(* file, validate, save the configuration, reload the gateway and, if that *)
(* fails, put everything back.  A revision is the digest of a file, so     *)
(* equal contents have equal revisions.                                    *)
(***************************************************************************)
EXTENDS Naturals, FiniteSets

CONSTANTS
    Clients,
    Sources,      \* ids of library entries
    Digests,      \* contents a source may have
    Kinds,        \* the requests this instance makes
    MaxRequests,  \* how many of them
    Faults,       \* what may fail
    MaxFaults     \* how often

AllKinds == {"apply", "tailscale", "topology", "policy", "forget", "start",
             "import", "delete", "overlay", "dns"}
FaultKinds == {"invalid", "save", "reload", "restart", "status", "gone",
               "credential", "remove", "crash"}

ASSUME ConfigurationAssumption ==
    /\ Kinds \subseteq AllKinds /\ Faults \subseteq FaultKinds
    /\ MaxRequests \in Nat /\ MaxFaults \in Nat
    /\ "nobody" \notin Clients /\ "managed" \notin Digests /\ "none" \notin Digests \cup Sources

VARIABLES
    cfg,      \* config.yaml: profile, Tailscale, topology, device policy file
    files,    \* profile files in the data directory
    key,      \* the Tailscale auth key file, 0 if there is none
    ident,    \* the engine has a Tailscale identity
    policy,   \* device-policy.json, 0 if there is none
    base,     \* base.json: the profile a start composed from a known source
    gw,       \* the gateway and what it was started with
    rows,     \* sources.json
    snaps,    \* snapshot files of the library
    creds,    \* sources with a stored URL
    draft,    \* overlay and custom DNS documents, 0 when disabled
    req,      \* the request each client waits for
    job,      \* what the helper does under the lifecycle lock
    events,   \* history: a request ended early, a commit was torn
    asked, left

disk    == <<cfg, files, key, ident, policy, base>>
library == <<rows, snaps, creds, draft>>
bounds  == <<asked, left>>
vars    == <<disk, gw, library, req, job, events, bounds>>

Composed == [src : Digests \cup {"managed"}, ovl : 0..1, dns : 0..1]
File     == [by : {"apply", "start", "none"}, of : Composed]
Managed  == [by |-> "none", of |-> [src |-> "managed", ovl |-> 0, dns |-> 0]]
Config   == [prof : File, ts : BOOLEAN, net : 0..1, pol : BOOLEAN]
Plain    == [prof |-> Managed, ts |-> FALSE, net |-> 0, pol |-> FALSE]
Gateway  == [state : {"stopped", "running", "partial"}, cfg : Config, key : 0..2]
Off      == [state |-> "stopped", cfg |-> Plain, key |-> 0]
NoRow    == [cur |-> "none", old |-> {}]
Row      == [cur : Digests \cup {"none"}, old : SUBSET Digests]

NoReq == [kind |-> "none", phase |-> "none", match |-> Plain, on |-> "none",
          of |-> Managed.of, was |-> NoRow, ts |-> FALSE, n |-> 0, locks |-> FALSE]
NoJob == [kind |-> "none", by |-> "nobody", pc |-> "none", want |-> Plain, was |-> Plain,
          seen |-> Plain, ran |-> Off, key |-> 0, n |-> 0, fresh |-> FALSE, base |-> Managed,
          prev |-> Managed, failed |-> "none", restored |-> FALSE, ready |-> FALSE, ok |-> FALSE]

TypeOK ==
    /\ cfg \in Config /\ files \subseteq File /\ key \in 0..2 /\ ident \in BOOLEAN
    /\ policy \in 0..2 /\ base \in File /\ gw \in Gateway
    /\ rows \in [Sources -> Row] /\ snaps \subseteq Sources \X Digests
    /\ creds \subseteq Sources /\ draft \in [ovl : 0..1, dns : 0..1]
    /\ \A c \in Clients :
          /\ req[c].kind \in AllKinds \cup {"none"} /\ req[c].match \in Config
          /\ req[c].of \in [src : Digests \cup {"managed", "none"}, ovl : 0..1, dns : 0..1]
          /\ (req[c].phase = "wait") = (job.by = c)
    /\ {job.want, job.was, job.seen} \subseteq Config /\ job.ran \in Gateway
    /\ events \subseteq {"gone", "torn"} /\ asked \in 0..MaxRequests /\ left \in 0..MaxFaults

With(c, k) == [state |-> "running", cfg |-> c, key |-> IF c.ts THEN k ELSE 0]
Running(c) == With(c, key)
Partial(c) == [Running(c) EXCEPT !.state = "partial"]

\* Installed earlier, with one source in the library; managed, applied, or
\* composed by an earlier start; stopped or running.
Init ==
    /\ \E s \in Sources, d \in Digests, on \in BOOLEAN, k \in 0..1, p \in BOOLEAN :
          /\ rows = [t \in Sources |-> IF t = s THEN [cur |-> d, old |-> {}] ELSE NoRow]
          /\ snaps = {<<s, d>>} /\ creds = {s}
          /\ key = k /\ ident = (k = 1 /\ on) /\ policy \in IF p THEN {1} ELSE 0..1
          /\ \E prof \in {Managed, [by |-> "apply", of |-> [Managed.of EXCEPT !.src = d]],
                          [by |-> "start", of |-> [Managed.of EXCEPT !.ovl = 1]]} :
                /\ cfg = [prof |-> prof, ts |-> k = 1, net |-> 0, pol |-> p]
                /\ files = {prof} \ {Managed}
                /\ base = IF prof.by = "start" THEN prof ELSE Managed
                /\ draft = [ovl |-> prof.of.ovl, dns |-> 0]
          /\ gw = IF on THEN Running(cfg) ELSE Off
    /\ req = [c \in Clients |-> NoReq] /\ job = NoJob
    /\ events = {} /\ asked = 0 /\ left = MaxFaults

Fine == UNCHANGED left
Fault(kind) == kind \in Faults /\ left > 0 /\ left' = left - 1

-----------------------------------------------------------------------------
(***************************************************************************)
(* Requests.  Source mutations exclude each other (sourcesMu), gateway     *)
(* operations too (lifecycleMu); neither lock is waited for.               *)
(***************************************************************************)
UsesLibrary(k) == k \in {"apply", "import", "delete"}
SourcesFree    == \A c \in Clients : ~UsesLibrary(req[c].kind)
LifecycleFree  == \A c \in Clients : ~req[c].locks

Answer(c) == req' = [req EXCEPT ![c] = NoReq]
Reach(c, phase) == req' = [req EXCEPT ![c].phase = phase]

Ask(c, r) ==
    /\ req[c] = NoReq /\ r.kind \in Kinds
    /\ asked < MaxRequests /\ asked' = asked + 1
    /\ UsesLibrary(r.kind) => SourcesFree
    /\ r.locks => LifecycleFree
    /\ req' = [req EXCEPT ![c] = r]
    /\ UNCHANGED <<disk, gw, library, job, events>> /\ Fine

To(kind, locks) == [NoReq EXCEPT !.kind = kind, !.phase = "sent", !.match = cfg, !.locks = locks]
Up == gw.state # "stopped"

\* handleSourceApply composes the profile from the snapshot and both drafts.
AskApply(c) ==
    \E s \in Sources :
        /\ <<s, rows[s].cur>> \in snaps
        /\ Ask(c, [To("apply", Up) EXCEPT !.of =
                      [src |-> rows[s].cur, ovl |-> draft.ovl, dns |-> draft.dns]])

\* 0 keeps the stored key (1, in the beginning).
AskTailscale(c) ==
    \E on \in BOOLEAN, n \in {0, 2} : Ask(c, [To("tailscale", Up) EXCEPT !.ts = on, !.n = n])

\* handleControlConfig; the recovery stage it looks at first is RecoveryStages' part.
AskTopology(c) == Ask(c, To("topology", FALSE))

AskPolicy(c) == cfg.pol /\ Ask(c, [To("policy", FALSE) EXCEPT !.n = policy])

AskForget(c) == Ask(c, To("forget", TRUE))

\* policyWorkspaceDraftInput: what a start composes is read with the revision.
Known(src) == \E s \in Sources : <<s, src>> \in snaps /\ src \in rows[s].old \cup {rows[s].cur}
AskStart(c) ==
    /\ ~Up
    /\ Ask(c, [To("start", TRUE) EXCEPT !.of =
                  [src |-> IF Known(cfg.prof.of.src) THEN cfg.prof.of.src ELSE "none",
                   ovl |-> draft.ovl, dns |-> draft.dns]])

AskImport(c) ==
    \E s \in Sources, d \in Digests :
        Ask(c, [To("import", FALSE) EXCEPT !.phase = "row", !.on = s, !.of.src = d])

\* Mutant: only the current version of a source is compared.
UnusedCurrent(s) == rows[s].cur # cfg.prof.of.src

\* checkSourceUnused
Unused(s) ==
    /\ cfg.prof.of.src \notin rows[s].old \cup {rows[s].cur}
    /\ Up /\ gw.cfg.prof # Managed => gw.cfg.prof.of = cfg.prof.of

AskDelete(c) ==
    \E s \in Sources :
        /\ rows[s] # NoRow /\ Unused(s)
        /\ Ask(c, [To("delete", TRUE) EXCEPT !.phase = "snapshots", !.on = s])

AskOverlay(c) ==
    \E v \in 0..1 : Ask(c, [To("overlay", FALSE) EXCEPT !.phase = "write", !.n = v])

-----------------------------------------------------------------------------
(***************************************************************************)
(* The library: snapshots, credentials, rows and drafts.                   *)
(***************************************************************************)
At(c, kind, phase) == req[c].kind = kind /\ req[c].phase = phase

\* importReader: write the snapshot, then the row; a new content makes the
\* previous one a version.
ImportRow(c) ==
    LET s == req[c].on  d == req[c].of.src  row == rows[s] IN
    /\ At(c, "import", "row")
    /\ snaps' = snaps \cup {<<s, d>>}
    /\ rows' = [rows EXCEPT ![s] = [cur |-> d, old |-> IF row = NoRow \/ row.cur = d
                                               THEN row.old ELSE row.old \cup {row.cur}]]
    /\ \/ Answer(c)  \* a local file has no credential
       \/ req' = [req EXCEPT ![c].phase = "credential", ![c].was = row]
    /\ UNCHANGED <<disk, gw, creds, draft, job, events, asked>> /\ Fine

\* importURL: without a credential the import is taken back.
ImportCredential(c) ==
    LET s == req[c].on IN
    /\ At(c, "import", "credential") /\ Answer(c)
    /\ \/ creds' = creds \cup {s} /\ UNCHANGED <<rows, snaps>> /\ Fine
       \/ /\ Fault("credential") /\ UNCHANGED creds
          /\ rows' = [rows EXCEPT ![s] = req[c].was]
          /\ snaps' = snaps \ {<<s, req[c].of.src>>}
    /\ UNCHANGED <<disk, gw, draft, job, events, asked>>

\* handleSourceDelete: the row stays until everything it names is gone.
DeleteSnapshots(c) ==
    LET s == req[c].on IN
    /\ At(c, "delete", "snapshots")
    /\ \/ snaps' = {x \in snaps : x[1] # s} /\ Reach(c, "credential") /\ Fine
       \/ Answer(c) /\ UNCHANGED snaps /\ Fault("remove")
    /\ UNCHANGED <<disk, gw, rows, creds, draft, job, events, asked>>

DeleteCredential(c) ==
    /\ At(c, "delete", "credential")
    /\ \/ creds' = creds \ {req[c].on} /\ Reach(c, "entry") /\ Fine
       \/ Answer(c) /\ UNCHANGED creds /\ Fault("remove")
    /\ UNCHANGED <<disk, gw, rows, snaps, draft, job, events, asked>>

DeleteRow(c) ==
    /\ At(c, "delete", "entry") /\ Answer(c) /\ Fine
    /\ rows' = [rows EXCEPT ![req[c].on] = NoRow]
    /\ UNCHANGED <<disk, gw, snaps, creds, draft, job, events, asked>>

\* handleProfileOverlay writes after it has compared; nothing holds the file.
WriteOverlay(c) ==
    /\ At(c, "overlay", "write") /\ Answer(c) /\ Fine
    /\ draft' = [draft EXCEPT !.ovl = req[c].n]
    /\ UNCHANGED <<disk, gw, rows, snaps, creds, job, events, asked>>

\* saveCustomDNS compares and writes under the store's mutex.
SaveDNS ==
    /\ "dns" \in Kinds /\ asked < MaxRequests /\ asked' = asked + 1 /\ Fine
    /\ draft' = [draft EXCEPT !.dns = 1 - @]
    /\ UNCHANGED <<disk, gw, rows, snaps, creds, req, job, events>>

-----------------------------------------------------------------------------
(***************************************************************************)
(* Jobs of the helper, each under the lifecycle lock from Begin to Deliver *)
(* (withConfigurationLock, DirectRunner).                                  *)
(***************************************************************************)
Applied(of)  == [by |-> "apply", of |-> of]
Originals    == {base, Managed}
FromDrafts(r) == [by |-> "start", of |-> [r.of EXCEPT !.src = cfg.prof.of.src]]
Plainly(of)  == of.ovl = 0 /\ of.dns = 0
Same(r)      == r.of.ovl = cfg.prof.of.ovl /\ r.of.dns = cfg.prof.of.dns

\* materializeWorkspaceCandidate: can the selected profile be composed anew?
Composable(r) == Same(r) \/ r.of.src # "none" \/ cfg.prof \in Originals \/ Plainly(cfg.prof.of)

StartProfile(r) ==
    IF Plainly(r.of) /\ cfg.prof.of.src = "managed" /\ cfg.prof \in Originals THEN Managed
    ELSE IF Same(r) THEN cfg.prof ELSE FromDrafts(r)

Wanted(r) == CASE r.kind = "apply" -> [cfg EXCEPT !.prof = Applied(r.of)]
               [] r.kind = "tailscale" -> [cfg EXCEPT !.ts = r.ts]
               [] r.kind = "topology" -> [cfg EXCEPT !.net = 1 - @, !.pol = TRUE]
               [] r.kind = "start" -> [cfg EXCEPT !.prof = StartProfile(r)]
               [] r.kind \in {"policy", "forget"} -> cfg

\* Mutant: only the handler compares the revision.
AcceptsAny(r) == Up => r.kind \notin {"topology", "forget", "start"}

\* What a job compares before it changes anything.
Accepts(r) ==
    /\ IF r.kind = "policy" THEN r.n = policy ELSE r.match = cfg
    /\ r.kind \in {"topology", "forget", "start"} => ~Up
    /\ r.kind = "forget" => ~cfg.ts
    /\ r.kind = "tailscale" /\ r.ts /\ r.n = 0 => key # 0 \/ ident
    /\ r.kind = "start" => Composable(r)

\* A candidate that adds a file adds it before it is validated.
NewFiles(r) == IF r.kind = "apply" THEN {Applied(r.of)}
               ELSE IF r.kind = "start" THEN {StartProfile(r)} \ {Managed} ELSE {}

\* Mutant: a file that was there before the job is taken for its own.
FreshAlways(r) == r.kind \in {"apply", "topology"}

Fresh(r) == \/ r.kind = "apply" /\ Applied(r.of) \notin files
            \/ r.kind = "topology" /\ ~cfg.pol /\ policy = 0

\* base.json is written with a composed profile and describes it.
NewBase(r) == IF r.kind = "start" /\ StartProfile(r).by = "start" THEN StartProfile(r) ELSE base

NewJob(c) ==
    LET r == req[c] IN
    [kind |-> r.kind, by |-> c, pc |-> "check", want |-> Wanted(r), was |-> cfg,
     seen |-> r.match, ran |-> gw, key |-> key, n |-> r.n, fresh |-> Fresh(r),
     base |-> NewBase(r), prev |-> base, failed |-> "none", restored |-> FALSE, ready |-> FALSE, ok |-> FALSE]

Begin(c) ==
    LET r == req[c] IN
    /\ r.phase = "sent" /\ job = NoJob
    /\ UNCHANGED <<cfg, ident, base, gw, library, events, asked>> /\ Fine
    /\ \/ /\ Accepts(r)
          /\ job' = NewJob(c)
          /\ files' = files \cup NewFiles(r)
          /\ key' = IF r.kind = "tailscale" /\ r.n # 0 THEN r.n ELSE key
          /\ policy' = IF r.kind = "topology" /\ Fresh(r) THEN 1 ELSE policy
          /\ Reach(c, "wait")
       \/ ~Accepts(r) /\ Answer(c) /\ UNCHANGED <<files, key, policy, job>>

Finish(ok) == job' = [job EXCEPT !.pc = "done", !.ok = ok]

\* cleanupProfile, rollbackKey, createdPolicy: take back what Begin has written.
Undo ==
    /\ files' = IF job.kind = "apply" /\ job.fresh THEN files \ {job.want.prof} ELSE files
    /\ key' = IF job.kind = "tailscale" THEN job.key ELSE key
    /\ policy' = IF job.kind = "topology" /\ job.fresh THEN 0 ELSE policy
    /\ Finish(FALSE)

Doing(pc) == job.pc = pc
Rest == UNCHANGED <<library, req, events, asked>>

\* config.Validate and the engine's own check of the candidate.
Check ==
    /\ Doing("check") /\ UNCHANGED <<cfg, ident, base, gw>> /\ Rest
    /\ \/ job' = [job EXCEPT !.pc = "save"] /\ UNCHANGED <<files, key, policy>> /\ Fine
       \/ Undo /\ Fault("invalid")

\* A change the running engine has to learn.
Reloads(kind) == kind \in {"apply", "tailscale"} /\ Up

\* Save the configuration; a start saves the composition's base before it.
Save ==
    /\ Doing("save") /\ UNCHANGED gw /\ Rest
    /\ \/ /\ Fine /\ UNCHANGED <<files, key>>
          /\ cfg' = IF job.kind = "start" THEN cfg ELSE job.want
          /\ base' = job.base
          /\ policy' = IF job.kind = "policy" THEN 3 - policy ELSE policy
          /\ ident' = (ident /\ job.kind # "forget")
          /\ IF job.kind = "start" THEN job' = [job EXCEPT !.pc = "commit"]
             ELSE IF Reloads(job.kind) THEN job' = [job EXCEPT !.pc = "reload"] ELSE Finish(TRUE)
       \/ Undo /\ UNCHANGED <<cfg, ident, base>> /\ Fault("save")

\* persistPolicyWorkspaceCandidate: then the configuration, or what was written
\* goes back; whether that works for both files is not looked at.
Commit ==
    /\ Doing("commit") /\ UNCHANGED <<files, key, ident, policy, gw, library, req, asked>>
    /\ \/ /\ cfg' = job.want /\ job' = [job EXCEPT !.pc = "takeover"]
          /\ UNCHANGED <<base, events>> /\ Fine
       \/ base' = job.prev /\ Finish(FALSE) /\ UNCHANGED <<cfg, events>> /\ Fault("save")
       \/ /\ cfg' \in {cfg, job.want} /\ base' \in {base, job.prev}
          /\ <<cfg', base'>> # <<cfg, job.prev>> /\ events' = events \cup {"torn"}
          /\ Finish(FALSE) /\ Fault("save")

\* gateway.StartLocked with the committed candidate.
Takeover ==
    /\ Doing("takeover") /\ UNCHANGED <<cfg, files, key, policy, base>> /\ Rest
    /\ \/ gw' = Running(cfg) /\ ident' = (ident \/ cfg.ts) /\ Finish(TRUE) /\ Fine
       \/ gw' \in {Off, Partial(cfg)} /\ UNCHANGED ident /\ Finish(FALSE) /\ Fault("restart")

\* ReloadLocked: a gateway that is not whole is refused; validation leaves it
\* alone; a failed stop leaves it whole or not; a failed start leaves nothing,
\* something, or a gateway with the candidate.
Reload ==
    /\ Doing("reload") /\ UNCHANGED <<cfg, files, key, policy, base>> /\ Rest
    /\ \/ /\ gw.state = "running" /\ gw' = Running(cfg) /\ ident' = (ident \/ cfg.ts)
          /\ Finish(TRUE) /\ Fine
       \/ /\ UNCHANGED ident
          /\ \E phase \in {"validation", "stop", "start"} :
                /\ job' = [job EXCEPT !.pc = "rollback", !.failed = phase]
                /\ CASE phase = "validation" ->
                          UNCHANGED gw /\ (IF gw.state = "running" THEN Fault("reload") ELSE Fine)
                     [] phase = "stop" -> /\ gw.state = "running" /\ Fault("reload")
                                          /\ gw' \in {gw, [gw EXCEPT !.state = "partial"]}
                     [] phase = "start" -> /\ gw.state = "running" /\ Fault("reload")
                                           /\ gw' \in {Off, Partial(cfg), Running(cfg)}

\* Write the original configuration back, and the auth key.
Rollback ==
    /\ Doing("rollback") /\ UNCHANGED <<files, ident, policy, base, gw>> /\ Rest
    /\ \/ /\ cfg' = job.was /\ key' = (IF job.kind = "tailscale" THEN job.key ELSE key) /\ Fine
          /\ job' = [job EXCEPT !.pc = "restart", !.restored = TRUE]
       \/ /\ Fault("save") /\ job' = [job EXCEPT !.pc = "restart"]
          /\ IF job.kind = "tailscale"
             THEN cfg' \in {cfg, job.was} /\ key' \in {key, job.key} /\ <<cfg', key'>> # <<job.was, job.key>>
             ELSE UNCHANGED <<cfg, key>>

\* Mutant: whatever runs after the rollback counts as the previous gateway.
AnyHealthy(started) == gw.state = "running" \/ started

\* Only an untouched gateway, or one started again, is the previous one.
Preserved(started) == (job.failed # "start" /\ gw.state = "running") \/ started

\* restorePreviousGateway, then cleanupProfile where ownership is certain.
Restart ==
    LET again == job.restored /\ ~Up IN
    /\ Doing("restart") /\ UNCHANGED <<cfg, key, policy, base>> /\ Rest
    /\ \E started \in BOOLEAN, seen \in BOOLEAN :
          /\ started => again
          /\ gw' \in IF started THEN {Running(cfg)} ELSE IF again THEN {Off, Partial(cfg)} ELSE {gw}
          /\ ident' = (ident \/ (started /\ cfg.ts))
          /\ IF again /\ ~started THEN Fault("restart") ELSE IF ~seen THEN Fault("status") ELSE Fine
          /\ LET ready == job.restored /\ Preserved(started) /\ seen
                 gone  == job.restored /\ seen /\ gw'.state = "stopped" IN
             /\ job' = [job EXCEPT !.pc = "done", !.ready = ready]
             /\ files' = IF (ready \/ gone) /\ job.kind = "apply" /\ job.fresh
                         THEN files \ {job.want.prof} ELSE files

Deliver ==
    /\ Doing("done") /\ job' = NoJob /\ Fine
    /\ req' = [c \in Clients |-> IF c = job.by THEN NoReq ELSE req[c]]
    /\ UNCHANGED <<disk, gw, library, events, asked>>

-----------------------------------------------------------------------------
\* HelperClient.call: a page that is closed ends its request and frees the
\* locks of the control service; the helper does not notice.
Leave(c) ==
    /\ req[c].phase = "wait" /\ req[c].kind # "start" /\ Answer(c)
    /\ job' = [job EXCEPT !.by = "nobody"] /\ events' = events \cup {"gone"}
    /\ UNCHANGED <<disk, gw, library, asked>> /\ Fault("gone")

\* The helper dies: what is written stays, the lock is free.
Crash ==
    /\ job # NoJob /\ job' = NoJob /\ Fault("crash")
    /\ req' = [c \in Clients |-> IF c = job.by THEN NoReq ELSE req[c]]
    /\ gw' \in {gw} \cup (IF job.pc \in {"reload", "restart", "takeover"} THEN {Partial(cfg)} ELSE {})
    /\ events' = IF job.pc = "commit" THEN events \cup {"torn"} ELSE events
    /\ UNCHANGED <<disk, library, asked>>

\* omg start and omg stop take the same lock.
CliStart == /\ job = NoJob /\ ~Up /\ gw' = Running(cfg) /\ ident' = (ident \/ cfg.ts)
            /\ UNCHANGED <<cfg, files, key, policy, base, library, req, job, events, bounds>>
CliStop  == /\ job = NoJob /\ Up /\ gw' = Off
            /\ UNCHANGED <<disk, library, req, job, events, bounds>>

Request(c) == \/ AskApply(c) \/ AskTailscale(c) \/ AskTopology(c) \/ AskPolicy(c) \/ AskForget(c)
              \/ AskStart(c) \/ AskImport(c) \/ AskDelete(c) \/ AskOverlay(c)
InLibrary(c) == \/ ImportRow(c) \/ ImportCredential(c) \/ DeleteSnapshots(c)
                \/ DeleteCredential(c) \/ DeleteRow(c) \/ WriteOverlay(c)
Helper == Check \/ Save \/ Commit \/ Takeover \/ Reload \/ Rollback \/ Restart \/ Deliver

Next == \/ \E c \in Clients : Request(c) \/ InLibrary(c) \/ Begin(c) \/ Leave(c)
        \/ Helper \/ SaveDNS \/ Crash \/ CliStart \/ CliStop

Spec == Init /\ [][Next]_vars

-----------------------------------------------------------------------------
\* Every file config.yaml or the running gateway names exists, whatever was
\* taken back on the way (applyProfile's cleanup, applyControlConfig's).
FilesKept ==
    /\ \A c \in {cfg, gw.cfg} : c.prof \in files \cup {Managed}
    /\ cfg.pol => policy # 0

\* No accepted edit is lost: a configuration is replaced only by a job whose
\* requester has seen exactly that one, or put back by the job that replaced
\* it; and device policies only by an edit of the ones there are.
NoLostUpdate ==
    [][/\ cfg' # cfg => \/ cfg \in {job.was} \cap {job.seen} /\ cfg' = job.want
                        \/ cfg = job.want /\ cfg' = job.was /\ job.failed # "none"
       /\ policy' # policy /\ job.kind = "policy" => policy = job.n]_vars

\* What a failed reload reports: a restored configuration is the old one with
\* its key, and a ready gateway is the one that ran before, not a candidate.
RollbackIsHonest ==
    job.pc = "done" =>
        /\ job.restored => cfg = job.was /\ (job.kind = "tailscale" => key = job.key)
        /\ job.ready => gw.state = "running" /\ gw \in {job.ran, With(job.was, job.key)}

\* A change reported as done is what is saved, and what a running gateway uses.
DoneIsApplied ==
    job.pc = "done" /\ job.ok =>
        /\ cfg = job.want
        /\ job.kind \in {"apply", "tailscale", "start"} /\ Up => gw = Running(cfg)

\* The user guide: a source that is selected, in any version, is replaced
\* before it can be deleted.
Deleting == \E c \in Clients : At(c, "delete", "snapshots")
SelectedKept == [][Deleting => \A x \in snaps \ snaps' : x[2] # cfg.prof.of.src]_vars

\* It holds as long as no request ends before the helper is done with it.
SelectedKeptByWaiting ==
    [][Deleting /\ "gone" \notin events => \A x \in snaps \ snaps' : x[2] # cfg.prof.of.src]_vars

\* The base says where a profile composed by a start came from, so that it can
\* be composed again without the library.
BaseKept == cfg.prof.by = "start" /\ "torn" \notin events /\ job.pc # "commit" => base = cfg.prof

\* What config.yaml, the running gateway and base.json name is there and is
\* what was composed, after every failure on the way and every cleanup.
FilesAgree == FilesKept /\ BaseKept

\* What an answer says is so: done is saved and running, restored is the old
\* configuration with its key, and ready is the gateway of before.
AnswerIsTrue == RollbackIsHonest /\ DoneIsApplied
=============================================================================
