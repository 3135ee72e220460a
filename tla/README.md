# Formal model of OpenSurge for Mac

OpenSurge turns a Mac into the gateway of its LAN. It starts a mihomo engine, a
dnsmasq server and, for IPv6, a packet broker; it turns on IP forwarding, loads
a PF anchor, adds an IPv6 address to an interface, and may point the Mac's own
DNS and HTTP proxy at the engine. All of that belongs to the user, and all of it
has to be put back after every failure, cancellation, crash and reboot.

This directory holds TLA+ modules translated from the Go source, the TLC
configurations that check them on small instances, and TLAPS proofs for every
value of the constants. `PROJECT.json` maps each definition to the source lines
it stands for and lists runs, mutants, hazards, findings and theorems.

Contents: 1 the system, 2 the plan, 3 the modules and the code, 4 the runs and
their bounds, 5 fairness, 6 the proofs, 7 where code and documents disagree,
8 what is not modelled.

## 1. The system

Three processes change the host. The **privileged helper**
(`cmd/opensurge-helper`, `controlapi/actions.go`) runs as root under launchd and
does the gateway operations; the **command line** (`cmd/omg`) does the same
operations in a process of its own; the **control service**
(`cmd/opensurge-control`, `internal/controlapi`) runs as the user, serves the web
interface and asks the helper over a Unix socket. Helper and command line
exclude each other with one `flock` per runtime directory that is never waited
for. The control service has a mutex of its own (`lifecycleMu`), and several
handlers that do not take it. Everything that must survive a death is in files:
`state.json`, the DNS backup, the prepared engine's journal, `recovery.json`, the
sleep marker.

| Component | State it keeps | Operations | What is hard | What makes it correct |
|---|---|---|---|---|
| Gateway manager `internal/gateway` | host settings, three children, `state.json`, DNS backup | start with roll-back, stop, reload, restart-mihomo | every step may fail and so may its undoing; death between a mutation and the write that records it; reused PIDs; reboot | nothing is taken over without durable evidence; stopped means stopped; nobody else's process is signalled |
| Lifecycle lock `internal/runtime/lifecycle_lock.go` | one flock | try-lock, probe | the probe takes the lock for a moment | an operation is refused only because of an operation |
| Prepared engine and leases `internal/mihomo/prepared.go`, `controlapi/policy_workspace*.go` | journal, process, lease connections | prepare, stop, reconcile, lease, release with retries | death between fork and identity; a release against a new lease; processes that linger | one engine at a time, each on record, none without a user |
| Takeover and recovery `controlapi/server.go`, `store.go` | `recovery.json`, the recovery card, the Mac's IPv4 mode | nine recovery handlers, start, stop, reload, save configuration | handlers read, work for seconds and write the whole record back, most without a mutex; two windows; crash | no start without evidence, no automatic DHCP under a running gateway, a way out of every stage |
| Engine recovery `controlapi/mihomo_recovery.go` | one controller per service | watch, restart once, show | the round holds nothing between status and action | one attempt per incident, none that starts an engine nobody wants, no incident forgotten |
| Sleep prevention `controlapi/sleep_prevention*.go` | persistent pmset flag, marker, lease connection | enable, disable, hold, retry release | late answers, retries against new leases, both processes dying | the flag is cleared in the end, and only if it is ours |
| Configuration actions `controlapi/configuration_actions.go`, `reload_recovery.go` | `config.yaml`, profile files, auth key, `device-policy.json`, running gateway | apply profile, Tailscale, topology, device policies, forget | several files and a reload, each may fail, and so may their restoration; a request ends while the helper goes on | what is saved, what runs and what is answered agree; no accepted edit is lost |
| Sources and overlays `controlapi/sources.go`, `source_delete.go`, `profile_overlay.go`, `custom_dns.go` | `sources.json`, snapshots, stored URLs, drafts | import, refresh, delete, edit drafts | files of one entry written one by one; deletion against a change of the selection | nothing that is selected disappears; what is selected can be composed again |
| Policy workspace `controlapi/policy_workspace.go` | drafts, lease | prepare, start from drafts | the base and the configuration are two files; stale revisions | a start runs what it committed |
| Operations `controlapi/operations.go`, `gateway_presentation.go`, `gateway/status.go` | operation records, the set of operations under way | create, poll, idempotent retry, sample the gateway | two requests with one key; status read across an operation; records that outlive their service | one operation per key; a record is true; what is shown was so |
| LAN access `controlapi/lan_*.go` | `lan-access.json`, listener, sessions | enable, pause, log in, change the password, log out | passwords are hashed while everything may change; a listener is served by a goroutine that starts later | no session outlives the settings it was opened with; nothing opens by itself on another network |
| Device policy `internal/device`, `mihomo/device_policy*.go`, `tailscale.go`, `local_routing.go` | `device-policy.json`, the engine's selections | compile, render, select, set the mode of the Mac | targets come and go with sources; one rule list serves every device; three selections make one mode | each packet goes where its device's registration, read alone, says |
| Engine configuration `mihomo/config.go`, `profile_overlay.go`, `custom_dns.go`, `dns_references.go` | composed profiles | compose, validate, render, copy for the policy page | a profile is composed once and rendered under other settings; a source's references to its own DNS | no resolver asks itself; the last layer wins; the source decides the rest |
| Host adapters `pf`, `sysctl`, `macosnetwork`, `macosipv6`, `dhcp`, `process` | none of their own | commands | partial failure | outcomes listed at each call in `GatewayLifecycle` |
| IPv6 packet broker `internal/ipv6packet` | packet sockets | forward advertisements | | |
| Desktop, menu bar, web interface, command line parsing | presentation | | | |

How they interact: the control service calls the helper (request and answer over
a socket, with a timeout after which a late answer belongs to nobody); two kinds
of connection are leases whose end is the message (sleep, policy page); helper
and command line share the lock and the files; the monitor and the user's
requests share `lifecycleMu` and the controller; the recovery handlers share the
record only through the store. A change of the configuration is compared with
the revision (the digest of the file) twice, by the service without a lock and
by the helper under the lifecycle lock. The engine reads one rendered file, and
keeps its selections in a cache that outlives it.

## 2. The plan

Order of the modules, the most consequential first. Done:

1. `GatewayLifecycle`, with `TakeoverJournal` as the abstract specification it
   implements, and proofs of both.
2. `SleepLease`: the other persistent setting, with liveness.
3. `RecoveryStages`: the record above the gateway.
4. `PreparedEngine`: the lock, the two actors, the leases; its start and stop of
   the gateway's engine stand for the operations of `GatewayLifecycle`.
5. `MihomoRecovery`: the monitor; its operations stand for those of
   `GatewayLifecycle` too.

6. `Configuration`: every change of the gateway's configuration, and the source
   library.
7. `LanAccess`: listener, pause, sessions, passwords.
8. `DeviceRouting`: what the compiled policies, the rule list and the engine's
   selections do with a packet, against what each registration says alone.
9. `ProfileOverlay`, `CustomDns` and `DnsReferences`: the algorithms of the
   engine's configuration as operators, and `ProfilePipeline`, which puts them
   in their order between the edits of drafts and settings.
10. `Operations`: idempotency keys, records, and what the interface shows of the
    gateway across an operation.
11. Theorems for every safety property of these modules. The proofs about
    `ProfilePipeline` are in `PreparedEngineProofs`, beside those about the engine that runs its result,
    and those about `DeviceRouting` in `MihomoRecoveryProofs`.

What is left:

12. The views that read what others decide (connections, connectivity,
    diagnosis), whose interest is mostly in their texts.

There is one run per module and question. Configurations that show a divergence
or a weaker variant are run by hand (section 7).

## 3. The modules and the code

Each action is one step that the rest of the system can come between, with every
outcome the code has for it. In all modules a failure is an outcome that costs
one of `MaxFaults`, its kind must be in `Faults`, and the history variable
`happened` (where there is one) remembers the kinds, so that a property can say
after which failures it holds. Definitions whose comment begins with "Mutant"
are not part of the specification: each is a plausible bug, named in
`PROJECT.json` beside the property that finds it.

### `GatewayLifecycle`

`mem` is the `runtime.State` value of the running operation, `disk` and `exists`
are `state.json`, `backup` is the file with the user's DNS servers, `op` and `pc`
the operation and its stage. `fwd`, `anchor`, `pfOn`, `alias`, `dns`, `proxy`,
`alive` are the host; `alive[r]` is the set of process instances of role `r`,
`reused[r]` the recorded PIDs that some other process carries by now. A process
instance stands for PID and start time, which is what the code's fingerprint
identifies. `dying[r]` are those that were sent SIGKILL and are still there:
`process.StopPID` answers without an error then and does not look again
(`process.go:126-129`), so that an operation goes on, and `state.json` may go,
while such a process is on its way out. Identity checks and `IsAlive` still see it
(`Present`); `KilledGoes` ends it at some point. What `NothingOrphaned` promises is
therefore that each child is gone or was sent SIGKILL. `base` is how forwarding and
PF were before the gateway.

The stages of `start` (`startWithCommit`, manager.go:300-660) are `prepare`,
`saveInitial`, `forward`, `engine`, `idMihomo`, `broker`, `idBroker`,
`aliasIntent`, `alias`, `dnsmasq`, `idDnsmasq`, `firewall`, `firewallSave`,
`dnsIntent`, `dnsBackup`, `dnsEnable`, `dnsVerified`, `proxy`, `final`; every
failure after the first save goes to the teardown with the state in memory, as
the code's `rollback` does. `stop`, `reload` and the roll-back share the stages
`tdDns` to `tdFinish`. `restart-mihomo` has the stages `rsMark` to `rsEnable`.
A save (`saveState`) replaces the file or fails; with "sync" among the faults it
may fail after having replaced it. Running beside the operation: `ChildExits`,
`PidReused`, `Crash`, `Reboot`, `UserEditsDns`.

`TakeoverJournal` says what that is for: a set of resources taken and a set of
resources on record; a step records, or releases, or takes one recorded
resource. `Journal!Spec` with `taken` and `journal` computed from host and files
is the property `JournalSpec`.

### `SleepLease`

`flag` is pmset's setting, `ours` that a write of ours is outstanding, `marker`
the file, `holders` the helper's counter. `who` and `step` are the operation that
holds the helper's mutex and the command it is at; between two commands the
helper may die and another tool may write the flag. `hend[c]` and `cend[c]` are
the two ends of a connection: the service may give up (`NotGranted`) while the
helper still acquires, and `Granted` may find that nobody wants the lease any
more. `retriers` are the background retries of failed releases.

### `RecoveryStages`

`rec` is `recovery.json` (stage, and how the snapshot found the Mac), `card` the
offline recovery card. A request (`req[c]`) reads the record into `seen`, works
(phase `work`), and saves what it computed from `seen`, whatever the record says
by then: that is what the code does. Gateway operations take `gop`
(`lifecycleMu`) and run in the background. `proven` is the history of the DHCP
probe. `course` is history too: whether two requests overlapped and whether one
came that the network page does not offer; some promises are made to one window
at a time, or to the page, and say so.

### `PreparedEngine`

`proc` gives the state of each process identity (`dying` is a process that was
sent SIGKILL and is not gone), `journal` is `prepared-mihomo/state.json`
(`intent` before the fork, `owned` after), `gateway` the gateway's state file as
far as it names an engine. `op["helper"]` and `op["cli"]` are the operations of
the two processes; their `pc` are the calls of `prepareEngine` and
`stopPreparedLocked`. `conn` and `tries` are the helper's lease connections and
their releases, `lease` the service's idea of its lease, which may be a dead
connection. `Begin` needs `policyManager.mu`; `TakeLock` fails when the other
process has the lock. A release that meets a busy lock has used one of its 120
attempts; the fault "busy" is such an attempt, and otherwise the wait is not counted,
since no operation lasts through all of them. An engine whose DNS port was taken is
told to stop twice before another is started (`prepared.go:165`): `GiveUp` goes back
to `stop` once.

### `MihomoRecovery`

`ctl` is `mihomoRecoveryController` with its counters; `mon` the monitor's round
(`pc`, the status it read, whether an operation has ended since: `old`). `job`
are the operations of the service, of the command line, and one that goes on in
the helper after its service died, also one that had only been sent; a start or a
reload that fails may leave gateway and engine as its roll-back got them (`Replace`),
and a failed reload that left no gateway lowers the stage (`Lowered`). `flock` and `mu` are the two locks, and both
the monitor and the interface (`Readers`) take `flock` to ask about it. `fresh`
is history: a healthy status that was read after the last restart has been
counted; `unrecorded` too: the record of a restart could not be written
(section 7).

### `Configuration`

`cfg` is `config.yaml` as far as the requests change it: the profile, Tailscale
on or off, the topology, whether device policies are named. `files`, `key`,
`policy`, `base` are the files beside it, `gw` the gateway and the configuration
it was started with; `rows`, `snaps`, `creds`, `draft` are the source library and
the two drafts. A revision is the content itself, as the digest in the code
identifies it; that is why a configuration that is changed and changed back is
accepted by both.

`req[c]` is a request in the control service. `UsesLibrary` stands for
`sourcesMu`, `locks` for `lifecycleMu` (which an apply and a Tailscale change
take only while a gateway runs); neither is waited for. The helper's work is one
`job` under the lifecycle lock, and its `pc` are the points where it may fail or
die: `check`, `save`, `commit` and `takeover` (of a start), `reload`, `rollback`,
`restart`, `done`. `Begin` is the second comparison of the revision together with
the files a candidate writes before it is validated. `Leave` is a page that is
closed: its request ends and frees the service's locks, the helper works on.
`Commit` of a start may fail between its two files, and so may the restoration of
the first; that and a death there are the history "torn".

### `LanAccess`

`op` is the holder of `opMu`; every other action is one stretch under `c.mu`.
`disk` is `lan-access.json`, `config`, `problem`, `dirty` the controller's copy;
`server` is the generation of the listener in use and `port` the sockets the
system holds. A listener's goroutine is in `unserved` until it calls `Serve`,
and closing the server before that closes nothing. `req[r]` goes through
`admitted`, `authentic`, `hashing` or `waiting` (for `opMu`), `reading`; between
any two of them `Swap`, `Stop` and `Move` (of the Mac to another network) may
come. `confirmed` and `forgot` are history: the binding was saved since the last
pause; the service died before a pause could be written.

### `DeviceRouting`

`doc` is the policy document, `world` what else decides (topology, LAN, targets
the source offers, Tailscale, IPv6), `eng` the engine with its rule list, groups
and selections, `cache` what survives it. Compilation (`Compiled`), the rule
list (`Rendered` and its parts) and the engine's reading of it (`Route`) are
translated one after the other. `Intended` is the reference: it asks the
registration of one device about one packet, without any rule list. The mode of
the Mac is three selections set one by one (`BeginMode`, `PutNext`, `Verify`)
and taken back one by one (`TakeBack`). A call with an error may still have been
taken (`api.go:259-262`: a client of two seconds, and the request's context); the
change is not among those taken back then, and `lost` remembers it. The engine
takes a call at once or never. `upset` is the history of a change that
was disturbed, `blind` of a prepared engine whose selections were not known.
`IsPolicy` and `IsWorld` say what documents and surroundings are made of, and
`RoutingAssumption` that the cases a run begins with are such, and valid. Two
devices stand for any number: a policy of one is never about another, and with
two a line for the one can come before a line for the other.

### `ProfileOverlay`, `CustomDns`, `DnsReferences`, `ProfilePipeline`

The first three have no variables. `ProfileOverlay` is how an overlay document
is validated and laid over a source. `CustomDns` is the same for the custom DNS
document, its coordination with the DHCP and DNS settings of the gateway and the
domain patterns it must not take. `DnsReferences` finds the resolvers with which
a source refers to its own DNS listener and binds them to the one that runs.
Names are sequences of labels; a resolver is a record of host, port, scheme and
outbound; a field given as one value and not as a list has it at index 0
(`Alone`), and `respect-rules` is its text, which is what the code compares. The
engine listens on 0.0.0.0:1053 and dnsmasq on port 53 asks it, so that `Asks`
follows a resolver at either, at loopback or the LAN address. In a `fake-ip-filter`
by rules the order decides, and `FilterInOrder` says in which order the layers
come. `ProfilePipeline` composes them: `saved` is the composed profile,
`engine` what was rendered of it, and between the two `net` may change. Profiles
composed by an older version (`Legacy`) are among the initial states. The
properties do not repeat the algorithms: who asks whom (`Asks`), the engine's
trie search (`Found`) and the first rule that matches (`Decides`) are defined
from how the engine reads a configuration. `IsSource`, `IsOverlay`, `IsDraft` and
`IsNet` say what the inputs are made of; `PipelineAssumption` says that the given
ones are such, and that `Legacy` are profiles an older version composed.

### `Operations`

`record` are the files `operations/<key>.json`, which survive the service;
`active` is `gatewayActivity.active`, which does not. `req[c]` is a request
between its look at the record (`Lookup`), the mutex and the record
(`Create`: `TryLock`, the state that the operation needs, `CreateOperation`) and
its goroutine (`Launch`); `op[k]` is that goroutine, and `mu` who has
`lifecycleMu`. "probe" stands for the requests that are recorded but take no
mutex and have no state to show. `job` is the holder of the file lock: the
helper's work for an operation, the policy page's, or the command line's. It
moves the gateway in the steps that a status can tell apart: `file`
(`state.json`) and `up` (the processes), which `GatewayLifecycle` has in detail.

`obs` is `observeGateway`: activity, lock, `state.json`, one process after the
other, activity, lock, and the answer or a second attempt. The number
`generation` is only compared within an attempt, so that it is a Boolean here:
whether it has moved since (`moved`). What the attempt saw and what was the case
(`was`, `is`: how the gateway was when it began and when it was complete) are
kept apart. `ran`, `ended` and `unseen` are history; `unseen` tells of a job that
the service has no means to see in this attempt (section 7).

## 4. The runs and their bounds

Run a configuration with `tlc -workers 2 -config X.cfg M`, in this directory.
The times are for two workers on a small machine.

| Run (configuration, module) | Bounds | What it shows |
|---|---|---|
| `lifecycle` (`Lifecycle.cfg`, `MCGatewayLifecycle`) | every kind of failure, two of them; a full and a plain configuration; 3 process instances; 1 reboot | 3.2 million states, 150 s. The takeover is journaled and refines `TakeoverJournal`; the alias has a tracked broker; the proxy goes first; no stray signal; under the failures the properties name, no child, anchor or proxy is left behind and a finished start can be undone by another process (`NothingOrphaned`, `NoDeadProxy`). |
| `sleep` (`Sleep.cfg`, `MCSleepLease`) | all failures except "late", three of them; 2 connections | Safety and liveness of the flag, 7 s. |
| `recovery` (`Recovery.cfg`, `MCRecoveryStages`) | 2 windows, two failures among failing calls, failing saves, service crashes, reboots | 2.1 million states, 130 s. The card outlives every interleaving; evidence, end, running and the way out under the conditions each property states; the documented stage graph. |
| `prepared` (`Prepared.cfg`, `MCPreparedEngine`) | every failure, two of them; 2 connections, 3 process identities, start and stop on the command line | Ownership and journal of the engine, 40 s. |
| `prepared_liveness` (`PreparedLiveness.cfg`) | failures except those of the one reconciliation's lock; no command line | The engine of a page that is gone goes too, 60 s. |
| `restart` (`Restart.cfg`, `MCMihomoRecovery`) | any two failures of every kind; 2 operations asked for; polling interface; the topology with a recovery stage | 0.8 million states, 130 s. One attempt per incident, no engine without a gateway, the interface shows what happens; once the interface stops polling no failure stays unnoticed and no incident open for ever. |
| `configuration` (`Configuration.cfg`, `MCConfiguration`) | 2 clients, 2 sources, 2 contents, 2 requests of any kind, two failures | 0.7 million states, 60 s. Files, answers and the running gateway agree; no accepted edit is lost; a selected source is not deleted while requests wait for their jobs. |
| `lan` (`Lan.cfg`, `MCLanAccess`) | 2 requests, 1 binding, 1 session, 2 hashing slots, 2 saves, 2 moves, 2 logins, 1 failure | 1.1 million states, 45 s. Sessions, pauses and sockets. |
| `routing` (`DeviceRouting.cfg`, `MCDeviceRouting`) | every pair of registration and rule with every topology, source and Tailscale case; a case with 2 changes of source or network; 1 client, 1 failure | 119,000 states, 95 s, each with every packet of 4 senders. |
| `pipeline` (`Pipeline.cfg`, `MCProfilePipeline`) | sources, overlays and custom DNS documents chosen to meet; 2 edits | 130,000 states, 90 s. What the engine is given leads back nowhere but where the code overlooks it; layers decide in their order; names of leases are reserved; the prepared copy is apart. |
| `operations` (`Operations.cfg`, `MCOperations`) | 1 key, 2 clients, 2 processes; reload and probe, a restart by the command line; one failing save, lost answer, broken job, dying process or crash of the service | 2.0 million states, 100 s; with "stop" among the kinds it passes too (3.6 million). An operation is begun once however it is repeated; a record that says so is one of success; a sample that is shown was so, and an operation that is shown somebody carries out. |
| `global_udp_falls` (`GlobalUdpFalls.cfg`, `MCDeviceRouting`) | one source update | A divergence, section 7. |

Why the bounds are enough to be interesting:

- `MaxFaults`. Two is the first number that lets the undoing of a failure fail,
  a death meet a failed write, or a failure hit the second of two windows;
  three lets a retry fail as well. What needs more shows up in the proofs, which
  bound nothing. The budget is not a claim about the world: in the liveness runs
  it says that commands stop failing at some point.
- `MaxBoot = 2` is one reboot after the first boot: state of an older boot met
  by each operation. `Inst` with three members holds a recorded child, one that
  survived its kill and a new one.
- `MaxTries = 3` stands for the 120 attempts of a release
  (`policy_workspace_helper.go`), `MaxStarts = 2` for the three of a start whose
  port was taken: first, last, and for releases one between.
- `MaxJobs` bounds the operations requested, since each resets the monitor's
  counters; with two, an operation of the user, one of the command line and the
  automatic one overlap.
- Two connections and two windows are a lease and its successor, a handler and
  the one that overtakes it. Symmetry among windows, connections, process
  instances is used in safety runs only.
- `Configuration`: two requests are an edit and the one it races with, or two
  edits that restore the first content; two failures are a failed reload and a
  failed restoration of it. Two sources and two contents let two sources share a
  content and one source have two versions.
- `LanAccess`: with one session allowed, the second login meets the limit; with
  two moves the Mac leaves its network and returns; two saves are a password
  reset during a login.
- `DeviceRouting` and `ProfilePipeline`: the inputs are families of small
  documents, one for each feature the algorithms tell apart (`MCDeviceRouting`,
  `MCProfilePipeline`), each combined with each world it can meet.
- `Operations`: two clients are two requests with one key, and one key is one
  operation of this service, whose end and whose absence both meet every point of
  a sample, beside any number of jobs of the command line; two processes are the
  least for a sample in which one was read before and one after a change. Two
  operations that compete for the mutex need a second key: `OperationsEnd.cfg`
  has it, with nobody looking at the gateway, and is run by hand. Its invariants
  hold, and so does `OperationsEnd`: what is shown as running comes to an end
  (0.2 million states, 60 s).
- `CHECK_DEADLOCK FALSE` stands where everything may really have stopped: in
  `PreparedEngine` page closed, service gone, gateway off and no process
  identities left to give; in `Configuration`, `LanAccess`, `DeviceRouting` and
  `ProfilePipeline` the requests, moves, changes or edits are used up and
  everything is at rest. In the other modules a request is always possible.

Where the statements are weaker than one would like, the condition is in the
property and names the history it excludes (`happened`, `course`). The conditions
come from counterexamples of TLC; the cases that contradict a document of the
repository are in section 7.

## 5. Fairness

Only the specifications named `FairSpec` assume any.

- `SleepLease`: goroutines run and an answer that has arrived is read; the retry
  of a failed release has a one second ticker for ever, and the mutex it needs is
  free again and again, which with Go's starvation mode gives strong fairness;
  launchd's `KeepAlive` restarts a helper that died; a service that quits exits.
  Nothing is assumed of the user, and that commands succeed in the end is the
  fault budget.
- `PreparedEngine`: operations under way go on (`OpStep`); launchd restarts the
  helper; a process sent SIGKILL is gone some time; a release that wants
  `policyManager.mu` gets it although requests keep coming (strong fairness, as
  above). Requests and commands are not fair.
- `MihomoRecovery`: the ticker's round goes on, operations run under their
  timeouts and end. `EngineRecovers` is not fair. `IncidentsSettle` is about the
  time after the last probe of the interface: a probe takes the file lock for a
  moment, a round of the monitor that meets one is skipped, and a schedule that
  lets every round meet one would starve the monitor without any single step being
  unfair. Until then the interface polls as it likes. For the same reason
  `MaxJobs` bounds the operations.
- `Operations` (`OperationsEnd.cfg`): the goroutine of an operation runs, and a job goes on, since
  every command in it has a time limit. Nothing is assumed of requests, samples,
  the command line or the policy page; a lost answer ends an operation by its
  timeout.

## 6. The proofs

`tlapm M.tla` checks each; the lifecycle's proofs need about nine minutes from
nothing, as do `PreparedEngineProofs` and `MihomoRecoveryProofs`,
those of the configuration three, the others a minute or two.

No induction theorem of the library is used, since each takes an operator. What a
definition computes along a list is proved from the least number for which it
would be false (`LeastNumber`, `LeastNatural`, from the well-foundedness of <). A
fold or a recursive function is a CHOOSE of a function with an equation; the same
argument gives that there is one for every prefix (`FlatExists`, `KeptExists`), and
from then on the equation may be used.

**`GatewayLifecycleProofs`**, for all configurations, DNS settings, process
instances, reboots, fault kinds and budgets, from `LifecycleAssumption` alone
(types of the constants; "ours" and "none" are not settings of a user; `NoPid` is
no process). What is taken and what the file says of it is the first inductive
invariant:

    IInv == TypeOK /\ Journaled /\ Evidence /\ Memory /\ Staged /\ Undone

`Journaled` itself is not inductive: that a step may take a resource depends on
what the file said when the stage was reached (`Staged`), that a roll-back does
not forget one depends on the agreement of memory and file (`Memory`), that the
file of a live boot is believed depends on its having been written at this boot
from the true baseline (`Evidence`), and that `state.json` may be removed depends
on what the teardown has undone by then (`Undone`). From it: `TypeCorrect`,
`JournaledAlways`, `AliasHasTrackedBrokerAlways` and both in one,
`EvidencedAlways`; and that every step of the lifecycle is a step of
`TakeoverJournal` or leaves it alone (`JournalImplemented`).

The second, on top of the first, is about processes and PF:

    Accounted == /\ Apart /\ Copies /\ Progress /\ Marked
                 /\ Served /\ Rebooted /\ Recorded /\ Firewalled

A child has three records: the operation's memory, `state.json`, and in a restart
of the engine the state from before it. `Copies` says at which stages they agree,
`Progress` what a start has recorded by each stage, `Marked` that without a
failing identity check no PID is recorded without its fingerprint, except one too
young to be reused. `Recorded` says that under the failures that
`StoppedMeansNoChild` names every process that runs is in one of the three, and
which one an operation relies on at each stage; `Rebooted` that none is left of an
earlier boot. `Served` is the engine behind the proxy, and `Firewalled` what is
known of anchor and PF after at most one failure. A process that was sent SIGKILL
leaves `alive` for `dying`, and no part of the invariant relies on its being gone.
They give `ProxyGoesFirstAlways`,
`NoStrayKillAlways`, `NoDeadProxyAlways` and `NothingOrphanedAlways`.

**`SleepLeaseProofs`**: `OursIsMarkedAlways` assuming `"late" \notin Faults`; with
"late" it is false (section 7). The strengthening says where in an operation the
flag may be ours. The rest holds for all failures and any finite set of
connections, by the invariant

    IInv == Shapes /\ Turn /\ Counted /\ Marks /\ Client

The helper's counter is the number of connections that hold, without the one that
has the mutex (`Counted`), and whoever has the mutex works only while it is zero
(`Turn`): a release or a retry never meets a holder. Hence `ActiveIsTrueAlways`.
`OthersFlagIsKept` is the action part of `FlagGivenBack`: the helper has not marked
a flag that it found set (`Marks`), so it never clears it.

**`MihomoRecoveryProofs`**: `TypeCorrect`; `NoEngine`, because only the holder of
the file lock is at work and one at work has found a gateway (`LockInv`);
`OneAttemptHolds` and `ShownHolds`. As long as every restart could be recorded the
controller's flag is the truth, and of the statuses that can be counted after a
restart at most the first is stale, while two are needed (`IncidentInv`); the
history variable `unrecorded` says that a record failed, and nothing is claimed
from then on (`Recorded == unrecorded \/ IncidentInv`).

Its second part is about `DeviceRouting`, for every document of two devices with
rules of any number and form, every source, Tailscale case and number of
callers, from `RoutingAssumption` (the given documents are valid; what carries no
UDP is not built in). `ModeWholeOrBack` has the invariant

    SetterInv == Running /\ Setters /\ Undisturbed

While nothing disturbs a change, the steps done undo to what there was, the steps
to do are of other groups, and every group without a step is as before, but for the
one whose answer was lost (`Undisturbed`, with `Undoes` and `Meant`). Selections for devices go to other groups. For
`ChoiceAlwaysKept`:

    ChoiceInv == /\ IsDocument(doc) /\ IsWorld(world) /\ Running
                 /\ Agrees /\ Holds /\ Remembers /\ (~blind => Kept)

The choices of the user are what the engine's cache has for groups of devices
(`Agrees`), the running groups are groups of the document with candidates of it
(`Holds`), and a prepared engine has kept the choice of each group that it had to
leave out (`Remembers`), so that the gateway that follows finds it there. The
property is `Kept`, written with the helper that resolves a choice.

`PolicyAlwaysCarriedOut` compares the rule list with the reference `Intended`. Its
invariant adds one thing,

    PolicyInv == ChoiceInv /\ Made(eng)

a running engine has the rules, groups and reservations that its document is
compiled to under *some* resolution, and each group has one of its candidates
(`Fits`). That is all a rule list depends on, and a selection leaves it so. The
rest is about lists. `Says(e, p, s)` is what a list of lines decides for a packet;
of two lists it is what the first says, or else the second (`SaysJoined`), and
so for a list of lists (`SaysFlattened`). A line for one device says nothing of
another's packets, so that of the lines of all devices only those of the sender
are left (`OfBundle`); what these say is shown for each of the sections the code
writes: bypass, Tailscale, local modes, home, rules, dedicated defaults, the
source's own, late defaults, MATCH. `RoutedAsIntended` puts them together in
their order (`SevenSay`). That a policy always renders (`FitsRenders`) is that what
it names is offered, built in, or a group of its own; that rules are for reserved
addresses (`FitsReserved`), that each line for an address comes from a member of the
bundle, as each reservation does (`SectionsFor`).

**`ConfigurationProofs`**, for any clients, sources, contents, requests and
failures, from `ConfigurationAssumption`. The invariant is

    IInv == /\ Shapes /\ KeyKept /\ Unsaved /\ Current /\ Saved
            /\ Untouched /\ RolledBack /\ AnswerIsTrue

`AnswerIsTrue` is about the end of a job, the other parts about its stages: until
the configuration is saved it is the one the job began with, and the one its
requester has seen (`Unsaved`, `Current`); from then to a failure it is the
candidate (`Saved`); a gateway that a failed reload has not started again is the
one of before (`Untouched`); after a rollback that succeeded, configuration and
key are the old ones (`RolledBack`); the key a job began with is kept in the job
(`KeyKept`). The whole rests on the helper's lock: only the job writes, and only
from the stage it is at. `AnswersTrue` and `NoUpdateLost` follow.

`FilesAgreeAlways` needs the types too (`TypeInv`), since a policy that is written
gets the next of two numbers, and

    AgreeInv == Named /\ PolicyInv /\ BaseInv

A job names up to three profiles: the candidate's, the one it has found, and the
one of the gateway it has found. All three are there, and what it removes when it
fails is a file of its own that none of the other two is (`Named`). Device policies
are there before a configuration says so, and go only with the job that wrote
them (`PolicyInv`). A start writes the base before the configuration, other jobs
leave it (`BaseInv`). `SelectedKeptAlways` is about the library:

    LibraryInv == OneByOne /\ Listed /\ Revocable /\ Cleared /\ Unselected /\ OneSource

`sourcesMu` lets one request at a time change it (`OneByOne`), every snapshot is of
a content its row knows (`Listed`, and `Revocable` for an import that may be taken
back), what a deletion has cleared stays so (`Cleared`). A deletion has found its
source unused (`Unselected`), and that stays so because a job that changes the
source belongs to a request that waits and has the mutex (`OneSource`).

**`LanAccessProofs`**: `NoStraySocketAlways`, from `Numbered` (generations count
up, and a socket belongs to one of them), and `NeverReopenedAlways`. That one
needs the chain from the file to the listener: what is saved or in memory as open
has been confirmed since the last pause (`SavedOpen`, `ConfigOpen`), an operation
that holds `opMu` either binds anew or keeps what is in force (`Keeps`,
`Permits`, `Written`), and a service that is down has no listener (`Down`).
`SessionsAreCurrentAlways` has the invariant

    SessionInv == TypeOK /\ Ordered /\ Reads /\ Accepting /\ Served /\ Current

A login is accepted when password and generation are what they were before its
hashing; that it then belongs to the listener in use follows from what is known of
a request under way: it was accepted by a listener, the one in use unless another
has been opened or closed since (`Accepting`). Sessions are there only with a
listener (`Served`), and what removes a session cuts the reads it has (`Reads`).
`TypeCorrect` includes the bound on the sessions: a full table has an oldest
session to evict (`Ordered`, which stands for an induction over the table).

**`PreparedEngineProofs`**, for any connections, processes, retries and failures,
of `SingleOwner`, `RecordOutlivesEngine`, `LeasedEngineKept` and
`EngineIsJournaled`, and of `EngineIsAccounted` under a condition. The invariant is

    IInv == Shapes /\ Exclusive /\ Staged /\ World /\ ReleaseAlone

Whoever is past taking the lock has it (`Exclusive`), so that of the two
operations only one is in the middle of the journal. `Staged` says for each stage
of such an operation what journal, gateway record and processes are; `World` says
what they are while nobody is at work (each engine is named by the journal or by
the gateway's record, one process at a time, what lingers was sent SIGKILL).
While a release runs nobody holds or takes a lease (`ReleaseAlone`), which is what
keeps a new page's engine from the release of the old one.

A release gives up after `MaxTries` failed attempts (120 in the code) and then
forgets the engine, so `EngineIsAccounted` cannot hold for any number of failures.
`EngineIsAccountedAlways` says exactly when it does: as long as fewer things have
failed than a release is tried, `MaxFaults - left < MaxTries`. The invariant is

    Awaited == Budget /\ Resting /\ Parties /\ Identified /\ Paid /\ Expected

Every failed attempt costs a failure of its own (`Paid`), one with a slow kill at
the kill (`Owing`); only where the record names no process does a release fail for
nothing, and then there is no engine (`Stuck`, `Identified`), until the next boot
clears the counts. An engine is prepared for a page that has a lease (`Parties`),
and from then on a lease or a release that is tried again waits for it
(`Expected`).

Its second part is about `ProfilePipeline`, for any sources, overlays, drafts,
settings and older profiles, from `PipelineAssumption`. The invariant is

    PipelineInv == /\ input \in Inputs /\ IsDraft(custom) /\ IsNet(net)
                   /\ saved # Absent => Candidate(saved)
                   /\ Runs => RunsCandidate(engine)

A `Candidate` was composed of one input and one draft that passed the checks, or
by an older version; what runs is the rendering of one under settings it fits, or
a prepared copy of that. So each property becomes one about a composition, and
what an engine runs is given by its slots (`Serves`): those of the coordinated
DNS, at the endpoint of this engine where they refer to the source, and at their
own target otherwise, with one more for readiness if any refers to it.
`SelfReferencesAlwaysBound`: what a source asked of its own listener is recognised
after each layer, since the captured targets go where the slots go, an older
profile with such a slot is refused, and what binding accepts (`Bindable`)
leaves a loop no way to close except through what `Overlooked` lists (section 7). `PreparedAlwaysApart`: a copy has the same slots with
another endpoint. `LayersAlwaysInOrder`: an overlay's rules are looked at first or
just before MATCH (the first match of joined lists), a slot of the draft is
never changed later, an origin is rewritten by each layer exactly where it changed
the target, and what a composed profile refers to is in it (`Sound`). For the
filter, the first rule that matches in a joined list is that of the first part that
has one, and leaving out repeated items does not change which it is.

`LeaseNamesAlwaysReserved` compares two algorithms. The check of the code ranks
every pattern that matches a name by a digit for each label (`DomainRank`) and
takes the highest (`BestEntries`); the engine searches a trie from the last label,
a literal label before `*` before what ends in `.`, and goes back (`Found`). At each
path the search may be at (`Follows`), it holds patterns of that branch, none only
where there are none, and none that another of the branch outranks (`RightAt`): the
digits up to the path are the same for all of them and the next one decides
(`NextDigitDecides`). So what the engine finds is among what the check looked at
(`FoundIsBest`). A pattern that matches a name of a lease overlaps the lease names
(`MatchOverlaps`). Aliases the engine follows form a `Chain`; one of at most as many
steps as there are entries stays in what the check reached (`ChainIsReached`), and a
longer one uses an entry twice, which the check calls circular
(`LongChainIsCircular`). Recursive functions are handled by showing that some
function satisfies their equation, for every prefix of a list, of a path or of a
chain, by taking the least one that fails.

**`RecoveryStagesProofs`**, for any clients and failures, of `RecordIsTrue`,
`StartHasEvidence`, `StagesFollowDoc` and `CardKept`. The invariant is

    IInv == /\ TypeOK /\ Linked
            /\ OneWindow => Alone /\ Held /\ Started /\ Network
            /\ OneWindow /\ OnPage => Paged

An operation belongs to the client that waits for it (`Linked`). As long as one
window was used at a time, what a request or an operation has found is still so
when it writes (`Held`, `Started`), and the Mac's network agrees with the stage
(`Network`: a running gateway has its fixed address, one that confirmed or served
with it has the probe's evidence). Who does only what the page offers besides has
a gateway only where the record says so, and a snapshot in every stage
(`Paged`). `CardKept` needs no invariant: each step keeps it.

**`OperationsProofs`**, for any keys, clients, requests, failures and any list of
processes that a sample looks at (`OperationsAssumption`: a nonempty sequence;
keys, clients and the names of the other holders of the mutex differ). The
invariant of `ExecutedOnceAlways` and `SuccessIsTrueAlways` is

    Orderly == TypeOK /\ Requested /\ Begun /\ Working

A key is begun only by the one request that has created its record and not yet
launched it (`Requested`), and a record goes through its states with its operation
and its job, each of which has a part in `Begun`. For `ShownIsTrueAlways` that is
not enough. A sample is true if nothing came and went while it was taken, and the
code knows that from the activity, the lock and the generation it compares. So the
invariant says at each point of a sample what may be concluded if all of them have
been quiet so far:

    Underways /\ Watching

`Underways` is that what is counted as active is what is under way; `Watching` has
`Trusted` (what has been read of the gateway still holds, but for processes that
have died) and `Judged` (what a complete sample says was so), both except where
another's job came between unseen.

What is only model-checked, and why:

- All liveness (`Released`, `IncidentsSettle`, the rest of `FlagGivenBack`): the
  prover has no ENABLED.

## 7. Where code and documents disagree

One run of the list shows a divergence. `global_udp_falls`: the Mac is in global
mode with an outlet that carries UDP. An update of the source drops that outlet,
and after a stop and a start the engine's global group falls to its first
candidate, which does not carry UDP. Whether UDP follows the global group was
decided when the mode was set (`local_routing.go:171-178`), so it still does, the
engine goes on behind it, and UDP of the Mac is left to the rules of the gateway;
`docs/user/local-mac-routing.md:17-20` says it is rejected.

These are run by hand, each a minimal instance that ends in a counterexample:

| Configuration | Property | Case |
|---|---|---|
| `SleepLate.cfg` | `Restored` | A `pmset` call that times out after having written makes the helper remove its marker (`sleep_prevention_helper.go:77`), and nothing ever clears the flag, which `lid-closed-sleep-prevention.md` says must not happen. |
| `PreparedTouched.cfg` | `PreparedMeansUntouched` | When the fixed address was set but its read-back or the ping fails (`server.go:1424`, `1429`), the stage stays `prepared`, which `dhcp-recovery.md:42` says means that nothing was changed. |
| `AbandonRacesStart.cfg` | `EndedIsStopped` | Abandon holds no mutex while it probes and then writes what it read (`server.go:1140-1187`); a start in another window ends up under a recovery that says it is complete. |
| `PreparedSlow.cfg` | `OneEngine` | `process.StopPID` does not wait after SIGKILL; only the prepared engine's own stop does (`prepared.go:443-459`). The gateway's engine can overlap its successor, against `mihomo-profile-overlay.md:263`. |
| `RestartTiming.cfg` | `RestartsFailedEngine` | The second probe does not see a command that has already ended (`mihomo_recovery.go:205-208`); the engine it started is restarted. |
| `DeleteRacesApply.cfg` | `SelectedKept` | A page that applies a source is closed: `HelperClient.call` ends and frees `sourcesMu` and `lifecycleMu` while the helper is still at work. The source is unused for all the service can see and is deleted, and then becomes the selected one; `app-user-guide.zh-CN.md:116-117` asks for a replacement first. |
| `RecoveryUnguarded.cfg` | `PreparedOnlyAfresh` | `handleRecoveryPrepare` (`server.go:1364`) never looks at the stage: a prepare later on replaces the snapshot of the original network. `allowedRecoveryTransition` (1595-1598) would forbid it, and no handler calls it. |
| `RecoveryUnguarded.cfg`, its second property | `EveryStageHasSnapshot` | A stop is accepted in every stage and writes `gateway_stopped_waiting_router_dhcp`, also into a record without a snapshot (`server.go:1008-1018`); every way out then refuses. |
| `PreparedOrphan.cfg` | `Released` | The helper reconciles once when it starts (`actions.go:267-272`); if a command holds the lock just then, the engine a crash left runs on. |
| `RestartTiming.cfg`, its second property | `ConfirmedByNewStatus` | A status read before a manual restart may be counted after it (`mihomo_recovery.go:194`, `202`), against `gateway-lifecycle.md:238-239`. |
| `RestartProbe.cfg` | `RefusedByOperation` | The probe takes the lock (`lifecycle_lock.go:80-89`); an operation that meets it is told that another one is running. |
| `PartialFault.cfg` | `NoPartialFault` | While the service has something under way that has no state to show (a probe, a policy page), a job of the command line is not looked for (`gateway_presentation.go:133`), and one that begins and ends within a sample leaves no trace: the half of a restart is shown as a fault, against `docs/agent-wiki/sources/decisions/gui-control-plane.md:25-29`. The window is short. |
| `RestartNoRecord.cfg` | `ShownInAnyCase` | When the operation cannot be recorded the mutex is released before the controller is told (`mihomo_recovery.go:231-232`). |
| `AnchorLeak.cfg` | `NoAnchorLeft` | A firewall that fails half way is recorded nowhere (`manager.go:595`); two failures leave its anchor. |
| `EngineLost.cfg` | `NoChildLeft` | A child whose identity could not be read is killed, and when that fails too nothing on disk names it (`manager.go:507`). |

Met on the way, and excluded from a property by the history or the definition it names:

- `respect-rules` next to a resolver that refers to the source's own listener is
  refused by comparing its text with `true` (`dns_references.go:352`). A source that
  writes `True` is bound, and the engine reads it as true;
  `docs/agent-wiki/sources/decisions/mihomo-profile-overlay.md:341` says the
  combination is rejected. `Overlooked` in `ProfilePipeline`.
- A helper that dies between the two files of a start leaves `base.json` and
  `config.yaml` of different compositions (`policy_workspace.go:617-626`); "torn"
  in `Configuration`.
- When earlier selections cannot be read, affected selectors fall back
  (`docs/user/device-policy.md:177-178`). A prepared engine started in that state
  does so, but answers with fresh selections of its own, and the gateway started
  after it takes them for the user's; `blind` in `DeviceRouting`.
- Two changes of the mode of the Mac at one time may end in a mixture
  (`server.go:2016-2042`); `upset`.

Not forbidden by a document of the repository, and visible in the models:

- A refresh whose credential cannot be stored removes the snapshot it has written,
  also when the row already named the same content (`sources.go:65-67`).
- Two windows that edit the overlay: the comparison and the write are not one
  step (`profile_overlay.go:37-69`), so the later edit wins without notice.
- A LAN binding that is saved again before the goroutine of the first listener has
  called `Serve` finds the address taken and shows `listen_failed` until the next
  save.
- Some resolvers lead back to the engine and are accepted: one at the gateway's LAN
  address with port 1053, one there with port 53 unless a custom DNS document is
  composed in (`custom_dns.go:1011-1014`), and one at port 53 of the loopback, if
  dnsmasq listens there (`dns_references.go:327`, `360`). `Overlooked` names them,
  and `NoLoopThroughSelf` is about every other configuration. A resolver at the
  engine's TUN address is taken for a remote one; the model gives it to the engine
  through no listener.
- Two selections of a mode are put back, and the one whose answer was lost is not
  (`local_routing.go:207-212`): the Mac is then in neither mode, which the page shows
  as a mixture. The test `TestSetLocalRoutingRollsBackPartialSelection` has only a
  call that was refused. `Meant` in `DeviceRouting`.
- `process.StopPID` does not look whether SIGKILL has had its effect
  (`process.go:126-129`), so that a child may outlive `state.json` for a while:
  `dying` in `GatewayLifecycle`.
- A failed restoration after a failed start leaves `base.json` and `config.yaml`
  apart as a death between them does (`policy_workspace.go:603-611`); "torn".
- The host's private domains come before the draft's rules in a `fake-ip-filter` by
  rules (`system_dns.go:96-115`). The documents only say that the draft's come
  before the inherited ones (`mihomo-profile-overlay.md:106-110`).

By design, a helper that dies between fork and identity of a prepared engine
leaves an intent without a process, and starts are refused until the next boot
(`prepared.go:242`); the model has that state, and no property forbids it.

## 8. What is not modelled

- How progress is worded, and the views "recovery", "interrupted" and
  "operation_unconfirmed" that replace a sample before it is shown. In
  `Operations` the lock probe is one look; that it holds the lock for a moment is
  in `MihomoRecovery`. In `RecoveryStages` an operation whose answer the service
  no longer awaits is taken to end then; `Operations` lets it go on.
- Text: YAML parsing and formatting, the syntax of URLs, addresses and patterns,
  configuration templates. `ProfilePipeline` and `DeviceRouting` start from parsed
  documents and end with the values of a rendered one.
- Views: connections, traffic, devices, connectivity, diagnosis. They read what
  others decide.
- That stopping the engine may fail on its IPv6 packet socket after the engine has gone
  (`mihomo/manager.go:288-311`), so that a stop reports an error or a start returns
  the PID of a process that is gone: in `GatewayLifecycle` the error comes with a
  process that survives.
- A difference between the digest of a custom DNS draft in the configuration and in
  the profile (`custom_dns.go:724`): both are written in one transaction and the
  candidates' files are named by their content, so they are one value here. YAML's
  other forms of a list or a scalar (aliases, tags) are what they stand for.
- That the router's DHCP server is switched on again after the probe that confirmed it
  off: the code does not look again, and `StartHasEvidence` is about the probe.
- Commands (`ifconfig`, `pfctl`, `sysctl`, `networksetup`, `ps`): each call is one
  outcome, done, failed, or failed after having taken effect where the code can
  be told so.
- The packet broker's forwarding of router advertisements, and the installer.
- Time: deadlines are choices, except where a count of attempts bounds them.
- Web interface, menu bar, desktop shell.
