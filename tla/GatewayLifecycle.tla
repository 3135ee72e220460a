-------------------------- MODULE GatewayLifecycle --------------------------
(***************************************************************************)
(* The gateway Manager (internal/gateway/manager.go): start with rollback, *)
(* stop, reload and restart-mihomo, each a sequence of host mutations and  *)
(* of atomic writes of the runtime state file.  One operation runs at a    *)
(* time (the flock of internal/runtime/lifecycle_lock.go, see module       *)
(* PreparedEngine); what interleaves with it is everything that can go     *)
(* wrong: a host command, a signal, an identity check or a write fails,    *)
(* the request is cancelled, a child exits and its PID is reused, the      *)
(* operating process dies, the Mac reboots, the user edits DNS.            *)
(*                                                                         *)
(* mem is the runtime.State value the running operation holds, disk the    *)
(* one in state.json.  A process instance is a number: the pair of a PID   *)
(* and a start-time fingerprint.  NoPid stands for the recorded PID 0.      *)
(* A child is alive until it exits or is killed.  process.StopPID returns  *)
(* nil after SIGKILL without looking again: a child that was killed and is *)
(* not gone yet is dying, and nothing but its own end will follow.         *)
(***************************************************************************)
EXTENDS Naturals, FiniteSets

CONSTANTS
    Configs,     \* desired configurations: [ipv6, dns, proxy : BOOLEAN]
    UserDns,     \* DNS settings a user may have chosen
    Inst,        \* process instances of one role (bounds concurrent orphans)
    NoPid,
    MaxBoot,     \* bound on reboots
    Faults,      \* the kinds of failure this instance may inject
    MaxFaults    \* how many of them

\* "kill": a child cannot be signalled and the stop reports it; "linger": a child
\* is still there after SIGKILL and the stop reports nothing; "orphan": the start
\* of a broker or dnsmasq failed and its child could not be signalled; "restore": the proxy cannot be put back;
\* "sync": a failing save may nevertheless have replaced the file.
FaultKinds == {"cmd", "restore", "kill", "linger", "orphan", "ident", "save", "sync",
               "cancel", "exit", "crash", "reboot", "edit"}

ASSUME LifecycleAssumption ==
    /\ Configs \subseteq [ipv6 : BOOLEAN, dns : BOOLEAN, proxy : BOOLEAN]
    /\ UserDns # {} /\ "ours" \notin UserDns /\ "none" \notin UserDns
    /\ NoPid \notin Inst
    /\ MaxBoot \in Nat
    /\ Faults \subseteq FaultKinds
    /\ MaxFaults \in Nat

Budget == 0..MaxFaults
Roles == {"mihomo", "broker", "dnsmasq"}

VARIABLES
    \* the host
    fwd, anchor, pfOn, alias, dns, proxy, alive, dying, reused, boot,
    \* the files that survive a crash
    exists, disk, backup,
    \* the running operation
    op, pc, mem, prev, proxyStarted, failed,
    \* bookkeeping: the host before takeover, the fault budget, the kinds of
    \* failure so far, and whether a process we did not start was signalled
    base, left, happened, strayKill

host  == <<fwd, anchor, pfOn, alias, dns, proxy, alive, dying, reused, boot>>
files == <<exists, disk, backup>>
oper  == <<op, pc, mem, prev, proxyStarted, failed>>
book  == <<base, left, happened, strayKill>>
vars  == <<host, files, oper, book>>

(***************************************************************************)
(* runtime.State, reduced to what the lifecycle branches on.               *)
(***************************************************************************)
State == [boot : Nat, fwdBefore : BOOLEAN, pfBefore : BOOLEAN,
          pid : [Roles -> Inst \cup {NoPid}], known : [Roles -> BOOLEAN],
          ipv6 : BOOLEAN, aliasOwned : BOOLEAN, pfLoaded : BOOLEAN,
          dns : UserDns \cup {"none", "ours"}, dnsOwned : BOOLEAN,
          proxy : BOOLEAN]

Blank == [boot |-> 0, fwdBefore |-> FALSE, pfBefore |-> FALSE,
          pid |-> [r \in Roles |-> NoPid], known |-> [r \in Roles |-> FALSE],
          ipv6 |-> FALSE, aliasOwned |-> FALSE, pfLoaded |-> FALSE,
          dns |-> "none", dnsOwned |-> FALSE, proxy |-> FALSE]

PrepareStages  == {"prepare", "saveInitial"}
StartStages    == {"forward", "engine", "idMihomo", "broker", "idBroker",
                   "aliasIntent", "alias", "dnsmasq", "idDnsmasq", "firewall",
                   "firewallSave", "dnsIntent", "dnsBackup", "dnsEnable",
                   "dnsVerified", "proxy", "final"}
TeardownStages == {"tdDns", "tdProxy", "tdDnsmasq", "tdAlias", "tdBroker",
                   "tdMihomo", "tdFirewall", "tdForward", "tdFinish"}
RestartStages  == {"rsMark", "rsStop", "rsSpawn", "rsIdentify", "rsBackup",
                   "rsEnable"}
Stages == {"idle"} \cup PrepareStages \cup StartStages \cup TeardownStages
                   \cup RestartStages

NoPrev == [pid |-> NoPid, known |-> FALSE, reapply |-> FALSE]

HostType ==
    /\ fwd \in BOOLEAN /\ anchor \in BOOLEAN /\ pfOn \in BOOLEAN
    /\ alias \in BOOLEAN
    /\ dns \in UserDns \cup {"none", "ours"}
    /\ proxy \in {"off", "ours"}
    /\ alive \in [Roles -> SUBSET Inst] /\ dying \in [Roles -> SUBSET Inst]
    /\ reused \in [Roles -> SUBSET Inst]
    /\ boot \in Nat

FilesType == /\ exists \in BOOLEAN /\ disk \in State
             /\ backup \in UserDns \cup {"none", "ours"}

OperType ==
    /\ op \in {"none", "start", "stop", "reload", "restart"} /\ pc \in Stages
    /\ mem \in State
    /\ prev \in [pid : Inst \cup {NoPid}, known : BOOLEAN, reapply : BOOLEAN]
    /\ proxyStarted \in BOOLEAN /\ failed \in BOOLEAN

BookType == /\ base \in [fwd : BOOLEAN, pf : BOOLEAN]
            /\ left \in Budget /\ happened \subseteq FaultKinds
            /\ strayKill \in BOOLEAN

TypeOK == HostType /\ FilesType /\ OperType /\ BookType

Init ==
    /\ base \in [fwd : BOOLEAN, pf : BOOLEAN]
    /\ fwd = base.fwd /\ pfOn = base.pf /\ anchor = FALSE /\ alias = FALSE
    /\ dns \in UserDns /\ proxy = "off"
    /\ alive = [r \in Roles |-> {}] /\ dying = alive /\ reused = alive
    /\ boot = 1
    /\ exists = FALSE /\ disk = Blank /\ backup = "none"
    /\ op = "none" /\ pc = "idle" /\ mem = Blank /\ prev = NoPrev
    /\ proxyStarted = FALSE /\ failed = FALSE
    /\ left = MaxFaults /\ happened = {} /\ strayKill = FALSE

-----------------------------------------------------------------------------
(***************************************************************************)
(* Outcomes of a fallible call.                                            *)
(***************************************************************************)
FaultN(kinds, n) == /\ kinds \subseteq Faults
                    /\ left' \in Budget /\ left = left' + n
                    /\ happened' = happened \cup kinds
                    /\ UNCHANGED <<base, strayKill>>
Fault(kind) == FaultN({kind}, 1)
Fine == UNCHANGED book

\* saveState: write to a temporary file, fsync, rename, fsync the directory.
\* A failing save fails before the rename or, at the latest sync, after it.
Saved(s)    == exists' = TRUE /\ disk' = s /\ UNCHANGED backup
SaveLost(s) == ("sync" \in Faults /\ Saved(s)) \/ UNCHANGED files

\* An original value that is backed up already is never overwritten.
Kept(b, value) == IF b # "none" THEN b ELSE value

\* Return from the operation: the lock is released, memory is gone.
Return == /\ op' = "none" /\ pc' = "idle" /\ mem' = Blank /\ prev' = NoPrev
          /\ proxyStarted' = FALSE /\ failed' = FALSE

Goto(stage)      == pc' = stage /\ UNCHANGED <<op, prev, proxyStarted, failed>>
Advance(stage)   == Goto(stage) /\ UNCHANGED mem

\* Every error after the first save, and every cancellation observed by
\* checkCanceled, enters rollback with the in-memory state s.
Rollback(s) == /\ pc' = "tdDns" /\ mem' = s /\ failed' = FALSE
               /\ UNCHANGED <<op, prev, proxyStarted>>
Canceled == Fault("cancel") /\ Rollback(mem) /\ UNCHANGED <<host, files>>

\* An instance whose PID and fingerprint nothing mentions any more.
Fresh(r) == {i \in Inst : /\ i \notin alive[r] \cup dying[r] \cup reused[r]
                          /\ i \notin {disk.pid[r], mem.pid[r]}}
Track(s, r, i, k) == [s EXCEPT !.pid[r] = i, !.known[r] = k]
WithAlias(s)  == [s EXCEPT !.aliasOwned = TRUE]
WithAnchor(s) == [s EXCEPT !.pfLoaded = TRUE]
WithDns(s)    == [s EXCEPT !.dnsOwned = TRUE]
Spawned(r, i) == /\ alive' = [alive EXCEPT ![r] = @ \cup {i}]
                 /\ UNCHANGED <<fwd, anchor, pfOn, alias, dns, proxy, dying, reused, boot>>

-----------------------------------------------------------------------------
(***************************************************************************)
(* start: capture snapshots, save the journal, then mutate the host.       *)
(***************************************************************************)
BeginStart ==
    /\ pc = "idle" /\ ~exists
    /\ op' = "start" /\ pc' = "prepare"
    /\ UNCHANGED <<mem, prev, proxyStarted, failed, host, files, book>>

\* A pending DNS backup is reused as the original value; the proxy must be
\* off and the downstream IPv6 address free.
Snapshot(c) ==
    [boot |-> boot, fwdBefore |-> fwd, pfBefore |-> pfOn,
     pid |-> Blank.pid, known |-> Blank.known,
     ipv6 |-> c.ipv6, aliasOwned |-> FALSE, pfLoaded |-> FALSE,
     dns |-> IF c.dns THEN Kept(backup, dns) ELSE "none", dnsOwned |-> FALSE,
     proxy |-> c.proxy]

Prepare(c) ==
    /\ pc = "prepare"
    /\ c.proxy => proxy = "off"
    /\ c.ipv6 => ~alias
    /\ mem' = Snapshot(c)
    /\ Goto("saveInitial")
    /\ UNCHANGED <<host, files>> /\ Fine

\* Any validation, preflight, config-write, commit or cancellation error
\* before the journal exists.
PrepareRefused ==
    /\ pc \in PrepareStages
    /\ Return /\ UNCHANGED <<host, files>> /\ Fine

SaveInitial ==
    /\ pc = "saveInitial" /\ UNCHANGED host
    /\ \/ Saved(mem) /\ Advance("forward") /\ Fine
       \/ SaveLost(mem) /\ Return /\ Fault("save")

EnableForwarding ==
    /\ pc = "forward" /\ UNCHANGED files
    /\ \/ /\ fwd' = TRUE /\ Advance("engine") /\ Fine
          /\ UNCHANGED <<anchor, pfOn, alias, dns, proxy, alive, dying, reused, boot>>
       \/ Fault("cmd") /\ Rollback(mem) /\ UNCHANGED host

\* The child survives its cleanup; then its fingerprint, then the save may fail.
StartFaults(known, saved) ==
    LET kinds == {"kill"} \cup (IF known THEN {} ELSE {"ident"})
                          \cup (IF saved THEN {} ELSE {"save"})
    IN  FaultN(kinds, (IF known THEN 1 ELSE 2) + (IF saved THEN 0 ELSE 1))

\* A start that failed has killed its child, which is not gone yet: nobody is
\* told of it, PID 0 is reported.
Doomed(r) ==
    /\ Fault("linger")
    /\ \E i \in Fresh(r) : dying' = [dying EXCEPT ![r] = @ \cup {i}]
    /\ UNCHANGED <<fwd, anchor, pfOn, alias, dns, alive, reused, boot>>

\* StartContext: ready; or failed with the process stopped, or killed; or failed
\* with the process surviving its cleanup, whose PID is then returned, identified
\* if possible and saved if possible before the rollback.
EngineReady(next) ==
    \E i \in Fresh("mihomo") :
        /\ Spawned("mihomo", i) /\ UNCHANGED files /\ Fine
        /\ mem' = Track(mem, "mihomo", i, FALSE) /\ Goto(next)

EngineSurvives(i, known, saved) ==
    LET s == Track(mem, "mihomo", i, known) IN
    /\ Spawned("mihomo", i) /\ Rollback(s)
    /\ StartFaults(known, saved)
    /\ IF saved THEN Saved(s) ELSE SaveLost(s)

StartEngine ==
    /\ pc = "engine"
    /\ \/ EngineReady("idMihomo")
       \/ Fault("cmd") /\ Rollback(mem) /\ UNCHANGED <<host, files>>
       \/ Doomed("mihomo") /\ Rollback(mem) /\ UNCHANGED <<proxy, files>>
       \/ \E i \in Fresh("mihomo"), known \in BOOLEAN, saved \in BOOLEAN :
            EngineSurvives(i, known, saved)

\* The broker and dnsmasq starters ignore the outcome of their own cleanup
\* and report PID 0 on every error.
StartService(r, stage, next) ==
    /\ pc = stage
    /\ \/ \E i \in Fresh(r) :
            /\ Spawned(r, i) /\ UNCHANGED files /\ Fine
            /\ mem' = Track(mem, r, i, FALSE) /\ Goto(next)
       \/ Fault("cmd") /\ Rollback(mem) /\ UNCHANGED <<host, files>>
       \/ Doomed(r) /\ Rollback(mem) /\ UNCHANGED <<proxy, files>>
       \/ \E i \in Fresh(r) :
            Fault("orphan") /\ Spawned(r, i) /\ Rollback(mem) /\ UNCHANGED files

StartBroker  == StartService("broker", "broker", "idBroker")
StartDnsmasq == StartService("dnsmasq", "dnsmasq", "idDnsmasq")

\* Fingerprint the child just started and save its identity.
Identify(r, stage, next) ==
    /\ pc = stage /\ UNCHANGED host
    /\ LET s == Track(mem, r, mem.pid[r], TRUE) IN
       \/ /\ mem.pid[r] \in alive[r] /\ Fine
          /\ Saved(s) /\ mem' = s /\ Goto(next)
       \/ /\ mem.pid[r] \notin alive[r] /\ Fine
          /\ Rollback(mem) /\ UNCHANGED files
       \/ Fault("ident") /\ Rollback(mem) /\ UNCHANGED files
       \/ /\ mem.pid[r] \in alive[r] /\ Fault("save")
          /\ SaveLost(s) /\ Rollback(s)

IdentifyMihomo  == Identify("mihomo", "idMihomo",
                            IF mem.ipv6 THEN "broker" ELSE "dnsmasq")
\* Mutant: the broker's identity is neither taken nor saved.
IdentifyBrokerSkipped == /\ pc = "idBroker" /\ Advance("aliasIntent")
                         /\ UNCHANGED <<host, files>> /\ Fine

IdentifyBroker  == Identify("broker", "idBroker", "aliasIntent")
IdentifyDnsmasq == Identify("dnsmasq", "idDnsmasq", "firewall")

\* Alias ownership is saved as an intent before the interface is touched.
AliasIntent ==
    /\ pc = "aliasIntent" /\ UNCHANGED host
    /\ LET s == WithAlias(mem) IN
       \/ Saved(s) /\ mem' = s /\ Goto("alias") /\ Fine
       \/ Fault("save") /\ SaveLost(s) /\ Rollback(s)

\* A failed AddGateway removes the address again, which may fail too.
AddAlias ==
    /\ pc = "alias" /\ UNCHANGED files
    /\ UNCHANGED <<fwd, anchor, pfOn, dns, proxy, alive, dying, reused, boot>>
    /\ \/ alias' = TRUE /\ Advance("dnsmasq") /\ Fine
       \/ UNCHANGED alias /\ Fault("cmd") /\ Rollback(mem)
       \/ alias' = TRUE /\ FaultN({"cmd"}, 2) /\ Rollback(mem)

\* pfctl -f, then pfctl -e when PF was off.  When -e fails the anchor is
\* flushed again and the result of that flush is ignored.
LoadFirewall ==
    /\ pc = "firewall" /\ UNCHANGED files
    /\ UNCHANGED <<fwd, alias, dns, proxy, alive, dying, reused, boot>>
    /\ \/ /\ anchor' = TRUE /\ pfOn' = (IF mem.pfBefore THEN pfOn ELSE TRUE)
          /\ mem' = WithAnchor(mem) /\ Goto("firewallSave") /\ Fine
       \/ UNCHANGED <<anchor, pfOn>> /\ Fault("cmd") /\ Rollback(mem)
       \/ /\ ~mem.pfBefore /\ Rollback(mem) /\ UNCHANGED pfOn
          /\ \/ anchor' = FALSE /\ Fault("cmd")
             \/ anchor' = TRUE /\ FaultN({"cmd"}, 2)

AfterFirewall(s) == IF s.dns # "none" THEN "dnsIntent"
                    ELSE IF s.proxy THEN "proxy" ELSE "final"

SaveFirewall ==
    /\ pc = "firewallSave" /\ UNCHANGED host
    /\ \/ Saved(mem) /\ Advance(AfterFirewall(mem)) /\ Fine
       \/ Fault("cmd") /\ UNCHANGED files /\ Rollback(mem)
       \/ Fault("save") /\ SaveLost(mem) /\ Rollback(mem)

-----------------------------------------------------------------------------
(***************************************************************************)
(* start, the last stages: the Mac's own DNS and HTTP/HTTPS proxy.         *)
(***************************************************************************)
DnsIntent ==
    /\ pc = "dnsIntent" /\ UNCHANGED host
    /\ LET s == WithDns(mem) IN
       \/ Saved(s) /\ mem' = s /\ Goto("dnsBackup") /\ Fine
       \/ Fault("save") /\ SaveLost(s) /\ Rollback(mem)

\* Mutant: DNS is taken over without a backup of the user's servers.
DnsBackupSkipped == /\ pc = "dnsBackup" /\ Advance("dnsEnable")
                    /\ UNCHANGED <<host, files>> /\ Fine

\* backupSystemDNS: an existing entry is never overwritten.
DnsBackup ==
    /\ pc = "dnsBackup" /\ UNCHANGED <<host, exists, disk>>
    /\ \/ backup' = Kept(backup, mem.dns) /\ Advance("dnsEnable") /\ Fine
       \/ /\ backup' \in {backup, Kept(backup, mem.dns)}
          /\ Fault("save") /\ Rollback(mem)

\* networksetup writes the servers and reads them back; either may fail.
HostExceptDns == <<fwd, anchor, pfOn, alias, proxy, alive, dying, reused, boot>>

DnsEnable ==
    /\ pc = "dnsEnable" /\ UNCHANGED <<HostExceptDns, files>>
    /\ \/ dns' = "ours" /\ Advance("dnsVerified") /\ Fine
       \/ dns' \in {dns, "ours"} /\ Fault("cmd") /\ Rollback(mem)

DnsVerified ==
    /\ pc = "dnsVerified" /\ UNCHANGED host
    /\ \/ Saved(mem) /\ Advance(IF mem.proxy THEN "proxy" ELSE "final") /\ Fine
       \/ Fault("save") /\ SaveLost(mem) /\ Rollback(mem)

HostExceptProxy == <<fwd, anchor, pfOn, alias, dns, alive, dying, reused, boot>>

\* HTTP then HTTPS endpoint.  A partial failure is undone by Enable itself,
\* if it can.  The rollback flag is raised before the first write.
EnableProxy ==
    /\ pc = "proxy" /\ UNCHANGED <<HostExceptProxy, files, op, mem, prev>>
    /\ proxyStarted' = TRUE
    /\ \/ proxy' = "ours" /\ pc' = "final" /\ UNCHANGED failed /\ Fine
       \/ /\ proxy' \in {proxy, "ours"} /\ Fault("cmd")
          /\ pc' = "tdDns" /\ failed' = FALSE

FinishStart ==
    /\ pc = "final" /\ Return /\ UNCHANGED <<host, files>> /\ Fine

\* checkCanceled runs before every stage that touches the host.
CancelStart ==
    /\ pc \in {"forward", "engine", "broker", "alias", "dnsmasq", "firewall",
               "dnsIntent", "proxy", "final"}
    /\ Canceled

-----------------------------------------------------------------------------
(***************************************************************************)
(* stop, and the rollback of a failed start: the same teardown.            *)
(***************************************************************************)
LiveBoot == exists /\ disk.boot = boot

\* stop first releases the prepared engine and keeps going when that fails.
EnterTeardown(o) ==
    /\ op' = o /\ pc' = "tdDns" /\ UNCHANGED <<host, files, prev, proxyStarted>>
    /\ mem' = IF exists THEN disk ELSE Blank
    /\ \/ failed' = FALSE /\ Fine
       \/ failed' = TRUE /\ Fault("cmd")

BeginStop == pc = "idle" /\ EnterTeardown("stop")

\* IsAlive and the fingerprint see a process until it is gone.
Present(r) == alive[r] \cup dying[r]

\* reload requires this boot and live tracked children, and validates the
\* whole candidate in a scratch directory before the stop.
TrackedRunning(s, r) ==
    s.pid[r] \in Present(r) \cup (IF s.known[r] THEN {} ELSE reused[r])
BeginReload ==
    /\ pc = "idle" /\ LiveBoot
    /\ \A r \in Roles : (r = "broker" => disk.ipv6) => TrackedRunning(disk, r)
    /\ EnterTeardown("reload")

\* restoreSystemDNSBackups: adopt an owned snapshot that has no backup yet,
\* write the backup to the service, and drop the entry once it is restored.
\* Every error is only a warning, and keeps the entry.
TeardownDns ==
    /\ pc = "tdDns" /\ UNCHANGED <<HostExceptDns, exists, disk>>
    /\ Advance(IF exists THEN "tdProxy" ELSE "tdFinish")
    /\ LET entry == Kept(backup, IF mem.dnsOwned THEN mem.dns ELSE "none") IN
       \/ entry = "none" /\ UNCHANGED <<dns, backup>> /\ Fine
       \/ /\ entry # "none"
          /\ \/ dns' = entry /\ backup' = "none" /\ Fine
             \/ dns' = entry /\ backup' = entry /\ Fault("save")
             \/ dns' \in {dns, entry} /\ backup' = entry /\ Fault("cmd")
             \/ /\ dns' \in {dns, entry} /\ UNCHANGED backup
                /\ FaultN({"cmd", "save"}, 3)

\* Mutant: a failing restore does not end the teardown.
TeardownProxyContinues ==
    /\ pc = "tdProxy" /\ UNCHANGED <<HostExceptProxy, files>>
    /\ Advance(IF mem.boot = boot THEN "tdDnsmasq" ELSE "tdFinish")
    /\ \/ proxy' = "off" /\ Fine
       \/ UNCHANGED proxy /\ Fault("restore")

\* The proxy is restored before any service it points at is stopped; if that
\* fails the operation returns with every service left running.
TeardownProxy ==
    /\ pc = "tdProxy" /\ UNCHANGED <<HostExceptProxy, files>>
    /\ LET next == IF mem.boot = boot THEN "tdDnsmasq" ELSE "tdFinish" IN
       IF mem.proxy /\ (op = "start" => proxyStarted)
       THEN \/ proxy' = "off" /\ Advance(next) /\ Fine
            \/ UNCHANGED proxy /\ Return /\ Fault("restore")
       ELSE UNCHANGED proxy /\ Advance(next) /\ Fine

\* stopTrackedProcess followed by StopPID.  With a fingerprint, a PID that no
\* longer carries it is left alone; without one the PID itself is signalled.
HostExceptProcs == <<fwd, anchor, pfOn, alias, dns, proxy, boot>>

\* StopPID without an error: SIGTERM was enough; or SIGKILL was sent at the
\* deadline and the process may still be there (process.go:126).
Exited(r, i) == /\ alive' = [alive EXCEPT ![r] = @ \ {i}]
                /\ dying' = [dying EXCEPT ![r] = @ \ {i}]
                /\ UNCHANGED <<HostExceptProcs, reused>>
Killed(r, i) == /\ alive' = [alive EXCEPT ![r] = @ \ {i}]
                /\ dying' = [dying EXCEPT ![r] = @ \cup {i}]
                /\ UNCHANGED <<HostExceptProcs, reused>>
Stopped(r, i) == \/ Exited(r, i) /\ Fine
                 \/ Killed(r, i) /\ Fault("linger")
                 \/ i \in dying[r] /\ Killed(r, i) /\ Fine

SignalPid(r, i) ==
    \/ i \in Present(r) /\ Stopped(r, i)
    \/ /\ i \in reused[r] /\ strayKill' = TRUE
       /\ reused' = [reused EXCEPT ![r] = @ \ {i}]
       /\ UNCHANGED <<HostExceptProcs, alive, dying, base, left, happened>>
    \/ i \notin Present(r) \cup reused[r] /\ UNCHANGED host /\ Fine

\* Mutant: the fingerprint is not compared before the signal.
StopByPid(r, i, known) == SignalPid(r, i)

StopTracked(r, i, known) ==
    IF known THEN \/ i \in Present(r) /\ Stopped(r, i)
                  \/ i \notin Present(r) /\ UNCHANGED host /\ Fine
             ELSE SignalPid(r, i)
StopError(r, i, known) ==
    /\ UNCHANGED host
    /\ \/ i # NoPid /\ known /\ Fault("ident")
       \/ i \in Present(r) /\ Fault("kill")

TeardownProcess(r, stage, next) ==
    /\ pc = stage /\ pc' = next /\ UNCHANGED <<files, op, mem, prev, proxyStarted>>
    /\ \/ StopTracked(r, mem.pid[r], mem.known[r]) /\ UNCHANGED failed
       \/ StopError(r, mem.pid[r], mem.known[r]) /\ failed' = TRUE

TeardownDnsmasq == TeardownProcess("dnsmasq", "tdDnsmasq", "tdAlias")
TeardownBroker  == TeardownProcess("broker", "tdBroker", "tdMihomo")
TeardownMihomo  == TeardownProcess("mihomo", "tdMihomo", "tdFirewall")

\* cleanupIPv6: withdraw the advertised prefix, then remove the alias; an
\* error of either keeps the runtime but does not skip the other.
TeardownAlias ==
    /\ pc = "tdAlias" /\ pc' = "tdBroker"
    /\ UNCHANGED <<files, op, mem, prev, proxyStarted>>
    /\ UNCHANGED <<fwd, anchor, pfOn, dns, proxy, alive, dying, reused, boot>>
    /\ IF mem.aliasOwned
       THEN \/ alias' = FALSE /\ UNCHANGED failed /\ Fine
            \/ alias' \in {alias, FALSE} /\ failed' = TRUE /\ Fault("cmd")
       ELSE UNCHANGED <<alias, failed>> /\ Fine

\* pfctl -F all, then pfctl -d when PF was off before; only if the state says
\* that the anchor was loaded.
TeardownFirewall ==
    /\ pc = "tdFirewall" /\ pc' = "tdForward"
    /\ UNCHANGED <<files, op, mem, prev, proxyStarted>>
    /\ UNCHANGED <<fwd, alias, dns, proxy, alive, dying, reused, boot>>
    /\ LET off == mem.pfBefore /\ pfOn IN
       IF mem.pfLoaded
       THEN \/ anchor' = FALSE /\ pfOn' = off /\ UNCHANGED failed /\ Fine
            \/ UNCHANGED anchor /\ pfOn' = off /\ failed' = TRUE /\ Fault("cmd")
            \/ anchor' = FALSE /\ UNCHANGED pfOn /\ failed' = TRUE /\ Fault("cmd")
            \/ UNCHANGED <<anchor, pfOn>> /\ failed' = TRUE /\ FaultN({"cmd"}, 2)
       ELSE UNCHANGED <<anchor, pfOn, failed>> /\ Fine

TeardownForwarding ==
    /\ pc = "tdForward" /\ pc' = "tdFinish"
    /\ UNCHANGED <<files, op, mem, prev, proxyStarted>>
    /\ UNCHANGED <<anchor, pfOn, alias, dns, proxy, alive, dying, reused, boot>>
    /\ \/ fwd' = mem.fwdBefore /\ UNCHANGED failed /\ Fine
       \/ UNCHANGED fwd /\ failed' = TRUE /\ Fault("cmd")

\* Mutant: the runtime state is removed although a cleanup step failed.
TeardownFinishForgets ==
    /\ pc = "tdFinish" /\ Return /\ UNCHANGED <<host, backup>> /\ Fine
    /\ exists' = FALSE /\ disk' = Blank

\* Any cleanup error retains the runtime state.  An interrupted runtime of an
\* earlier boot is cleared whatever the prepared engine reported.
TeardownFinish ==
    /\ pc = "tdFinish" /\ UNCHANGED <<host, backup>>
    /\ \/ /\ failed /\ (exists => mem.boot = boot)
          /\ Return /\ UNCHANGED <<exists, disk>> /\ Fine
       \/ /\ ~failed \/ (exists /\ mem.boot # boot)
          /\ \/ /\ exists' = FALSE /\ disk' = Blank /\ Fine
                /\ IF op = "reload"
                   THEN /\ op' = "start" /\ pc' = "prepare" /\ mem' = Blank
                        /\ UNCHANGED <<prev, proxyStarted, failed>>
                   ELSE Return
             \/ /\ Fault("save") /\ Return
                /\ \/ UNCHANGED <<exists, disk>>
                   \/ exists' = FALSE /\ disk' = Blank

-----------------------------------------------------------------------------
(***************************************************************************)
(* restart-mihomo: replace only the engine process.                        *)
(***************************************************************************)
\* Mutant: a forgotten process is recorded as -1.
RestartingBadPid(owned) == [Track(disk, "mihomo", "-1", FALSE)
                              EXCEPT !.dns = IF owned THEN disk.dns ELSE "none"]

\* The Mac's DNS is put back first (best effort) and the backup retained.
Restarting(owned) == [Track(disk, "mihomo", NoPid, FALSE)
                        EXCEPT !.dns = IF owned THEN disk.dns ELSE "none"]

BeginRestart ==
    /\ pc = "idle" /\ LiveBoot
    /\ op' = "restart" /\ pc' = "rsMark"
    /\ UNCHANGED <<HostExceptDns, exists, disk, proxyStarted, failed>>
    /\ LET owned == disk.dnsOwned /\ disk.dns # "none" IN
       /\ prev' = [pid |-> disk.pid["mihomo"], known |-> disk.known["mihomo"],
                   reapply |-> owned]
       /\ mem' = Restarting(owned)
       /\ \/ ~owned /\ UNCHANGED <<dns, backup>> /\ Fine
          \/ /\ owned
             /\ \/ dns' = disk.dns /\ backup' = Kept(backup, disk.dns) /\ Fine
                \/ dns' = disk.dns /\ UNCHANGED backup /\ Fault("save")
                \/ /\ dns' \in {dns, disk.dns} /\ Fault("cmd")
                   /\ backup' = Kept(backup, disk.dns)

\* PID 0 is saved before the old engine is stopped.
RestartMark ==
    /\ pc = "rsMark" /\ UNCHANGED host
    /\ \/ Saved(mem) /\ Advance("rsStop") /\ Fine
       \/ Fault("save") /\ SaveLost(mem) /\ Return

\* Mutant: a failed restart leaves the system proxy alone.
ProxyLeft(lost) == proxy

\* Best-effort restore of the system proxy on every failure path below;
\* `lost` says that networksetup fails.
ProxyAfter(lost) == IF mem.proxy /\ ~lost THEN "off" ELSE proxy

\* Mutant: the replacement is started although the old engine may still run.
RestartStopIgnored ==
    /\ pc = "rsStop" /\ Advance("rsSpawn") /\ UNCHANGED files
    /\ \/ StopTracked("mihomo", prev.pid, prev.known)
       \/ StopError("mihomo", prev.pid, prev.known)

\* When the stop fails, the PID is recorded again if the engine is seen to
\* run; an identity check that fails once more (blind) counts as not running,
\* and then the proxy is restored and the recorded PID stays 0.
RestartStop ==
    /\ pc = "rsStop"
    /\ \/ /\ StopTracked("mihomo", prev.pid, prev.known)
          /\ Advance("rsSpawn") /\ UNCHANGED files
       \/ \E why \in {"ident", "kill"}, blind \in BOOLEAN, saved \in BOOLEAN :
            LET running == prev.pid \in Present("mihomo")
                seen    == running /\ ~blind
                s == IF seen THEN Track(mem, "mihomo", prev.pid, prev.known) ELSE mem
            IN
            /\ IF why = "ident" THEN prev.pid # NoPid /\ prev.known ELSE running
            /\ blind => prev.known
            /\ FaultN({why} \cup (IF blind THEN {"ident"} ELSE {})
                           \cup (IF saved THEN {} ELSE {"save"}),
                      1 + (IF blind THEN 1 ELSE 0) + (IF saved THEN 0 ELSE 1))
            /\ IF saved THEN Saved(s) ELSE SaveLost(s)
            /\ proxy' = IF seen THEN proxy ELSE ProxyAfter(FALSE)
            /\ Return /\ UNCHANGED HostExceptProxy

\* Archive the log, then StartContext as in start.
RestartFails(lost) ==
    /\ Return /\ UNCHANGED <<HostExceptProxy, files>>
    /\ proxy' = ProxyAfter(lost)
    /\ IF lost THEN FaultN({"cmd", "restore"}, 2) ELSE Fault("cmd")

RestartSurvives(i, known, saved) ==
    LET s == Track(mem, "mihomo", i, known) IN
    /\ Return /\ StartFaults(known, saved)
    /\ alive' = [alive EXCEPT !["mihomo"] = @ \cup {i}]
    /\ proxy' = ProxyAfter(FALSE)
    /\ IF saved THEN Saved(s) ELSE SaveLost(s)
    /\ UNCHANGED <<fwd, anchor, pfOn, alias, dns, dying, reused, boot>>

RestartSpawn ==
    /\ pc = "rsSpawn"
    /\ \/ EngineReady("rsIdentify")
       \/ \E lost \in BOOLEAN : RestartFails(lost)
       \/ Doomed("mihomo") /\ Return /\ proxy' = ProxyAfter(FALSE) /\ UNCHANGED files
       \/ \E i \in Fresh("mihomo"), known \in BOOLEAN, saved \in BOOLEAN :
            RestartSurvives(i, known, saved)

\* Fingerprint and save the replacement; on failure restore the proxy and
\* stop the replacement, whatever that stop reports.
RestartIdentify ==
    /\ pc = "rsIdentify" /\ UNCHANGED <<fwd, anchor, pfOn, alias, dns, reused, boot>>
    /\ LET new  == mem.pid["mihomo"]
           s    == Track(mem, "mihomo", new, TRUE)
           Undo == proxy' = ProxyAfter(FALSE) /\ Return
           Rid  == Undo /\ alive' = [alive EXCEPT !["mihomo"] = @ \ {new}]
           Slow == Rid /\ dying' = [dying EXCEPT !["mihomo"] = @ \cup {new}]
           Live == new \in alive["mihomo"]
       IN
       \/ /\ Live /\ Saved(s) /\ Fine /\ UNCHANGED <<alive, dying, proxy>>
          /\ IF prev.reapply THEN mem' = s /\ Goto("rsBackup") ELSE Return
       \/ ~Live /\ Rid /\ UNCHANGED <<dying, files>> /\ Fine
       \/ Rid /\ UNCHANGED <<dying, files>> /\ Fault("ident")
       \/ Live /\ Rid /\ SaveLost(s) /\ UNCHANGED dying /\ Fault("save")
       \/ Live /\ Slow /\ UNCHANGED files /\ FaultN({"ident", "linger"}, 2)
       \/ Live /\ Slow /\ SaveLost(s) /\ FaultN({"save", "linger"}, 2)
       \/ Live /\ Undo /\ UNCHANGED <<alive, dying, files>> /\ FaultN({"ident", "kill"}, 2)
       \/ Live /\ Undo /\ UNCHANGED <<alive, dying>> /\ SaveLost(s)
               /\ FaultN({"save", "kill"}, 2)

RestartBackup ==
    /\ pc = "rsBackup" /\ UNCHANGED <<host, exists, disk>>
    /\ \/ backup' = Kept(backup, mem.dns) /\ Advance("rsEnable") /\ Fine
       \/ backup' \in {backup, Kept(backup, mem.dns)} /\ Fault("save") /\ Return

\* Take DNS over again; if setting it or saving the evidence fails, the saved
\* value is restored (best effort) and the backup kept.
RestartEnable ==
    /\ pc = "rsEnable" /\ UNCHANGED <<HostExceptDns, backup>> /\ Return
    /\ \/ dns' = "ours" /\ Saved(mem) /\ UNCHANGED backup /\ Fine
       \/ dns' = mem.dns /\ UNCHANGED files /\ Fault("cmd")
       \/ dns' \in {dns, "ours"} /\ UNCHANGED files /\ FaultN({"cmd"}, 2)
       \/ dns' = mem.dns /\ SaveLost(mem) /\ Fault("save")

-----------------------------------------------------------------------------
(***************************************************************************)
(* What the Manager does not control.                                      *)
(***************************************************************************)
ChildExits ==
    \E r \in Roles : \E i \in alive[r] :
        /\ Fault("exit") /\ Exited(r, i) /\ UNCHANGED <<files, oper>>

\* What was killed goes sooner or later.
KilledGoes ==
    \E r \in Roles : \E i \in dying[r] :
        /\ dying' = [dying EXCEPT ![r] = @ \ {i}]
        /\ UNCHANGED <<HostExceptProcs, alive, reused, files, oper>> /\ Fine

\* A PID comes round again only between operations, which last minutes.
PidReused ==
    \E r \in Roles :
        /\ pc = "idle" /\ disk.pid[r] # NoPid
        /\ disk.pid[r] \notin Present(r) \cup reused[r]
        /\ Fault("exit")
        /\ reused' = [reused EXCEPT ![r] = @ \cup {disk.pid[r]}]
        /\ UNCHANGED <<HostExceptProcs, alive, dying, files, oper>>

\* The helper or CLI process dies: memory and lock go, everything else stays.
Crash == pc # "idle" /\ Fault("crash") /\ Return /\ UNCHANGED <<host, files>>

\* A reboot ends every process and resets kernel state; network-service
\* settings and files persist.
Reboot ==
    /\ boot < MaxBoot /\ "reboot" \in Faults
    /\ left' \in Budget /\ left = left' + 1 /\ happened' = happened \cup {"reboot"}
    /\ UNCHANGED strayKill
    /\ base' \in [fwd : BOOLEAN, pf : BOOLEAN]
    /\ fwd' = base'.fwd /\ pfOn' = base'.pf /\ anchor' = FALSE /\ alias' = FALSE
    /\ alive' = [r \in Roles |-> {}] /\ dying' = alive' /\ boot' = boot + 1
    /\ reused' \in {[r \in Roles |-> {}],
                    [r \in Roles |-> {disk.pid[r]} \ {NoPid}]}
    /\ Return /\ UNCHANGED <<dns, proxy, files>>

UserEditsDns ==
    /\ Fault("edit") /\ dns' \in UserDns \ {dns}
    /\ UNCHANGED <<HostExceptDns, files, oper>>

Start == \/ BeginStart \/ \E c \in Configs : Prepare(c)
         \/ PrepareRefused \/ SaveInitial \/ EnableForwarding
         \/ StartEngine \/ IdentifyMihomo \/ StartBroker \/ IdentifyBroker
         \/ AliasIntent \/ AddAlias \/ StartDnsmasq \/ IdentifyDnsmasq
         \/ LoadFirewall \/ SaveFirewall \/ DnsIntent \/ DnsBackup
         \/ DnsEnable \/ DnsVerified \/ EnableProxy \/ FinishStart \/ CancelStart

Teardown == \/ BeginStop \/ BeginReload \/ TeardownDns \/ TeardownProxy
            \/ TeardownDnsmasq \/ TeardownAlias \/ TeardownBroker
            \/ TeardownMihomo \/ TeardownFirewall \/ TeardownForwarding
            \/ TeardownFinish

Restart == \/ BeginRestart \/ RestartMark \/ RestartStop \/ RestartSpawn
           \/ RestartIdentify \/ RestartBackup \/ RestartEnable

Environment == ChildExits \/ KilledGoes \/ PidReused \/ Crash \/ Reboot \/ UserEditsDns

Next == Start \/ Teardown \/ Restart \/ Environment

Spec == Init /\ [][Next]_vars

-----------------------------------------------------------------------------
(***************************************************************************)
(* Write-ahead journal.                                                    *)
(***************************************************************************)
\* Forwarding differs from what it was at boot or before start only while
\* this boot's state file says what it was (manager.go saves before Enable).
ForwardingJournaled ==
    fwd # base.fwd => LiveBoot /\ disk.fwdBefore = base.fwd

\* The downstream IPv6 alias is on the interface only while the state file of
\* this boot owns it ("Persist alias ownership intent before mutating").
AliasJournaled == alias => LiveBoot /\ disk.aliasOwned

\* The Mac's proxy points at the gateway only while a state file, of whatever
\* boot, holds the snapshot that a stop will restore.
ProxyJournaled == proxy = "ours" => exists /\ disk.proxy

\* The Mac's DNS is the gateway's only while the separate backup file holds a
\* setting of the user; the gateway's own address is never backed up as one.
DnsJournaled == dns = "ours" => backup \in UserDns

\* Nothing the gateway takes over is ever without durable evidence of its
\* original value, whatever fails or crashes in whatever order.
Journaled == /\ ForwardingJournaled /\ AliasJournaled
             /\ ProxyJournaled /\ DnsJournaled

\* While the alias is up the state file names a broker by PID and fingerprint
\* (downstream-ipv6-takeover.md: broker identity is written before the
\* interface is modified), whatever was saved, restarted or lost since.
AliasHasTrackedBroker ==
    alias => disk.pid["broker"] # NoPid /\ disk.known["broker"]

\* What a stop of another process, or one after a crash, needs is on disk: the
\* user's settings that were taken over, and the broker that holds the alias.
Evidenced == Journaled /\ AliasHasTrackedBroker

\* A start about to report success has recorded everything a later stop, by
\* another process, needs to undo it.
FinishedStartIsRecoverable ==
    pc = "final" =>
        /\ exists /\ disk = mem /\ disk.boot = boot /\ disk.pfLoaded
        /\ \A r \in Roles : (r = "broker" => disk.ipv6) =>
                                disk.pid[r] # NoPid /\ disk.known[r]
        /\ (disk.dns # "none") => disk.dnsOwned

(***************************************************************************)
(* Stopped means stopped.  What these promise depends on the kinds of      *)
(* failure there have been.                                                *)
(***************************************************************************)
AtRest == pc = "idle"

\* An operation that fails, is cancelled, or finds a child gone, unkillable or
\* slow to go.
Ordinary == {"cmd", "restore", "kill", "linger", "cancel", "exit", "edit", "reboot"}

\* Once no state file is left every child of the gateway is gone or was sent
\* SIGKILL, and the PF anchor is empty and PF as before ("manager retains
\* runtime state", gateway-lifecycle.md).  Without a condition neither holds;
\* and that a killed child is gone is not promised: StopPID does not look.
NoChildLeft  == AtRest /\ ~exists => \A r \in Roles : alive[r] = {}
NoAnchorLeft == AtRest /\ ~exists => ~anchor /\ pfOn = base.pf

\* Failing commands, cancellations and exiting children, in any order, never
\* lose a process: none is forgotten before it was killed.
StoppedMeansNoChild == happened \subseteq Ordinary => NoChildLeft

\* One failure never leaves the anchor behind.  A crash between pfctl and the
\* save is the exception.
StoppedMeansNoAnchor ==
    MaxFaults <= left + 1 /\ "crash" \notin happened => NoAnchorLeft

\* No step of start, rollback, stop or reload stops or kills a child while the
\* proxy still points at the gateway (local-system-proxy-coordination.md).
ProxyGoesFirst ==
    [][(op # "restart" /\ pc' # pc /\ boot' = boot /\ proxy = "ours")
          => \A r \in Roles : alive[r] \subseteq alive'[r]]_vars

\* As long as restoring the proxy works, no operation returns with the Mac's
\* proxy pointing at a gateway without an engine, or with one that was killed,
\* also not a restart-mihomo that failed half way.
NoDeadProxy ==
    (happened \cap {"restore", "exit", "crash", "reboot"} = {} /\ AtRest)
        => (proxy = "ours" => alive["mihomo"] # {})

\* As long as fingerprints can be read and saved, no process that merely got
\* the PID of a former child is ever signalled, within a boot or across one.
NoStrayKill == "ident" \notin happened => ~strayKill

\* The engine of a running gateway is known by its PID: whenever an operation
\* has returned, an engine that was not killed is the one the state file names.
EngineIsOwned ==
    happened \subseteq Ordinary /\ AtRest =>
        \A i \in alive["mihomo"] : exists /\ disk.pid["mihomo"] = i

\* Nothing this gateway made is ever left without a record that finds it: what
\* a finished start made, a child or an anchor after a stop, an engine that a
\* restart replaced or failed to replace (manager.go:784, 1184).
NothingOrphaned ==
    /\ FinishedStartIsRecoverable
    /\ StoppedMeansNoChild
    /\ StoppedMeansNoAnchor
    /\ EngineIsOwned

(***************************************************************************)
(* The lifecycle implements the abstract takeover journal.                 *)
(***************************************************************************)
Resources == {"forwarding", "alias", "proxy", "dns"}

takenResources ==
    {r \in Resources : CASE r = "forwarding" -> fwd # base.fwd
                         [] r = "alias"      -> alias
                         [] r = "proxy"      -> proxy = "ours"
                         [] r = "dns"        -> dns = "ours"}

journaledResources ==
    {r \in Resources :
        CASE r = "forwarding" -> LiveBoot /\ disk.fwdBefore = base.fwd
          [] r = "alias"      -> LiveBoot /\ disk.aliasOwned
          [] r = "proxy"      -> exists /\ disk.proxy
          [] r = "dns"        -> backup \in UserDns}

Journal == INSTANCE TakeoverJournal
             WITH Resource <- Resources, taken <- takenResources,
                  journal <- journaledResources

\* Every step of the lifecycle records, takes or releases, never two at once.
JournalSpec == Journal!Spec
=============================================================================
