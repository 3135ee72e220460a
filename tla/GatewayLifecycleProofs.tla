----------------------- MODULE GatewayLifecycleProofs -----------------------
(***************************************************************************)
(* Proofs about GatewayLifecycle for every set of configurations, DNS      *)
(* settings and process instances, every number of reboots and every mix   *)
(* and number of faults.                                                   *)
(***************************************************************************)
EXTENDS GatewayLifecycle, TLAPS

Prev == [pid : Inst \cup {NoPid}, known : BOOLEAN, reapply : BOOLEAN]

\* Recording a process keeps a state value well typed.
LEMMA TrackType ==
    ASSUME NEW s \in State, NEW r \in Roles,
           NEW i \in Inst \cup {NoPid}, NEW k \in BOOLEAN
    PROVE  Track(s, r, i, k) \in State
  BY DEF Track, State

\* The fields of a state value are typed.
LEMMA StateFields ==
    ASSUME NEW s \in State
    PROVE  /\ s.boot \in Nat
           /\ s.fwdBefore \in BOOLEAN /\ s.pfBefore \in BOOLEAN
           /\ s.aliasOwned \in BOOLEAN /\ s.proxy \in BOOLEAN
           /\ s.dns \in UserDns \cup {"none", "ours"}
           /\ \A r \in Roles : /\ s.pid[r] \in Inst \cup {NoPid}
                               /\ s.known[r] \in BOOLEAN
  BY DEF State

LEMMA BlankFields ==
    /\ Blank \in State /\ NoPrev \in Prev
    /\ ~Blank.aliasOwned /\ ~Blank.proxy /\ Blank.dns = "none" /\ Blank.boot = 0
  BY DEF Blank, State, NoPrev, Prev

\* What every update of a state value keeps; Tracked is what alias ownership
\* needs.
Tracked(s) == s.pid["broker"] # NoPid /\ s.known["broker"]

Keeps(t, s) == /\ t.boot = s.boot /\ t.fwdBefore = s.fwdBefore
               /\ t.proxy = s.proxy /\ t.dns = s.dns

LEMMA KeepsTrack ==
    ASSUME NEW s \in State, NEW r \in Roles,
           NEW i \in Inst \cup {NoPid}, NEW k \in BOOLEAN
    PROVE  /\ Keeps(Track(s, r, i, k), s)
           /\ Track(s, r, i, k).aliasOwned <=> s.aliasOwned
           /\ r # "broker" => (Tracked(Track(s, r, i, k)) <=> Tracked(s))
           /\ r = "broker" /\ i # NoPid /\ k => Tracked(Track(s, r, i, k))
  BY DEF Track, State, Keeps, Tracked, Roles

LEMMA KeepsAlias ==
    ASSUME NEW s \in State
    PROVE  /\ WithAlias(s) \in State /\ Keeps(WithAlias(s), s)
           /\ WithAlias(s).aliasOwned
           /\ Tracked(WithAlias(s)) <=> Tracked(s)
  BY DEF WithAlias, State, Keeps, Tracked

LEMMA KeepsAnchor ==
    ASSUME NEW s \in State
    PROVE  /\ WithAnchor(s) \in State /\ Keeps(WithAnchor(s), s)
           /\ WithAnchor(s).aliasOwned <=> s.aliasOwned
           /\ Tracked(WithAnchor(s)) <=> Tracked(s)
  BY DEF WithAnchor, State, Keeps, Tracked

LEMMA KeepsDns ==
    ASSUME NEW s \in State
    PROVE  /\ WithDns(s) \in State /\ Keeps(WithDns(s), s)
           /\ WithDns(s).aliasOwned <=> s.aliasOwned
           /\ Tracked(WithDns(s)) <=> Tracked(s)
  BY DEF WithDns, State, Keeps, Tracked

LEMMA SnapshotFields ==
    ASSUME TypeOK, NEW c \in Configs
    PROVE  LET t == Snapshot(c) IN
           /\ t \in State /\ t.boot = boot /\ t.fwdBefore = fwd
           /\ ~t.aliasOwned /\ t.proxy = c.proxy
           /\ t.dns \in {"none", dns, backup}
           /\ t.dns = "none" \/ t.dns = Kept(backup, dns)
  <1> DEFINE d == IF c.dns THEN Kept(backup, dns) ELSE "none"
  <1>1. /\ c.ipv6 \in BOOLEAN /\ c.dns \in BOOLEAN /\ c.proxy \in BOOLEAN
        /\ boot \in Nat /\ fwd \in BOOLEAN /\ pfOn \in BOOLEAN
    BY LifecycleAssumption DEF TypeOK, HostType
  <1>2. d \in UserDns \cup {"none", "ours"}
    BY DEF TypeOK, HostType, FilesType, Kept
  <1>3. d \in {"none", dns, backup} /\ (d = "none" \/ d = Kept(backup, dns))
    BY DEF Kept
  <1> HIDE DEF d
  <1>4. Snapshot(c) =
          [boot |-> boot, fwdBefore |-> fwd, pfBefore |-> pfOn,
           pid |-> Blank.pid, known |-> Blank.known,
           ipv6 |-> c.ipv6, aliasOwned |-> FALSE, pfLoaded |-> FALSE,
           dns |-> d, dnsOwned |-> FALSE, proxy |-> c.proxy]
    BY DEF Snapshot, d
  <1>5. /\ Blank.pid \in [Roles -> Inst \cup {NoPid}]
        /\ Blank.known \in [Roles -> BOOLEAN]
    BY DEF Blank
  <1> QED
    BY <1>1, <1>2, <1>3, <1>4, <1>5 DEF State

LEMMA RestartingFields ==
    ASSUME TypeOK, NEW k \in BOOLEAN
    PROVE  LET t == Restarting(k) IN
           /\ t \in State /\ t.boot = disk.boot /\ t.fwdBefore = disk.fwdBefore
           /\ t.aliasOwned = disk.aliasOwned /\ t.proxy = disk.proxy
           /\ t.pid["broker"] = disk.pid["broker"]
           /\ t.known["broker"] = disk.known["broker"]
           /\ t.dns = IF k THEN disk.dns ELSE "none"
  <1> DEFINE u == Track(disk, "mihomo", NoPid, FALSE)
  <1>1. /\ disk \in State /\ "mihomo" \in Roles
        /\ "broker" \in Roles \ {"mihomo"} /\ NoPid \in Inst \cup {NoPid}
    BY DEF TypeOK, FilesType, Roles
  <1>2. /\ u \in State /\ u.boot = disk.boot /\ u.fwdBefore = disk.fwdBefore
        /\ u.aliasOwned = disk.aliasOwned /\ u.proxy = disk.proxy
        /\ u.pid["broker"] = disk.pid["broker"]
        /\ u.known["broker"] = disk.known["broker"]
    BY <1>1 DEF Track, State, Roles
  <1> HIDE DEF u
  <1>3. Restarting(k) = [u EXCEPT !.dns = IF k THEN disk.dns ELSE "none"]
    BY DEF Restarting, u
  <1> QED
    BY <1>1, <1>2, <1>3, StateFields DEF State

\* Starting, losing and signalling processes keeps the host well typed.
LEMMA FreshInst == \A r \in Roles : Fresh(r) \subseteq Inst
  BY DEF Fresh

LEMMA SpawnedType ==
    ASSUME TypeOK, NEW r \in Roles, NEW i \in Inst, Spawned(r, i)
    PROVE  HostType'
  BY DEF Spawned, TypeOK, HostType

LEMMA DoomedType ==
    ASSUME TypeOK, NEW r \in Roles, Doomed(r), proxy' \in {"off", "ours"}
    PROVE  HostType' /\ BookType'
  <1>1. PICK i \in Inst : dying' = [dying EXCEPT ![r] = @ \cup {i}]
    BY FreshInst DEF Doomed
  <1>2. HostType'
    BY <1>1 DEF Doomed, TypeOK, HostType
  <1>3. BookType'
    BY DEF Doomed, Fault, FaultN, TypeOK, BookType, FaultKinds
  <1> QED BY <1>2, <1>3

LEMMA StoppedType ==
    ASSUME TypeOK, NEW r \in Roles, NEW i \in Inst, Exited(r, i) \/ Killed(r, i)
    PROVE  HostType'
  BY DEF Exited, Killed, HostExceptProcs, TypeOK, HostType

LEMMA SignalType ==
    ASSUME TypeOK, NEW r \in Roles, NEW i, NEW k \in BOOLEAN,
           StopTracked(r, i, k)
    PROVE  HostType' /\ BookType'
  <1>2. CASE i \in Present(r) /\ Stopped(r, i)
    <2>1. i \in Inst
      BY <1>2 DEF Present, TypeOK, HostType
    <2>2. HostType'
      BY <1>2, <2>1, StoppedType DEF Stopped
    <2>3. BookType'
      BY <1>2 DEF Stopped, TypeOK, Fine, book, BookType, Fault, FaultN,
         FaultKinds
    <2> QED BY <2>2, <2>3
  <1>3. CASE UNCHANGED host /\ Fine
    BY <1>3 DEF TypeOK, host, HostType, Fine, book, BookType
  <1>4. CASE /\ ~k /\ strayKill' = TRUE
             /\ reused' = [reused EXCEPT ![r] = @ \ {i}]
             /\ UNCHANGED <<HostExceptProcs, alive, dying, base, left, happened>>
    BY <1>4 DEF TypeOK, HostExceptProcs, HostType, BookType
  <1> QED
    BY <1>2, <1>3, <1>4 DEF StopTracked, SignalPid

LEMMA TypeInit == Init => TypeOK
<1> USE LifecycleAssumption
    DEF Stages, PrepareStages, StartStages, TeardownStages, RestartStages
<1> SUFFICES ASSUME Init PROVE TypeOK
  OBVIOUS
<1>1. HostType BY DEF Init, HostType, Roles
<1>2. FilesType BY BlankFields DEF Init, FilesType
<1>3. OperType BY BlankFields DEF Init, OperType, Prev
<1>4. MaxFaults \in Budget
  BY DEF LifecycleAssumption, Budget
<1>5. BookType BY <1>4 DEF Init, BookType
<1> QED BY <1>1, <1>2, <1>3, <1>5 DEF TypeOK

LEMMA TypeStep == TypeOK /\ [Next]_vars => TypeOK'
<1> USE LifecycleAssumption
  DEF Stages, PrepareStages, StartStages, TeardownStages, RestartStages,
      Fine, Fault, FaultN, book
<1> SUFFICES ASSUME TypeOK, [Next]_vars
             PROVE  TypeOK'
  OBVIOUS
<1> USE DEF host, files, oper, Roles, Prev
<1>1. CASE BeginStart
  <2> USE <1>1 DEF BeginStart
  <2>1. HostType' BY DEF TypeOK, HostType
  <2>2. FilesType' BY DEF TypeOK, FilesType, HostType, OperType
  <2>3. OperType' BY DEF TypeOK, OperType, HostType, FilesType
  <2>4. BookType' BY DEF TypeOK, BookType, HostType, OperType
  <2> QED BY <2>1, <2>2, <2>3, <2>4 DEF TypeOK
<1>2. CASE \E c \in Configs : Prepare(c)
  <2> USE <1>2 DEF Prepare, Goto
  <2>1. HostType' BY DEF TypeOK, HostType
  <2>2. FilesType' BY DEF TypeOK, FilesType, HostType, OperType
  <2>3. OperType' BY SnapshotFields DEF TypeOK, OperType, HostType, FilesType
  <2>4. BookType' BY DEF TypeOK, BookType, HostType, OperType
  <2> QED BY <2>1, <2>2, <2>3, <2>4 DEF TypeOK
<1>3. CASE PrepareRefused
  <2> USE <1>3 DEF PrepareRefused, Return
  <2>1. HostType' BY DEF TypeOK, HostType
  <2>2. FilesType' BY DEF TypeOK, FilesType, HostType, OperType
  <2>3. OperType' BY BlankFields DEF TypeOK, OperType, HostType, FilesType
  <2>4. BookType' BY DEF TypeOK, BookType, HostType, OperType
  <2> QED BY <2>1, <2>2, <2>3, <2>4 DEF TypeOK
<1>4. CASE SaveInitial
  <2> USE <1>4 DEF SaveInitial, Advance, Goto, Saved, SaveLost, Return
  <2>1. HostType' BY DEF TypeOK, HostType
  <2>2. FilesType' BY DEF TypeOK, FilesType, HostType, OperType
  <2>3. OperType' BY BlankFields DEF TypeOK, OperType, HostType, FilesType
  <2>4. BookType' BY DEF TypeOK, BookType, HostType, OperType
  <2> QED BY <2>1, <2>2, <2>3, <2>4 DEF TypeOK
<1>5. CASE EnableForwarding
  <2> USE <1>5 DEF EnableForwarding, Advance, Goto, Rollback
  <2>1. HostType' BY DEF TypeOK, HostType
  <2>2. FilesType' BY DEF TypeOK, FilesType, HostType, OperType
  <2>3. OperType' BY DEF TypeOK, OperType, HostType, FilesType
  <2>4. BookType' BY DEF TypeOK, BookType, HostType, OperType
  <2> QED BY <2>1, <2>2, <2>3, <2>4 DEF TypeOK
<1>6. CASE StartEngine
  <2>0. \A i \in Fresh("mihomo"), k \in BOOLEAN :
           i \in Inst /\ Track(mem, "mihomo", i, k) \in State
    BY TrackType, FreshInst DEF TypeOK, OperType
  <2>1. CASE EngineReady("idMihomo")
    <3>1. HostType'
      BY <2>0, <2>1, SpawnedType DEF EngineReady
    <3>2. OperType'
      BY <2>0, <2>1 DEF EngineReady, Goto, TypeOK, OperType
    <3>3. FilesType' /\ BookType'
      BY <2>1 DEF EngineReady, TypeOK, FilesType, BookType
    <3> QED BY <3>1, <3>2, <3>3 DEF TypeOK
  <2>2. CASE Fault("cmd") /\ Rollback(mem) /\ UNCHANGED <<host, files>>
    <3>1. HostType' /\ FilesType'
      BY <2>2 DEF Rollback, TypeOK, HostType, FilesType
    <3>2. OperType' /\ BookType'
      BY <2>2, BlankFields DEF Rollback, TypeOK, OperType, BookType
    <3> QED BY <3>1, <3>2 DEF TypeOK
  <2>3. ASSUME NEW i \in Fresh("mihomo"), NEW k \in BOOLEAN,
               NEW saved \in BOOLEAN, EngineSurvives(i, k, saved)
        PROVE  TypeOK'
    <3> DEFINE s == Track(mem, "mihomo", i, k)
    <3>0. i \in Inst /\ s \in State
      BY <2>0
    <3>1. disk' \in {disk, s} /\ backup' = backup /\ exists' \in BOOLEAN
      BY <2>3 DEF EngineSurvives, Saved, SaveLost, TypeOK, FilesType
    <3>2. HostType'
      BY <2>3, <3>0, SpawnedType DEF EngineSurvives
    <3>3. OperType'
      BY <2>3, <3>0, BlankFields DEF EngineSurvives, TypeOK, OperType,
         Rollback
    <3>4. BookType'
      BY <2>3 DEF EngineSurvives, StartFaults, TypeOK, BookType
    <3> HIDE DEF s
    <3>5. FilesType'
      BY <3>0, <3>1 DEF TypeOK, FilesType
    <3> QED BY <3>2, <3>3, <3>4, <3>5 DEF TypeOK
  <2>4. CASE Doomed("mihomo") /\ Rollback(mem) /\ UNCHANGED <<proxy, files>>
    <3>1. HostType' /\ BookType'
      BY <2>4, DoomedType DEF TypeOK, HostType, Roles
    <3>2. FilesType' /\ OperType'
      BY <2>4, BlankFields DEF Rollback, TypeOK, FilesType, OperType
    <3> QED BY <3>1, <3>2 DEF TypeOK
  <2> QED BY <1>6, <2>1, <2>2, <2>3, <2>4 DEF StartEngine
<1>7. CASE IdentifyMihomo
  <2> USE <1>7 DEF IdentifyMihomo, Identify, Goto, Rollback, Saved, SaveLost
  <2>0. Track(mem, "mihomo", mem.pid["mihomo"], TRUE) \in State
    BY TrackType, StateFields DEF TypeOK, OperType
  <2>1. HostType' BY DEF TypeOK, HostType
  <2>2. FilesType' BY <2>0 DEF TypeOK, FilesType, HostType, OperType
  <2>3. OperType' BY <2>0 DEF TypeOK, OperType, HostType, FilesType
  <2>4. BookType' BY DEF TypeOK, BookType, HostType, OperType
  <2> QED BY <2>1, <2>2, <2>3, <2>4 DEF TypeOK
<1>8. CASE StartBroker
  <2> USE <1>8 DEF StartBroker, StartService, Goto, Rollback
  <2>0. \A i \in Fresh("broker"), k \in BOOLEAN :
           i \in Inst /\ Track(mem, "broker", i, k) \in State
    BY TrackType, FreshInst DEF TypeOK, OperType
  <2>1. HostType'
    <3>1. CASE \E i \in Fresh("broker") : Spawned("broker", i)
      BY <3>1, <2>0, SpawnedType DEF Roles
    <3>2. CASE Doomed("broker") /\ UNCHANGED proxy
      BY <3>2, DoomedType DEF TypeOK, HostType, Roles
    <3>3. CASE UNCHANGED host
      BY <3>3 DEF host, TypeOK, HostType
    <3> QED BY <3>1, <3>2, <3>3
  <2>2. FilesType' BY <2>0 DEF TypeOK, FilesType, HostType, OperType
  <2>3. OperType'
    <3>1. /\ pc' \in Stages /\ failed' \in BOOLEAN
          /\ UNCHANGED <<op, prev, proxyStarted>>
      BY DEF TypeOK, OperType
    <3>2. mem' \in State
      BY <2>0 DEF TypeOK, OperType
    <3> QED BY <3>1, <3>2 DEF TypeOK, OperType
  <2>4. BookType' BY DEF Doomed, TypeOK, BookType, HostType, OperType
  <2> QED BY <2>1, <2>2, <2>3, <2>4 DEF TypeOK
<1>9. CASE IdentifyBroker
  <2> USE <1>9 DEF IdentifyBroker, Identify, Goto, Rollback, Saved, SaveLost
  <2>0. Track(mem, "broker", mem.pid["broker"], TRUE) \in State
    BY TrackType, StateFields DEF TypeOK, OperType
  <2>1. HostType' BY DEF TypeOK, HostType
  <2>2. FilesType' BY <2>0 DEF TypeOK, FilesType, HostType, OperType
  <2>3. OperType' BY <2>0 DEF TypeOK, OperType, HostType, FilesType
  <2>4. BookType' BY DEF TypeOK, BookType, HostType, OperType
  <2> QED BY <2>1, <2>2, <2>3, <2>4 DEF TypeOK
<1>10. CASE AliasIntent
  <2> USE <1>10 DEF AliasIntent, Goto, Rollback, Saved, SaveLost
  <2>1. HostType' BY DEF TypeOK, HostType
  <2>2. FilesType' BY KeepsAlias DEF TypeOK, FilesType, HostType, OperType
  <2>3. OperType' BY KeepsAlias DEF TypeOK, OperType, HostType, FilesType
  <2>4. BookType' BY DEF TypeOK, BookType, HostType, OperType
  <2> QED BY <2>1, <2>2, <2>3, <2>4 DEF TypeOK
<1>11. CASE AddAlias
  <2> USE <1>11 DEF AddAlias, Advance, Goto, Rollback
  <2>1. HostType' BY DEF TypeOK, HostType
  <2>2. FilesType' BY DEF TypeOK, FilesType, HostType, OperType
  <2>3. OperType' BY DEF TypeOK, OperType, HostType, FilesType
  <2>4. BookType' BY DEF TypeOK, BookType, HostType, OperType
  <2> QED BY <2>1, <2>2, <2>3, <2>4 DEF TypeOK
<1>12. CASE StartDnsmasq
  <2> USE <1>12 DEF StartDnsmasq, StartService, Goto, Rollback
  <2>0. \A i \in Fresh("dnsmasq"), k \in BOOLEAN :
           i \in Inst /\ Track(mem, "dnsmasq", i, k) \in State
    BY TrackType, FreshInst DEF TypeOK, OperType
  <2>1. HostType'
    <3>1. CASE \E i \in Fresh("dnsmasq") : Spawned("dnsmasq", i)
      BY <3>1, <2>0, SpawnedType DEF Roles
    <3>2. CASE Doomed("dnsmasq") /\ UNCHANGED proxy
      BY <3>2, DoomedType DEF TypeOK, HostType, Roles
    <3>3. CASE UNCHANGED host
      BY <3>3 DEF host, TypeOK, HostType
    <3> QED BY <3>1, <3>2, <3>3
  <2>2. FilesType' BY <2>0 DEF TypeOK, FilesType, HostType, OperType
  <2>3. OperType'
    <3>1. /\ pc' \in Stages /\ failed' \in BOOLEAN
          /\ UNCHANGED <<op, prev, proxyStarted>>
      BY DEF TypeOK, OperType
    <3>2. mem' \in State
      BY <2>0 DEF TypeOK, OperType
    <3> QED BY <3>1, <3>2 DEF TypeOK, OperType
  <2>4. BookType' BY DEF Doomed, TypeOK, BookType, HostType, OperType
  <2> QED BY <2>1, <2>2, <2>3, <2>4 DEF TypeOK
<1>13. CASE IdentifyDnsmasq
  <2> USE <1>13 DEF IdentifyDnsmasq, Identify, Goto, Rollback, Saved, SaveLost
  <2>0. Track(mem, "dnsmasq", mem.pid["dnsmasq"], TRUE) \in State
    BY TrackType, StateFields DEF TypeOK, OperType
  <2>1. HostType' BY DEF TypeOK, HostType
  <2>2. FilesType' BY <2>0 DEF TypeOK, FilesType, HostType, OperType
  <2>3. OperType' BY <2>0 DEF TypeOK, OperType, HostType, FilesType
  <2>4. BookType' BY DEF TypeOK, BookType, HostType, OperType
  <2> QED BY <2>1, <2>2, <2>3, <2>4 DEF TypeOK
<1>14. CASE LoadFirewall
  <2> USE <1>14 DEF LoadFirewall, Goto, Rollback
  <2>1. HostType' BY DEF TypeOK, HostType
  <2>2. FilesType' BY DEF TypeOK, FilesType, HostType, OperType
  <2>3. OperType' BY KeepsAnchor DEF TypeOK, OperType, HostType, FilesType
  <2>4. BookType' BY DEF TypeOK, BookType, HostType, OperType
  <2> QED BY <2>1, <2>2, <2>3, <2>4 DEF TypeOK
<1>15. CASE SaveFirewall
  <2> USE <1>15 DEF SaveFirewall, AfterFirewall, Advance, Goto, Rollback,
      Saved, SaveLost
  <2>1. HostType' BY DEF TypeOK, HostType
  <2>2. FilesType' BY DEF TypeOK, FilesType, HostType, OperType
  <2>3. OperType' BY DEF TypeOK, OperType, HostType, FilesType
  <2>4. BookType' BY DEF TypeOK, BookType, HostType, OperType
  <2> QED BY <2>1, <2>2, <2>3, <2>4 DEF TypeOK
<1>16. CASE DnsIntent
  <2> USE <1>16 DEF DnsIntent, Goto, Rollback, Saved, SaveLost
  <2>1. HostType' BY DEF TypeOK, HostType
  <2>2. FilesType' BY KeepsDns DEF TypeOK, FilesType, HostType, OperType
  <2>3. OperType' BY KeepsDns DEF TypeOK, OperType, HostType, FilesType
  <2>4. BookType' BY DEF TypeOK, BookType, HostType, OperType
  <2> QED BY <2>1, <2>2, <2>3, <2>4 DEF TypeOK
<1>17. CASE DnsBackup
  <2> USE <1>17 DEF DnsBackup, Kept, Advance, Goto, Rollback
  <2>1. HostType' BY DEF TypeOK, HostType
  <2>2. FilesType' BY StateFields DEF TypeOK, FilesType, HostType, OperType
  <2>3. OperType' BY DEF TypeOK, OperType, HostType, FilesType
  <2>4. BookType' BY DEF TypeOK, BookType, HostType, OperType
  <2> QED BY <2>1, <2>2, <2>3, <2>4 DEF TypeOK
<1>18. CASE DnsEnable
  <2> USE <1>18 DEF DnsEnable, HostExceptDns, Advance, Goto, Rollback
  <2>1. HostType' BY DEF TypeOK, HostType
  <2>2. FilesType' BY DEF TypeOK, FilesType, HostType, OperType
  <2>3. OperType' BY DEF TypeOK, OperType, HostType, FilesType
  <2>4. BookType' BY DEF TypeOK, BookType, HostType, OperType
  <2> QED BY <2>1, <2>2, <2>3, <2>4 DEF TypeOK
<1>19. CASE DnsVerified
  <2> USE <1>19 DEF DnsVerified, Advance, Goto, Rollback, Saved, SaveLost
  <2>1. HostType' BY DEF TypeOK, HostType
  <2>2. FilesType' BY DEF TypeOK, FilesType, HostType, OperType
  <2>3. OperType' BY DEF TypeOK, OperType, HostType, FilesType
  <2>4. BookType' BY DEF TypeOK, BookType, HostType, OperType
  <2> QED BY <2>1, <2>2, <2>3, <2>4 DEF TypeOK
<1>20. CASE EnableProxy
  <2> USE <1>20 DEF EnableProxy, HostExceptProxy
  <2>1. HostType' BY DEF TypeOK, HostType
  <2>2. FilesType' BY DEF TypeOK, FilesType, HostType, OperType
  <2>3. OperType' BY DEF TypeOK, OperType, HostType, FilesType
  <2>4. BookType' BY DEF TypeOK, BookType, HostType, OperType
  <2> QED BY <2>1, <2>2, <2>3, <2>4 DEF TypeOK
<1>21. CASE FinishStart
  <2> USE <1>21 DEF FinishStart, Return
  <2>1. HostType' BY DEF TypeOK, HostType
  <2>2. FilesType' BY DEF TypeOK, FilesType, HostType, OperType
  <2>3. OperType' BY BlankFields DEF TypeOK, OperType, HostType, FilesType
  <2>4. BookType' BY DEF TypeOK, BookType, HostType, OperType
  <2> QED BY <2>1, <2>2, <2>3, <2>4 DEF TypeOK
<1>22. CASE CancelStart
  <2> USE <1>22 DEF CancelStart, Canceled, Rollback
  <2>1. HostType' BY DEF TypeOK, HostType
  <2>2. FilesType' BY DEF TypeOK, FilesType, HostType, OperType
  <2>3. OperType' BY DEF TypeOK, OperType, HostType, FilesType
  <2>4. BookType' BY DEF TypeOK, BookType, HostType, OperType
  <2> QED BY <2>1, <2>2, <2>3, <2>4 DEF TypeOK
<1>23. CASE BeginStop
  <2> USE <1>23 DEF BeginStop, EnterTeardown
  <2>1. HostType' BY DEF TypeOK, HostType
  <2>2. FilesType' BY DEF TypeOK, FilesType, HostType, OperType
  <2>3. OperType' BY BlankFields DEF TypeOK, OperType, HostType, FilesType
  <2>4. BookType' BY DEF TypeOK, BookType, HostType, OperType
  <2> QED BY <2>1, <2>2, <2>3, <2>4 DEF TypeOK
<1>24. CASE BeginReload
  <2> USE <1>24 DEF BeginReload, EnterTeardown
  <2>1. HostType' BY DEF TypeOK, HostType
  <2>2. FilesType' BY DEF TypeOK, FilesType, HostType, OperType
  <2>3. OperType' BY BlankFields DEF TypeOK, OperType, HostType, FilesType
  <2>4. BookType' BY DEF TypeOK, BookType, HostType, OperType
  <2> QED BY <2>1, <2>2, <2>3, <2>4 DEF TypeOK
<1>25. CASE TeardownDns
  <2> USE <1>25 DEF TeardownDns, HostExceptDns, Kept, Advance, Goto
  <2>1. HostType' BY StateFields DEF TypeOK, HostType, FilesType, OperType,
     BookType
  <2>2. FilesType' BY StateFields DEF TypeOK, FilesType, HostType, OperType
  <2>3. OperType' BY DEF TypeOK, OperType, HostType, FilesType
  <2>4. BookType' BY DEF TypeOK, BookType, HostType, OperType
  <2> QED BY <2>1, <2>2, <2>3, <2>4 DEF TypeOK
<1>26. CASE TeardownProxy
  <2> USE <1>26 DEF TeardownProxy, HostExceptProxy, Advance, Goto, Return
  <2>1. HostType' BY DEF TypeOK, HostType
  <2>2. FilesType' BY DEF TypeOK, FilesType, HostType, OperType
  <2>3. OperType' BY BlankFields DEF TypeOK, OperType, HostType, FilesType
  <2>4. BookType' BY DEF TypeOK, BookType, HostType, OperType
  <2> QED BY <2>1, <2>2, <2>3, <2>4 DEF TypeOK
<1>27. CASE TeardownDnsmasq
  <2> USE <1>27 DEF TeardownDnsmasq, TeardownProcess, StopError
  <2>1. HostType' BY SignalType, StateFields DEF TypeOK, HostType, FilesType,
     OperType, BookType
  <2>2. FilesType' BY DEF TypeOK, FilesType, HostType, OperType
  <2>3. OperType' BY DEF TypeOK, OperType, HostType, FilesType
  <2>4. BookType' BY SignalType, StateFields DEF TypeOK, BookType, HostType,
     OperType
  <2> QED BY <2>1, <2>2, <2>3, <2>4 DEF TypeOK
<1>28. CASE TeardownAlias
  <2> USE <1>28 DEF TeardownAlias
  <2>1. HostType' BY DEF TypeOK, HostType
  <2>2. FilesType' BY DEF TypeOK, FilesType, HostType, OperType
  <2>3. OperType' BY DEF TypeOK, OperType, HostType, FilesType
  <2>4. BookType'
    <3>1. CASE mem.aliasOwned BY <3>1 DEF TypeOK, BookType, FaultKinds
    <3>2. CASE ~mem.aliasOwned BY <3>2 DEF TypeOK, BookType
    <3> QED BY <3>1, <3>2
  <2> QED BY <2>1, <2>2, <2>3, <2>4 DEF TypeOK
<1>29. CASE TeardownBroker
  <2> USE <1>29 DEF TeardownBroker, TeardownProcess, StopError
  <2>1. HostType' BY SignalType, StateFields DEF TypeOK, HostType, FilesType,
     OperType, BookType
  <2>2. FilesType' BY DEF TypeOK, FilesType, HostType, OperType
  <2>3. OperType' BY DEF TypeOK, OperType, HostType, FilesType
  <2>4. BookType' BY SignalType, StateFields DEF TypeOK, BookType, HostType,
     OperType
  <2> QED BY <2>1, <2>2, <2>3, <2>4 DEF TypeOK
<1>30. CASE TeardownMihomo
  <2> USE <1>30 DEF TeardownMihomo, TeardownProcess, StopError
  <2>1. HostType' BY SignalType, StateFields DEF TypeOK, HostType, FilesType,
     OperType, BookType
  <2>2. FilesType' BY DEF TypeOK, FilesType, HostType, OperType
  <2>3. OperType' BY DEF TypeOK, OperType, HostType, FilesType
  <2>4. BookType' BY SignalType, StateFields DEF TypeOK, BookType, HostType,
     OperType
  <2> QED BY <2>1, <2>2, <2>3, <2>4 DEF TypeOK
<1>31. CASE TeardownFirewall
  <2> USE <1>31 DEF TeardownFirewall
  <2>1. HostType' BY StateFields DEF TypeOK, HostType, FilesType, OperType,
     BookType
  <2>2. FilesType' BY DEF TypeOK, FilesType, HostType, OperType
  <2>3. OperType' BY DEF TypeOK, OperType, HostType, FilesType
  <2>4. BookType' BY DEF TypeOK, BookType, HostType, OperType
  <2> QED BY <2>1, <2>2, <2>3, <2>4 DEF TypeOK
<1>32. CASE TeardownForwarding
  <2> USE <1>32 DEF TeardownForwarding
  <2>1. HostType' BY StateFields DEF TypeOK, HostType, FilesType, OperType,
     BookType
  <2>2. FilesType' BY DEF TypeOK, FilesType, HostType, OperType
  <2>3. OperType' BY DEF TypeOK, OperType, HostType, FilesType
  <2>4. BookType' BY DEF TypeOK, BookType, HostType, OperType
  <2> QED BY <2>1, <2>2, <2>3, <2>4 DEF TypeOK
<1>33. CASE TeardownFinish
  <2> USE <1>33 DEF TeardownFinish, Return
  <2>1. HostType' BY DEF TypeOK, HostType
  <2>2. FilesType' BY BlankFields DEF TypeOK, FilesType, HostType, OperType
  <2>3. OperType' BY BlankFields DEF TypeOK, OperType, HostType, FilesType
  <2>4. BookType' BY DEF TypeOK, BookType, HostType, OperType
  <2> QED BY <2>1, <2>2, <2>3, <2>4 DEF TypeOK
<1>34. CASE BeginRestart
  <2> USE <1>34 DEF BeginRestart, HostExceptDns, Kept
  <2>1. HostType' BY StateFields DEF TypeOK, HostType, FilesType, OperType,
     BookType
  <2>2. FilesType' BY StateFields DEF TypeOK, FilesType, HostType, OperType
  <2>3. OperType' BY RestartingFields, StateFields DEF TypeOK, OperType,
     HostType, FilesType
  <2>4. BookType' BY DEF TypeOK, BookType, HostType, OperType
  <2> QED BY <2>1, <2>2, <2>3, <2>4 DEF TypeOK
<1>35. CASE RestartMark
  <2> USE <1>35 DEF RestartMark, Advance, Goto, Saved, SaveLost, Return
  <2>1. HostType' BY DEF TypeOK, HostType
  <2>2. FilesType' BY DEF TypeOK, FilesType, HostType, OperType
  <2>3. OperType' BY BlankFields DEF TypeOK, OperType, HostType, FilesType
  <2>4. BookType' BY DEF TypeOK, BookType, HostType, OperType
  <2> QED BY <2>1, <2>2, <2>3, <2>4 DEF TypeOK
<1>36. CASE RestartStop
  <2> USE <1>36 DEF RestartStop, HostExceptProxy, ProxyAfter, Advance, Goto,
      Saved, SaveLost, Return
  <2>0. Track(mem, "mihomo", prev.pid, prev.known) \in State
    BY TrackType DEF TypeOK, OperType
  <2>1. HostType' BY SignalType DEF TypeOK, HostType, FilesType, OperType,
     BookType
  <2>2. FilesType' BY ZenonT(60), <2>0 DEF TypeOK, FilesType, HostType, OperType
  <2>3. OperType' BY BlankFields DEF TypeOK, OperType, HostType, FilesType
  <2>4. BookType' BY SignalType DEF TypeOK, BookType, HostType, OperType
  <2> QED BY <2>1, <2>2, <2>3, <2>4 DEF TypeOK
<1>37. CASE RestartSpawn
  <2>0. \A i \in Fresh("mihomo"), k \in BOOLEAN :
           i \in Inst /\ Track(mem, "mihomo", i, k) \in State
    BY TrackType, FreshInst DEF TypeOK, OperType
  <2>1. CASE EngineReady("rsIdentify")
    <3>1. HostType'
      BY <2>0, <2>1, SpawnedType DEF EngineReady
    <3>2. OperType'
      BY <2>0, <2>1 DEF EngineReady, Goto, TypeOK, OperType
    <3>3. FilesType' /\ BookType'
      BY <2>1 DEF EngineReady, TypeOK, FilesType, BookType
    <3> QED BY <3>1, <3>2, <3>3 DEF TypeOK
  <2>2. ASSUME NEW lost \in BOOLEAN, RestartFails(lost)
        PROVE  TypeOK'
    <3>1. HostType' /\ FilesType'
      BY <2>2 DEF RestartFails, ProxyAfter, HostExceptProxy, Return, TypeOK,
         HostType, FilesType
    <3>2. OperType' /\ BookType'
      BY <2>2, BlankFields DEF RestartFails, ProxyAfter, HostExceptProxy,
         Return, TypeOK, OperType, BookType
    <3> QED BY <3>1, <3>2 DEF TypeOK
  <2>3. ASSUME NEW i \in Fresh("mihomo"), NEW k \in BOOLEAN,
               NEW saved \in BOOLEAN, RestartSurvives(i, k, saved)
        PROVE  TypeOK'
    <3> DEFINE s == Track(mem, "mihomo", i, k)
    <3>0. i \in Inst /\ s \in State
      BY <2>0
    <3>1. disk' \in {disk, s} /\ backup' = backup /\ exists' \in BOOLEAN
      BY <2>3 DEF RestartSurvives, Saved, SaveLost, TypeOK, FilesType
    <3>2. HostType'
      BY <2>3, <3>0 DEF RestartSurvives, ProxyAfter, TypeOK, HostType
    <3>3. OperType'
      BY <2>3, <3>0, BlankFields DEF RestartSurvives, TypeOK, OperType, Return
    <3>4. BookType'
      BY <2>3 DEF RestartSurvives, StartFaults, TypeOK, BookType
    <3> HIDE DEF s
    <3>5. FilesType'
      BY <3>0, <3>1 DEF TypeOK, FilesType
    <3> QED BY <3>2, <3>3, <3>4, <3>5 DEF TypeOK
  <2>4. CASE /\ Doomed("mihomo") /\ Return /\ proxy' = ProxyAfter(FALSE)
             /\ UNCHANGED files
    <3>0. proxy' \in {"off", "ours"}
      BY <2>4 DEF ProxyAfter, TypeOK, HostType
    <3>1. HostType' /\ BookType'
      BY <2>4, <3>0, DoomedType DEF Roles
    <3>2. FilesType' /\ OperType'
      BY <2>4, BlankFields DEF Return, TypeOK, FilesType, OperType
    <3> QED BY <3>1, <3>2 DEF TypeOK
  <2> QED BY <1>37, <2>1, <2>2, <2>3, <2>4 DEF RestartSpawn
<1>38. CASE RestartIdentify
  <2> USE <1>38 DEF RestartIdentify, ProxyAfter, Goto, Return, Saved, SaveLost
  <2>0. Track(mem, "mihomo", mem.pid["mihomo"], TRUE) \in State
    BY TrackType, StateFields DEF TypeOK, OperType
  <2>1. HostType'
    <3>1. CASE UNCHANGED <<alive, dying>>
      BY <3>1 DEF TypeOK, HostType
    <3>2. CASE /\ alive' = [alive EXCEPT !["mihomo"] = @ \ {mem.pid["mihomo"]}]
               /\ UNCHANGED dying
      BY <3>2 DEF TypeOK, HostType
    <3>3. CASE /\ mem.pid["mihomo"] \in alive["mihomo"]
               /\ alive' = [alive EXCEPT !["mihomo"] = @ \ {mem.pid["mihomo"]}]
               /\ dying' = [dying EXCEPT !["mihomo"] = @ \cup {mem.pid["mihomo"]}]
      BY <3>3 DEF TypeOK, HostType, Roles
    <3> QED BY <3>1, <3>2, <3>3
  <2>2. FilesType' BY <2>0 DEF TypeOK, FilesType, HostType, OperType
  <2>3. OperType' BY <2>0, BlankFields DEF TypeOK, OperType, HostType,
     FilesType
  <2>4. BookType' BY DEF TypeOK, BookType, HostType, OperType
  <2> QED BY <2>1, <2>2, <2>3, <2>4 DEF TypeOK
<1>39. CASE RestartBackup
  <2> USE <1>39 DEF RestartBackup, Kept, Advance, Goto, Return
  <2>1. HostType' BY DEF TypeOK, HostType
  <2>2. FilesType' BY StateFields DEF TypeOK, FilesType, HostType, OperType
  <2>3. OperType' BY BlankFields DEF TypeOK, OperType, HostType, FilesType
  <2>4. BookType' BY DEF TypeOK, BookType, HostType, OperType
  <2> QED BY <2>1, <2>2, <2>3, <2>4 DEF TypeOK
<1>40. CASE RestartEnable
  <2> USE <1>40 DEF RestartEnable, HostExceptDns, Return, Saved, SaveLost
  <2>1. HostType' BY StateFields DEF TypeOK, HostType, FilesType, OperType,
     BookType
  <2>2. FilesType' BY DEF TypeOK, FilesType, HostType, OperType
  <2>3. OperType' BY BlankFields DEF TypeOK, OperType, HostType, FilesType
  <2>4. BookType' BY DEF TypeOK, BookType, HostType, OperType
  <2> QED BY <2>1, <2>2, <2>3, <2>4 DEF TypeOK
<1>41. CASE ChildExits
  <2> USE <1>41 DEF ChildExits
  <2>1. HostType' BY StoppedType DEF TypeOK, HostType, FilesType, OperType,
     BookType
  <2>2. FilesType' BY DEF TypeOK, FilesType, HostType, OperType
  <2>3. OperType' BY DEF TypeOK, OperType, HostType, FilesType
  <2>4. BookType' BY DEF TypeOK, BookType, HostType, OperType
  <2> QED BY <2>1, <2>2, <2>3, <2>4 DEF TypeOK
<1>kg. CASE KilledGoes
  <2> USE <1>kg DEF KilledGoes, HostExceptProcs, files, oper, Fine, book
  <2>1. HostType' BY DEF TypeOK, HostType, FilesType, OperType,
     BookType
  <2>2. FilesType' BY DEF TypeOK, FilesType, HostType, OperType
  <2>3. OperType' BY DEF TypeOK, OperType, HostType, FilesType
  <2>4. BookType' BY DEF TypeOK, BookType, HostType, OperType
  <2> QED BY <2>1, <2>2, <2>3, <2>4 DEF TypeOK
<1>42. CASE PidReused
  <2> USE <1>42 DEF PidReused, HostExceptProcs
  <2>1. HostType' BY StateFields DEF TypeOK, HostType, FilesType, OperType,
     BookType
  <2>2. FilesType' BY DEF TypeOK, FilesType, HostType, OperType
  <2>3. OperType' BY DEF TypeOK, OperType, HostType, FilesType
  <2>4. BookType' BY DEF TypeOK, BookType, HostType, OperType
  <2> QED BY <2>1, <2>2, <2>3, <2>4 DEF TypeOK
<1>43. CASE Crash
  <2> USE <1>43 DEF Crash, Return
  <2>1. HostType' BY DEF TypeOK, HostType
  <2>2. FilesType' BY DEF TypeOK, FilesType, HostType, OperType
  <2>3. OperType' BY BlankFields DEF TypeOK, OperType, HostType, FilesType
  <2>4. BookType' BY DEF TypeOK, BookType, HostType, OperType
  <2> QED BY <2>1, <2>2, <2>3, <2>4 DEF TypeOK
<1>44. CASE Reboot
  <2> USE <1>44 DEF Reboot, Return
  <2>0. /\ [r \in Roles |-> {disk.pid[r]} \ {NoPid}] \in [Roles -> SUBSET Inst]
        /\ boot + 1 \in Nat
    BY StateFields DEF TypeOK, FilesType, HostType
  <2>1. HostType' BY <2>0 DEF TypeOK, HostType, FilesType, OperType, BookType
  <2>2. FilesType' BY DEF TypeOK, FilesType, HostType, OperType
  <2>3. OperType' BY BlankFields DEF TypeOK, OperType, HostType, FilesType
  <2>4. BookType' BY DEF TypeOK, BookType, HostType, OperType
  <2> QED BY <2>1, <2>2, <2>3, <2>4 DEF TypeOK
<1>45. CASE UserEditsDns
  <2> USE <1>45 DEF UserEditsDns, HostExceptDns
  <2>1. HostType' BY DEF TypeOK, HostType
  <2>2. FilesType' BY DEF TypeOK, FilesType, HostType, OperType
  <2>3. OperType' BY DEF TypeOK, OperType, HostType, FilesType
  <2>4. BookType' BY DEF TypeOK, BookType, HostType, OperType
  <2> QED BY <2>1, <2>2, <2>3, <2>4 DEF TypeOK
<1>46. CASE UNCHANGED vars
  BY <1>46 DEF vars, TypeOK, HostType, FilesType, OperType, BookType
<1> QED
  BY <1>1, <1>2, <1>3, <1>4, <1>5, <1>6, <1>7, <1>8, <1>9, <1>10, <1>11,
     <1>12, <1>13, <1>14, <1>15, <1>16, <1>17, <1>18, <1>19, <1>20, <1>21,
     <1>22, <1>23, <1>24, <1>25, <1>26, <1>27, <1>28, <1>29, <1>30, <1>31,
     <1>32, <1>33, <1>34, <1>35, <1>36, <1>37, <1>38, <1>39, <1>40, <1>41, <1>kg,
     <1>42, <1>43, <1>44, <1>45, <1>46
  DEF Next, Start, Teardown, Restart, Environment
\* Every variable keeps its type.
THEOREM TypeCorrect == Spec => []TypeOK
<1> QED BY TypeInit, TypeStep, PTL DEF Spec
-----------------------------------------------------------------------------
(***************************************************************************)
(* The inductive invariant behind Journaled.                               *)
(***************************************************************************)
BeforeAlias == {"saveInitial", "forward", "engine", "idMihomo", "broker",
                "idBroker"}
AfterProxy == TeardownStages \ {"tdDns", "tdProxy"}
AfterAlias == AfterProxy \ {"tdDnsmasq", "tdAlias"}
DnsStages  == {"dnsIntent", "dnsBackup", "dnsEnable", "dnsVerified",
               "rsBackup", "rsEnable"}

\* What the files say, whoever reads them.
Evidence ==
    /\ exists => disk.boot <= boot
    /\ LiveBoot => disk.fwdBefore = base.fwd
    /\ disk.aliasOwned => Tracked(disk)
    /\ disk.dns # "ours" /\ backup # "ours"

\* The state value in memory agrees with the file in what a rollback or stop
\* restores, and never owns less.
InSync == /\ disk.boot = mem.boot /\ disk.fwdBefore = mem.fwdBefore
          /\ disk.proxy = mem.proxy
          /\ disk.aliasOwned => mem.aliasOwned

Memory ==
    /\ mem.aliasOwned => Tracked(mem)
    /\ mem.dns # "ours"
    /\ pc \in PrepareStages => ~exists
    /\ pc = "saveInitial" => mem.boot = boot /\ mem.fwdBefore = base.fwd
    /\ pc \in StartStages \cup RestartStages
                \cup (AfterProxy \ {"tdFinish"}) => exists /\ mem.boot = boot
    /\ pc = "tdProxy" => exists
    /\ (exists /\ pc \in StartStages \cup RestartStages \cup TeardownStages)
          => InSync

\* What the stage reached says about the values in memory and the files.
Staged ==
    /\ pc \in PrepareStages \cup StartStages => op = "start"
    /\ pc \in BeforeAlias => ~mem.aliasOwned
    /\ pc \in {"aliasIntent", "alias"} => Tracked(mem)
    /\ pc = "alias" => disk.aliasOwned
    /\ pc = "proxy" => mem.proxy
    /\ pc \in DnsStages => mem.dns # "none"
    /\ pc \in RestartStages /\ prev.reapply => mem.dns # "none"
    /\ pc \in {"dnsEnable", "rsEnable"} => backup # "none"
    /\ pc \in RestartStages => (disk.aliasOwned <=> mem.aliasOwned)

\* What the teardown has already undone.
Undone ==
    /\ (op = "start" /\ pc \in StartStages \cup TeardownStages /\ ~proxyStarted)
          => proxy = "off"
    /\ pc \in AfterProxy => proxy = "off"
    /\ pc \in AfterAlias /\ ~failed => ~alias
    /\ pc = "tdFinish" /\ ~failed => fwd = base.fwd

IInv == TypeOK /\ Journaled /\ Evidence /\ Memory /\ Staged /\ Undone

LEMMA Inductive == IInv /\ [Next]_vars => IInv'
<1> SUFFICES ASSUME IInv, [Next]_vars
             PROVE  Journaled' /\ Evidence' /\ Memory' /\ Staged' /\ Undone'
  BY TypeStep DEF IInv
<1> USE LifecycleAssumption
    DEF PrepareStages, StartStages, TeardownStages, RestartStages,
        Fine, Fault, FaultN, book
<1> USE DEF IInv, LiveBoot, BeforeAlias, AfterProxy, AfterAlias, DnsStages,
      host, files, oper
\* The actions that record a process.
<1>1. CASE StartEngine
  <2>0. \A i \in Fresh("mihomo"), k \in BOOLEAN :
           LET t == Track(mem, "mihomo", i, k) IN
           /\ Keeps(t, mem) /\ (t.aliasOwned <=> mem.aliasOwned)
           /\ Tracked(t) <=> Tracked(mem)
    BY FreshInst, KeepsTrack DEF TypeOK, OperType, Roles
  <2>1. /\ UNCHANGED <<fwd, alias, dns, proxy, boot, base, backup, prev,
                    proxyStarted, op>>
        /\ pc = "engine" /\ pc' \in {"idMihomo", "tdDns"}
    BY <1>1 DEF StartEngine, Doomed, EngineReady, EngineSurvives, Spawned, Goto,
       Rollback, Saved, SaveLost, StartFaults
  <2>2. \/ /\ Keeps(mem', mem) /\ (mem'.aliasOwned <=> mem.aliasOwned)
           /\ Tracked(mem') <=> Tracked(mem)
        \/ mem' = mem
    BY <1>1, <2>0 DEF StartEngine, Doomed, EngineReady, EngineSurvives, Goto,
       Rollback, Spawned
  <2>3. UNCHANGED <<exists, disk>> \/ (exists' = TRUE /\ disk' = mem')
    BY <1>1 DEF StartEngine, Doomed, EngineReady, EngineSurvives, Goto,
       Rollback,
       Saved, SaveLost
  <2>5. Journaled'
    BY <2>1, <2>2, <2>3 DEF Journaled, ForwardingJournaled,
       AliasJournaled, ProxyJournaled, DnsJournaled, Memory, InSync, Evidence,
       Staged, Keeps
  <2>6. Evidence'
    BY <2>1, <2>2, <2>3 DEF Evidence, Memory, InSync, Staged, Keeps
  <2>7. Memory'
    BY <2>1, <2>2, <2>3 DEF Memory, InSync, Evidence, Staged, Keeps
  <2>8. Staged'
    BY <2>1, <2>2, <2>3 DEF Staged, Memory, InSync, Evidence, Keeps
  <2>9. Undone'
    BY <2>1, <2>2, <2>3 DEF Undone, Memory, InSync, Evidence, Staged,
       Keeps, ForwardingJournaled, AliasJournaled, ProxyJournaled,
       DnsJournaled, Journaled
  <2> QED BY <2>5, <2>6, <2>7, <2>8, <2>9
<1>2. CASE StartBroker
  <2>0. \A i \in Fresh("broker"), k \in BOOLEAN :
           LET t == Track(mem, "broker", i, k) IN
           /\ Keeps(t, mem) /\ (t.aliasOwned <=> mem.aliasOwned)
    BY FreshInst, KeepsTrack DEF TypeOK, OperType, Roles
  <2>1. /\ UNCHANGED <<fwd, alias, dns, proxy, boot, base, backup, prev,
                    proxyStarted, op>>
        /\ pc = "broker" /\ pc' \in {"idBroker", "tdDns"}
    BY <1>2 DEF StartBroker, StartService, Doomed, Spawned, Goto, Rollback,
       Saved,
       SaveLost, StartFaults
  <2>2. \/ Keeps(mem', mem) /\ (mem'.aliasOwned <=> mem.aliasOwned)
        \/ mem' = mem
    BY <1>2, <2>0 DEF StartBroker, StartService, Doomed, Goto, Rollback, Spawned
  <2>3. UNCHANGED <<exists, disk>>
    BY <1>2 DEF StartBroker, StartService
  <2>5. Journaled'
    BY <2>1, <2>2, <2>3 DEF Journaled, ForwardingJournaled,
       AliasJournaled, ProxyJournaled, DnsJournaled, Memory, InSync, Evidence,
       Staged, Keeps
  <2>6. Evidence'
    BY <2>1, <2>2, <2>3 DEF Evidence, Memory, InSync, Staged, Keeps
  <2>7. Memory'
    BY <2>1, <2>2, <2>3 DEF Memory, InSync, Evidence, Staged, Keeps
  <2>8. Staged'
    BY <2>1, <2>2, <2>3 DEF Staged, Memory, InSync, Evidence, Keeps
  <2>9. Undone'
    BY <2>1, <2>2, <2>3 DEF Undone, Memory, InSync, Evidence, Staged,
       Keeps, ForwardingJournaled, AliasJournaled, ProxyJournaled,
       DnsJournaled, Journaled
  <2> QED BY <2>5, <2>6, <2>7, <2>8, <2>9
<1>3. CASE StartDnsmasq
  <2>0. \A i \in Fresh("dnsmasq"), k \in BOOLEAN :
           LET t == Track(mem, "dnsmasq", i, k) IN
           /\ Keeps(t, mem) /\ (t.aliasOwned <=> mem.aliasOwned)
           /\ Tracked(t) <=> Tracked(mem)
    BY FreshInst, KeepsTrack DEF TypeOK, OperType, Roles
  <2>1. /\ UNCHANGED <<fwd, alias, dns, proxy, boot, base, backup, prev,
                    proxyStarted, op>>
        /\ pc = "dnsmasq" /\ pc' \in {"idDnsmasq", "tdDns"}
    BY <1>3 DEF StartDnsmasq, StartService, Doomed, Spawned, Goto, Rollback,
       Saved,
       SaveLost, StartFaults
  <2>2. \/ /\ Keeps(mem', mem) /\ (mem'.aliasOwned <=> mem.aliasOwned)
           /\ Tracked(mem') <=> Tracked(mem)
        \/ mem' = mem
    BY <1>3, <2>0 DEF StartDnsmasq, StartService, Doomed, Goto, Rollback,
       Spawned
  <2>3. UNCHANGED <<exists, disk>>
    BY <1>3 DEF StartDnsmasq, StartService
  <2>5. Journaled'
    BY <2>1, <2>2, <2>3 DEF Journaled, ForwardingJournaled,
       AliasJournaled, ProxyJournaled, DnsJournaled, Memory, InSync, Evidence,
       Staged, Keeps
  <2>6. Evidence'
    BY <2>1, <2>2, <2>3 DEF Evidence, Memory, InSync, Staged, Keeps
  <2>7. Memory'
    BY <2>1, <2>2, <2>3 DEF Memory, InSync, Evidence, Staged, Keeps
  <2>8. Staged'
    BY <2>1, <2>2, <2>3 DEF Staged, Memory, InSync, Evidence, Keeps
  <2>9. Undone'
    BY <2>1, <2>2, <2>3 DEF Undone, Memory, InSync, Evidence, Staged,
       Keeps, ForwardingJournaled, AliasJournaled, ProxyJournaled,
       DnsJournaled, Journaled
  <2> QED BY <2>5, <2>6, <2>7, <2>8, <2>9
<1>4. CASE BeginRestart
  <2> USE <1>4 DEF BeginRestart, HostExceptDns, Kept
  <2> DEFINE owned == disk.dnsOwned /\ disk.dns # "none"
  <2>1. /\ op' = "restart" /\ pc' = "rsMark"
        /\ UNCHANGED <<exists, disk, boot>> /\ exists /\ disk.boot = boot
    OBVIOUS
  <2>2. mem' = Restarting(owned)
    OBVIOUS
  <2>3. prev' = [pid |-> disk.pid["mihomo"], known |-> disk.known["mihomo"],
                 reapply |-> owned]
    OBVIOUS
  <2>4. /\ mem'.boot = disk.boot /\ mem'.fwdBefore = disk.fwdBefore
        /\ mem'.aliasOwned = disk.aliasOwned /\ mem'.proxy = disk.proxy
        /\ mem'.pid["broker"] = disk.pid["broker"]
        /\ mem'.known["broker"] = disk.known["broker"]
        /\ mem'.dns = IF owned THEN disk.dns ELSE "none"
    <3>1. owned \in BOOLEAN
      BY StateFields DEF TypeOK, FilesType, State
    <3> QED BY <2>2, <3>1, RestartingFields
  <2>5. Journaled'
    BY RestartingFields, StateFields DEF Journaled, ForwardingJournaled,
       AliasJournaled, ProxyJournaled, DnsJournaled, Evidence, Memory, InSync,
       Staged, Undone, TypeOK, HostType, FilesType, OperType, Keeps, Tracked
  <2>6. Evidence'
    BY RestartingFields, StateFields DEF Journaled, ForwardingJournaled,
       AliasJournaled, ProxyJournaled, DnsJournaled, Evidence, Memory, InSync,
       Staged, Undone, TypeOK, HostType, FilesType, OperType, Keeps, Tracked
  <2>7. Memory'
    BY <2>1, <2>4 DEF Memory, InSync, Evidence, Tracked
  <2>8. Staged'
    <3>1. prev'.reapply = owned
      BY <2>3
    <3> QED BY <2>1, <2>4, <3>1 DEF Staged
  <2>9. Undone'
    BY RestartingFields, StateFields DEF Journaled, ForwardingJournaled,
       AliasJournaled, ProxyJournaled, DnsJournaled, Evidence, Memory, InSync,
       Staged, Undone, TypeOK, HostType, FilesType, OperType, Keeps, Tracked
  <2> QED BY <2>5, <2>6, <2>7, <2>8, <2>9
<1>5. CASE RestartStop
  <2>0.    LET t == Track(mem, "mihomo", prev.pid, prev.known) IN
           /\ Keeps(t, mem) /\ (t.aliasOwned <=> mem.aliasOwned)
           /\ Tracked(t) <=> Tracked(mem)
    BY KeepsTrack DEF TypeOK, OperType, Roles, Prev
  <2>1. /\ UNCHANGED <<fwd, alias, dns, boot, base, backup>>
        /\ proxy' \in {proxy, "off"}
        /\ pc = "rsStop" /\ pc' \in {"rsSpawn", "idle"}
        /\ pc' # "idle" => UNCHANGED <<op, prev, proxyStarted>>
    BY <1>5 DEF RestartStop, StopTracked, SignalPid, Stopped, Exited, Killed,
       Present,
       HostExceptProcs, ProxyAfter, Advance, Goto, Return, Saved, SaveLost,
       StartFaults, HostExceptProxy
  <2>2. (mem' = Blank /\ pc' = "idle") \/ mem' = mem
    BY <1>5 DEF RestartStop, StopTracked, SignalPid, Stopped, Exited, Killed,
       Present,
       HostExceptProcs, ProxyAfter, Advance, Goto, Return
  <2>3. \/ UNCHANGED <<exists, disk>>
        \/ /\ exists' = TRUE /\ pc' = "idle" /\ Keeps(disk', mem)
           /\ disk'.aliasOwned <=> mem.aliasOwned
           /\ Tracked(disk') <=> Tracked(mem)
    BY <1>5, <2>0 DEF RestartStop, StopTracked, SignalPid, Stopped, Exited,
       Killed, Present,
       HostExceptProcs, ProxyAfter, Advance, Goto, Return, Saved, SaveLost,
       Keeps, Tracked
  <2>4. ~Blank.aliasOwned /\ Blank.dns = "none"
    BY BlankFields
  <2>5. Journaled'
    BY <2>1, <2>2, <2>3, <2>4 DEF Journaled, ForwardingJournaled,
       AliasJournaled, ProxyJournaled, DnsJournaled, Memory, InSync, Evidence,
       Staged, Keeps
  <2>6. Evidence'
    BY <2>1, <2>2, <2>3, <2>4 DEF Evidence, Memory, InSync, Staged, Keeps
  <2>7. Memory'
    BY <2>1, <2>2, <2>3, <2>4 DEF Memory, InSync, Evidence, Staged, Keeps
  <2>8. Staged'
    BY <2>1, <2>2, <2>3, <2>4 DEF Staged, Memory, InSync, Evidence, Keeps
  <2>9. Undone'
    BY <2>1, <2>2, <2>3, <2>4 DEF Undone, Memory, InSync, Evidence, Staged,
       Keeps, ForwardingJournaled, AliasJournaled, ProxyJournaled,
       DnsJournaled, Journaled
  <2> QED BY <2>5, <2>6, <2>7, <2>8, <2>9
<1>6. CASE RestartSpawn
  <2>0. \A i \in Fresh("mihomo"), k \in BOOLEAN :
           LET t == Track(mem, "mihomo", i, k) IN
           /\ Keeps(t, mem) /\ (t.aliasOwned <=> mem.aliasOwned)
           /\ Tracked(t) <=> Tracked(mem)
    BY FreshInst, KeepsTrack DEF TypeOK, OperType, Roles
  <2>1. /\ UNCHANGED <<fwd, alias, dns, boot, base, backup>>
        /\ proxy' \in {proxy, "off"}
        /\ pc = "rsSpawn" /\ pc' \in {"rsIdentify", "idle"}
        /\ pc' # "idle" => UNCHANGED <<op, prev, proxyStarted>>
    BY <1>6 DEF RestartSpawn, Doomed, EngineReady, RestartFails,
       RestartSurvives,
       Spawned, ProxyAfter, Advance, Goto, Return, Saved, SaveLost,
       StartFaults, HostExceptProxy
  <2>2. \/ mem' = Blank /\ pc' = "idle"
        \/ /\ Keeps(mem', mem) /\ (mem'.aliasOwned <=> mem.aliasOwned)
           /\ Tracked(mem') <=> Tracked(mem)
    BY <1>6, <2>0 DEF RestartSpawn, Doomed, EngineReady, RestartFails,
       RestartSurvives, Spawned, ProxyAfter, Goto, Return
  <2>3. \/ UNCHANGED <<exists, disk>>
        \/ /\ exists' = TRUE /\ pc' = "idle" /\ Keeps(disk', mem)
           /\ disk'.aliasOwned <=> mem.aliasOwned
           /\ Tracked(disk') <=> Tracked(mem)
    <3>1. \/ UNCHANGED <<exists, disk>>
          \/ \E i \in Fresh("mihomo"), k \in BOOLEAN :
               /\ exists' = TRUE /\ pc' = "idle"
               /\ disk' = Track(mem, "mihomo", i, k)
      BY <1>6 DEF RestartSpawn, Doomed, EngineReady, RestartFails,
         RestartSurvives,
         Return, Saved, SaveLost
    <3> QED BY <3>1, <2>0
  <2>4. ~Blank.aliasOwned /\ Blank.dns = "none"
    BY BlankFields
  <2>5. Journaled'
    BY <2>1, <2>2, <2>3, <2>4 DEF Journaled, ForwardingJournaled,
       AliasJournaled, ProxyJournaled, DnsJournaled, Memory, InSync, Evidence,
       Staged, Keeps
  <2>6. Evidence'
    BY <2>1, <2>2, <2>3, <2>4 DEF Evidence, Memory, InSync, Staged, Keeps
  <2>7. Memory'
    BY <2>1, <2>2, <2>3, <2>4 DEF Memory, InSync, Evidence, Staged, Keeps
  <2>8. Staged'
    BY <2>1, <2>2, <2>3, <2>4 DEF Staged, Memory, InSync, Evidence, Keeps
  <2>9. Undone'
    BY <2>1, <2>2, <2>3, <2>4 DEF Undone, Memory, InSync, Evidence, Staged,
       Keeps, ForwardingJournaled, AliasJournaled, ProxyJournaled,
       DnsJournaled, Journaled
  <2> QED BY <2>5, <2>6, <2>7, <2>8, <2>9
\* All others.
<1> USE DEF Journaled, ForwardingJournaled, AliasJournaled, ProxyJournaled,
      DnsJournaled, Evidence, Memory, InSync, Staged, Undone, TypeOK,
      HostType, FilesType, OperType
<1>7. CASE BeginStart
  BY <1>7 DEF BeginStart
<1>8. CASE \E c \in Configs : Prepare(c)
  <2> USE <1>8 DEF Prepare, Goto
  <2>0. \A c \in Configs : LET t == Snapshot(c) IN
          /\ t.boot = boot /\ t.fwdBefore = fwd
          /\ ~t.aliasOwned /\ t.dns # "ours"
    BY SnapshotFields DEF Kept
  <2>1. Journaled'
    BY <2>0 DEF Keeps
  <2>2. Evidence'
    BY <2>0 DEF Keeps
  <2>3. Memory'
    BY <2>0 DEF Keeps
  <2>4. Staged'
    BY <2>0 DEF Keeps
  <2>5. Undone'
    BY <2>0 DEF Keeps
  <2> QED BY <2>1, <2>2, <2>3, <2>4, <2>5
<1>9. CASE PrepareRefused
  BY <1>9, BlankFields DEF PrepareRefused, Return
<1>10. CASE SaveInitial
  BY <1>10, BlankFields DEF SaveInitial, Advance, Goto, Saved, SaveLost, Return
<1>11. CASE EnableForwarding
  BY <1>11, StateFields DEF EnableForwarding, Advance, Goto, Rollback
<1>12. CASE IdentifyMihomo
  <2> USE <1>12 DEF IdentifyMihomo, Identify, Goto, Rollback, Saved, SaveLost
  <2>0. LET t == Track(mem, "mihomo", mem.pid["mihomo"], TRUE) IN
        /\ Keeps(t, mem)
        /\ t.aliasOwned <=> mem.aliasOwned
        /\ Tracked(t) <=> Tracked(mem)
    BY KeepsTrack, StateFields DEF Roles
  <2>1. Journaled'
    BY <2>0 DEF Keeps
  <2>2. Evidence'
    BY <2>0 DEF Keeps
  <2>3. Memory'
    BY <2>0 DEF Keeps
  <2>4. Staged'
    BY <2>0 DEF Keeps
  <2>5. Undone'
    BY <2>0 DEF Keeps
  <2> QED BY <2>1, <2>2, <2>3, <2>4, <2>5
<1>13. CASE IdentifyBroker
  <2> USE <1>13 DEF IdentifyBroker, Identify, Goto, Rollback, Saved, SaveLost
  <2>0. LET t == Track(mem, "broker", mem.pid["broker"], TRUE) IN
        /\ Keeps(t, mem)
        /\ t.aliasOwned <=> mem.aliasOwned
        /\ mem.pid["broker"] \in alive["broker"] => Tracked(t)
    <3>1. mem.pid["broker"] \in alive["broker"] => mem.pid["broker"] # NoPid
      BY DEF Roles
    <3>2. /\ mem \in State /\ "broker" \in Roles
          /\ mem.pid["broker"] \in Inst \cup {NoPid}
      BY StateFields DEF Roles
    <3> QED BY ZenonT(60), <3>1, <3>2, KeepsTrack
  <2>1. Journaled'
    BY <2>0 DEF Keeps
  <2>2. Evidence'
    BY <2>0 DEF Keeps
  <2>3. Memory'
    BY <2>0 DEF Keeps
  <2>4. Staged'
    BY <2>0 DEF Keeps
  <2>5. Undone'
    BY <2>0 DEF Keeps
  <2> QED BY <2>1, <2>2, <2>3, <2>4, <2>5
<1>14. CASE AliasIntent
  <2>0. /\ Keeps(WithAlias(mem), mem)
        /\ Tracked(WithAlias(mem)) <=> Tracked(mem)
        /\ WithAlias(mem).aliasOwned
    BY KeepsAlias
  <2>1. /\ UNCHANGED <<fwd, alias, dns, proxy, boot, base, backup, prev,
                    proxyStarted, op>>
        /\ pc = "aliasIntent" /\ pc' \in {"alias", "tdDns"}
    BY <1>14 DEF AliasIntent, Goto, Rollback, Saved, SaveLost
  <2>2. mem' \in {mem, WithAlias(mem)} /\ mem' = WithAlias(mem)
    BY <1>14 DEF AliasIntent, Goto, Rollback
  <2>3. \/ UNCHANGED <<exists, disk>> /\ pc' = "tdDns"
        \/ exists' = TRUE /\ disk' = WithAlias(mem)
    BY <1>14 DEF AliasIntent, Goto, Rollback, Saved, SaveLost
  <2>4. Keeps(mem', mem) /\ (Tracked(mem') <=> Tracked(mem)) /\ mem'.aliasOwned
    BY <2>0, <2>2 DEF Keeps, Tracked
  <2>5. Journaled'
    BY <2>0, <2>1, <2>2, <2>3, <2>4 DEF Keeps
  <2>6. Evidence'
    BY <2>0, <2>1, <2>2, <2>3, <2>4 DEF Keeps
  <2>7. Memory'
    BY <2>0, <2>1, <2>2, <2>3, <2>4 DEF Keeps
  <2>8. Staged'
    BY <2>0, <2>1, <2>2, <2>3, <2>4 DEF Keeps
  <2>9. Undone'
    BY <2>0, <2>1, <2>2, <2>3, <2>4 DEF Keeps
  <2> QED BY <2>5, <2>6, <2>7, <2>8, <2>9
<1>15. CASE AddAlias
  BY <1>15 DEF AddAlias, Advance, Goto, Rollback
<1>16. CASE IdentifyDnsmasq
  <2> USE <1>16 DEF IdentifyDnsmasq, Identify, Goto, Rollback, Saved, SaveLost
  <2>0. LET t == Track(mem, "dnsmasq", mem.pid["dnsmasq"], TRUE) IN
        /\ Keeps(t, mem)
        /\ t.aliasOwned <=> mem.aliasOwned
        /\ Tracked(t) <=> Tracked(mem)
    BY KeepsTrack, StateFields DEF Roles
  <2>1. Journaled'
    BY <2>0 DEF Keeps
  <2>2. Evidence'
    BY <2>0 DEF Keeps
  <2>3. Memory'
    BY ZenonT(60), <2>0 DEF Keeps
  <2>4. Staged'
    BY <2>0 DEF Keeps
  <2>5. Undone'
    BY <2>0 DEF Keeps
  <2> QED BY <2>1, <2>2, <2>3, <2>4, <2>5
<1>17. CASE LoadFirewall
  <2>0. /\ Keeps(WithAnchor(mem), mem)
        /\ Tracked(WithAnchor(mem)) <=> Tracked(mem)
        /\ WithAnchor(mem).aliasOwned <=> mem.aliasOwned
    BY KeepsAnchor
  <2>1. /\ UNCHANGED <<fwd, alias, dns, proxy, boot, base, backup, prev,
                    proxyStarted, op>>
        /\ pc = "firewall" /\ pc' \in {"firewallSave", "tdDns"}
    BY <1>17 DEF LoadFirewall, Goto, Rollback, Saved, SaveLost
  <2>2. mem' \in {mem, WithAnchor(mem)}
    BY <1>17 DEF LoadFirewall, Goto, Rollback
  <2>3. \/ UNCHANGED <<exists, disk>>
        \/ exists' = TRUE /\ disk' = WithAnchor(mem)
    BY <1>17 DEF LoadFirewall, Goto, Rollback, Saved, SaveLost
  <2>4. /\ Keeps(mem', mem) /\ (mem'.aliasOwned <=> mem.aliasOwned)
        /\ Tracked(mem') <=> Tracked(mem)
    BY <2>0, <2>2 DEF Keeps, Tracked
  <2>5. Journaled'
    BY <2>0, <2>1, <2>2, <2>3, <2>4 DEF Keeps
  <2>6. Evidence'
    BY <2>0, <2>1, <2>2, <2>3, <2>4 DEF Keeps
  <2>7. Memory'
    BY <2>0, <2>1, <2>2, <2>3, <2>4 DEF Keeps
  <2>8. Staged'
    BY <2>0, <2>1, <2>2, <2>3, <2>4 DEF Keeps
  <2>9. Undone'
    BY <2>0, <2>1, <2>2, <2>3, <2>4 DEF Keeps
  <2> QED BY <2>5, <2>6, <2>7, <2>8, <2>9
<1>18. CASE SaveFirewall
  BY ZenonT(60), <1>18 DEF SaveFirewall, AfterFirewall, Advance, Goto,
     Rollback, Saved, SaveLost
<1>19. CASE DnsIntent
  <2>0. /\ Keeps(WithDns(mem), mem) /\ (Tracked(WithDns(mem)) <=> Tracked(mem))
        /\ WithDns(mem).aliasOwned <=> mem.aliasOwned
    BY KeepsDns
  <2>1. /\ UNCHANGED <<fwd, alias, dns, proxy, boot, base, backup, prev,
                    proxyStarted, op>>
        /\ pc = "dnsIntent" /\ pc' \in {"dnsBackup", "tdDns"}
    BY <1>19 DEF DnsIntent, Goto, Rollback, Saved, SaveLost
  <2>2. mem' \in {mem, WithDns(mem)}
    BY <1>19 DEF DnsIntent, Goto, Rollback
  <2>3. \/ UNCHANGED <<exists, disk>>
        \/ exists' = TRUE /\ disk' = WithDns(mem)
    BY <1>19 DEF DnsIntent, Goto, Rollback, Saved, SaveLost
  <2>4. /\ Keeps(mem', mem) /\ (mem'.aliasOwned <=> mem.aliasOwned)
        /\ Tracked(mem') <=> Tracked(mem)
    BY <2>0, <2>2 DEF Keeps, Tracked
  <2>5. Journaled'
    BY <2>0, <2>1, <2>2, <2>3, <2>4 DEF Keeps
  <2>6. Evidence'
    BY <2>0, <2>1, <2>2, <2>3, <2>4 DEF Keeps
  <2>7. Memory'
    BY <2>0, <2>1, <2>2, <2>3, <2>4 DEF Keeps
  <2>8. Staged'
    BY <2>0, <2>1, <2>2, <2>3, <2>4 DEF Keeps
  <2>9. Undone'
    BY <2>0, <2>1, <2>2, <2>3, <2>4 DEF Keeps
  <2> QED BY <2>5, <2>6, <2>7, <2>8, <2>9
<1>20. CASE DnsBackup
  BY <1>20, StateFields DEF DnsBackup, Kept, Advance, Goto, Rollback
<1>21. CASE DnsEnable
  BY <1>21 DEF DnsEnable, HostExceptDns, Advance, Goto, Rollback
<1>22. CASE DnsVerified
  BY ZenonT(60), <1>22 DEF DnsVerified, Advance, Goto, Rollback, Saved,
     SaveLost
<1>23. CASE EnableProxy
  BY <1>23 DEF EnableProxy, HostExceptProxy
<1>24. CASE FinishStart
  BY <1>24, BlankFields DEF FinishStart, Return
<1>25. CASE CancelStart
  BY <1>25 DEF CancelStart, Canceled, Rollback
<1>26. CASE BeginStop
  BY <1>26, BlankFields DEF BeginStop, EnterTeardown
<1>27. CASE BeginReload
  BY <1>27, BlankFields DEF BeginReload, EnterTeardown
<1>28. CASE TeardownDns
  BY <1>28, StateFields DEF TeardownDns, HostExceptDns, Kept, Advance, Goto
<1>29. CASE TeardownProxy
  BY <1>29, BlankFields DEF TeardownProxy, HostExceptProxy, Advance, Goto,
     Return
<1>30. CASE TeardownDnsmasq
  BY <1>30 DEF TeardownDnsmasq, TeardownProcess, StopError, StopTracked,
     SignalPid, Stopped, Exited, Killed, Present, HostExceptProcs
<1>31. CASE TeardownAlias
  BY <1>31 DEF TeardownAlias
<1>32. CASE TeardownBroker
  BY <1>32 DEF TeardownBroker, TeardownProcess, StopError, StopTracked,
     SignalPid, Stopped, Exited, Killed, Present, HostExceptProcs
<1>33. CASE TeardownMihomo
  BY <1>33 DEF TeardownMihomo, TeardownProcess, StopError, StopTracked,
     SignalPid, Stopped, Exited, Killed, Present, HostExceptProcs
<1>34. CASE TeardownFirewall
  BY <1>34 DEF TeardownFirewall
<1>35. CASE TeardownForwarding
  BY <1>35 DEF TeardownForwarding
<1>36. CASE TeardownFinish
  BY <1>36, BlankFields DEF TeardownFinish, Return
<1>37. CASE RestartMark
  BY ZenonT(60), <1>37, BlankFields DEF RestartMark, Advance, Goto, Saved,
     SaveLost, Return
<1>38. CASE RestartIdentify
  <2> USE <1>38 DEF RestartIdentify, ProxyAfter, Goto, Return, Saved, SaveLost
  <2>0. LET t == Track(mem, "mihomo", mem.pid["mihomo"], TRUE) IN
        /\ Keeps(t, mem)
        /\ t.aliasOwned <=> mem.aliasOwned
        /\ Tracked(t) <=> Tracked(mem)
    BY KeepsTrack, StateFields DEF Roles
  <2>1. Journaled'
    BY <2>0, BlankFields DEF Keeps
  <2>2. Evidence'
    BY <2>0, BlankFields DEF Keeps
  <2>3. Memory'
    BY <2>0, BlankFields DEF Keeps
  <2>4. Staged'
    BY <2>0, BlankFields DEF Keeps
  <2>5. Undone'
    BY <2>0, BlankFields DEF Keeps
  <2> QED BY <2>1, <2>2, <2>3, <2>4, <2>5
<1>39. CASE RestartBackup
  BY <1>39, BlankFields, StateFields DEF RestartBackup, Kept, Advance, Goto,
     Return
<1>40. CASE RestartEnable
  BY ZenonT(60), <1>40, BlankFields, StateFields DEF RestartEnable,
     HostExceptDns, Return, Saved, SaveLost
<1>41. CASE ChildExits
  BY <1>41 DEF ChildExits, Exited, HostExceptProcs
<1>kg. CASE KilledGoes
  BY <1>kg DEF KilledGoes, HostExceptProcs
<1>42. CASE PidReused
  BY <1>42 DEF PidReused, HostExceptProcs
<1>43. CASE Crash
  BY <1>43, BlankFields DEF Crash, Return
<1>44. CASE Reboot
  <2> USE <1>44 DEF Reboot, Return
  <2>0. /\ boot' = boot + 1
        /\ exists => disk.boot <= boot' /\ disk.boot # boot'
    BY StateFields
  <2>1. Journaled'
    BY <2>0, BlankFields DEF Keeps
  <2>2. Evidence'
    BY <2>0, BlankFields DEF Keeps
  <2>3. Memory'
    BY <2>0, BlankFields DEF Keeps
  <2>4. Staged'
    BY <2>0, BlankFields DEF Keeps
  <2>5. Undone'
    BY <2>0, BlankFields DEF Keeps
  <2> QED BY <2>1, <2>2, <2>3, <2>4, <2>5
<1>45. CASE UserEditsDns
  BY <1>45 DEF UserEditsDns, HostExceptDns
<1>46. CASE UNCHANGED vars
  BY <1>46, TypeStep DEF vars, book
<1> QED
  BY <1>1, <1>2, <1>3, <1>4, <1>5, <1>6, <1>7, <1>8, <1>9, <1>10, <1>11,
     <1>12, <1>13, <1>14, <1>15, <1>16, <1>17, <1>18, <1>19, <1>20, <1>21,
     <1>22, <1>23, <1>24, <1>25, <1>26, <1>27, <1>28, <1>29, <1>30, <1>31,
     <1>32, <1>33, <1>34, <1>35, <1>36, <1>37, <1>38, <1>39, <1>40, <1>41, <1>kg,
     <1>42, <1>43, <1>44, <1>45, <1>46
  DEF Next, Start, Teardown, Restart, Environment

-----------------------------------------------------------------------------
(***************************************************************************)
(* What follows from the inductive invariant.                              *)
(***************************************************************************)
\* Before the first start nothing is taken over and nothing is recorded.
LEMMA InvariantInit == Init => IInv
<1> SUFFICES ASSUME Init PROVE IInv
  OBVIOUS
<1> USE LifecycleAssumption, BlankFields DEF Init
<1>1. TypeOK
  BY TypeInit
<1>2. Journaled
  BY DEF Journaled, ForwardingJournaled, AliasJournaled, ProxyJournaled,
     DnsJournaled
<1>3. Evidence
  BY DEF Evidence, LiveBoot
<1>4. Memory /\ Staged /\ Undone
  BY DEF Memory, InSync, Staged, Undone, BeforeAlias, AfterProxy, AfterAlias,
     DnsStages, PrepareStages, StartStages, TeardownStages, RestartStages
<1> QED BY <1>1, <1>2, <1>3, <1>4 DEF IInv

\* The strengthened invariant holds in every reachable state.
THEOREM InvariantCorrect == Spec => []IInv
<1> QED BY InvariantInit, Inductive, PTL DEF Spec

\* Write-ahead journal: whatever fails, crashes or reboots in whatever order,
\* forwarding, the alias, the proxy and DNS are taken over only while durable
\* evidence of the user's setting exists.
THEOREM JournaledAlways == Spec => []Journaled
<1>1. IInv => Journaled
  BY DEF IInv
<1> QED BY <1>1, InvariantCorrect, PTL

\* While the downstream IPv6 alias is up, the state file names the broker by
\* PID and fingerprint.
THEOREM AliasHasTrackedBrokerAlways == Spec => []AliasHasTrackedBroker
<1>1. IInv => AliasHasTrackedBroker
  BY DEF IInv, Journaled, AliasJournaled, Evidence, Tracked,
     AliasHasTrackedBroker
<1> QED BY <1>1, InvariantCorrect, PTL

\* What a later stop needs to undo the takeover is on disk, for every
\* configuration and whatever fails or crashes how often.
THEOREM EvidencedAlways == Spec => []Evidenced
<1>1. Journaled /\ AliasHasTrackedBroker => Evidenced
  BY DEF Evidenced
<1> QED BY <1>1, JournaledAlways, AliasHasTrackedBrokerAlways, PTL

-----------------------------------------------------------------------------
(***************************************************************************)
(* The gateway lifecycle implements TakeoverJournal, proved: every step    *)
(* only records evidence, or only releases, or takes exactly one resource  *)
(* whose evidence is already durable.                                      *)
(***************************************************************************)
ForwardingTaken == fwd # base.fwd
AliasTaken      == alias
ProxyTaken      == proxy = "ours"
DnsTaken        == dns = "ours"

ForwardingSafe == LiveBoot /\ disk.fwdBefore = base.fwd
AliasSafe      == LiveBoot /\ disk.aliasOwned
ProxySafe      == exists /\ disk.proxy
DnsSafe        == backup \in UserDns

\* A resource is taken, or safe, exactly when it is a member of the mapped set.
LEMMA Membership ==
    /\ takenResources \subseteq Resources
    /\ journaledResources \subseteq Resources
    /\ "forwarding" \in takenResources <=> ForwardingTaken
    /\ "alias" \in takenResources <=> AliasTaken
    /\ "proxy" \in takenResources <=> ProxyTaken
    /\ "dns" \in takenResources <=> DnsTaken
    /\ "forwarding" \in journaledResources <=> ForwardingSafe
    /\ "alias" \in journaledResources <=> AliasSafe
    /\ "proxy" \in journaledResources <=> ProxySafe
    /\ "dns" \in journaledResources <=> DnsSafe
  BY DEF takenResources, journaledResources, Resources, ForwardingTaken,
     AliasTaken, ProxyTaken, DnsTaken, ForwardingSafe, AliasSafe, ProxySafe,
     DnsSafe

\* The same after a step.
LEMMA MembershipNext ==
    /\ takenResources' \subseteq Resources
    /\ journaledResources' \subseteq Resources
    /\ ("forwarding" \in takenResources') <=> ForwardingTaken'
    /\ ("alias" \in takenResources') <=> AliasTaken'
    /\ ("proxy" \in takenResources') <=> ProxyTaken'
    /\ ("dns" \in takenResources') <=> DnsTaken'
    /\ ("forwarding" \in journaledResources') <=> ForwardingSafe'
    /\ ("alias" \in journaledResources') <=> AliasSafe'
    /\ ("proxy" \in journaledResources') <=> ProxySafe'
    /\ ("dns" \in journaledResources') <=> DnsSafe'
  BY DEF takenResources, journaledResources, Resources, ForwardingTaken,
     AliasTaken, ProxyTaken, DnsTaken, ForwardingSafe, AliasSafe, ProxySafe,
     DnsSafe

\* The three kinds of step, resource by resource.
SafeGrows   == /\ (ForwardingSafe => ForwardingSafe') /\ (AliasSafe => AliasSafe')
               /\ (ProxySafe => ProxySafe') /\ (DnsSafe => DnsSafe')
SafeShrinks == /\ (ForwardingSafe' => ForwardingSafe) /\ (AliasSafe' => AliasSafe)
               /\ (ProxySafe' => ProxySafe) /\ (DnsSafe' => DnsSafe)

Records  == /\ SafeGrows
            /\ ForwardingTaken' <=> ForwardingTaken
            /\ AliasTaken' <=> AliasTaken
            /\ ProxyTaken' <=> ProxyTaken
            /\ DnsTaken' <=> DnsTaken
Releases == /\ SafeShrinks
            /\ ForwardingTaken' => ForwardingTaken
            /\ AliasTaken' => AliasTaken
            /\ ProxyTaken' => ProxyTaken
            /\ DnsTaken' => DnsTaken

TakesForwarding == /\ SafeGrows /\ SafeShrinks /\ ForwardingSafe /\ ForwardingTaken'
                   /\ AliasTaken' <=> AliasTaken
                   /\ ProxyTaken' <=> ProxyTaken
                   /\ DnsTaken' <=> DnsTaken

TakesAlias == /\ SafeGrows /\ SafeShrinks /\ AliasSafe /\ AliasTaken'
              /\ ForwardingTaken' <=> ForwardingTaken
              /\ ProxyTaken' <=> ProxyTaken
              /\ DnsTaken' <=> DnsTaken

TakesProxy == /\ SafeGrows /\ SafeShrinks /\ ProxySafe /\ ProxyTaken'
              /\ ForwardingTaken' <=> ForwardingTaken
              /\ AliasTaken' <=> AliasTaken
              /\ DnsTaken' <=> DnsTaken

TakesDns == /\ SafeGrows /\ SafeShrinks /\ DnsSafe /\ DnsTaken'
            /\ ForwardingTaken' <=> ForwardingTaken
            /\ AliasTaken' <=> AliasTaken
            /\ ProxyTaken' <=> ProxyTaken

\* The set-valued steps of TakeoverJournal follow from those.
LEMMA RecordsMaps == Records => Journal!Record
<1> SUFFICES ASSUME Records PROVE Journal!Record
  OBVIOUS
<1>1. \A r \in Resources :
         /\ r \in takenResources' <=> r \in takenResources
         /\ r \in journaledResources => r \in journaledResources'
  BY Membership, MembershipNext DEF Records, SafeGrows, Resources
<1>2. /\ takenResources \subseteq Resources /\ takenResources' \subseteq Resources
      /\ journaledResources \subseteq Resources
      /\ journaledResources' \subseteq Resources
  BY Membership, MembershipNext
<1>3. takenResources' = takenResources
  BY <1>1, <1>2
<1>4. journaledResources \subseteq journaledResources'
  BY <1>1, <1>2
<1> QED BY <1>2, <1>3, <1>4 DEF Journal!Record

\* A step that takes nothing and records nothing is a release.
LEMMA ReleasesMaps == Releases /\ Journaled' => Journal!Release
<1> SUFFICES ASSUME Releases, Journaled' PROVE Journal!Release
  OBVIOUS
<1>0. /\ (ForwardingTaken' => ForwardingSafe') /\ (AliasTaken' => AliasSafe')
      /\ (ProxyTaken' => ProxySafe') /\ (DnsTaken' => DnsSafe')
  BY DEF Journaled, ForwardingJournaled, AliasJournaled, ProxyJournaled,
     DnsJournaled, ForwardingTaken, AliasTaken, ProxyTaken, DnsTaken,
     ForwardingSafe, AliasSafe, ProxySafe, DnsSafe
<1>1. \A r \in Resources :
         /\ r \in takenResources' => r \in takenResources
         /\ r \in journaledResources' => r \in journaledResources
         /\ r \in takenResources' => r \in journaledResources'
  BY <1>0, Membership, MembershipNext DEF Releases, SafeShrinks, Resources
<1>2. /\ takenResources' \subseteq Resources
      /\ journaledResources' \subseteq Resources
  BY Membership, MembershipNext
<1>3. takenResources' \subseteq takenResources
  BY <1>1, <1>2
<1>4. /\ journaledResources' \subseteq journaledResources
      /\ takenResources' \subseteq journaledResources'
  BY <1>1, <1>2
<1> QED BY <1>3, <1>4 DEF Journal!Release

\* Taking one journaled resource is a step Take of it.
LEMMA TakesMaps ==
    ASSUME TakesForwarding \/ TakesAlias \/ TakesProxy \/ TakesDns
    PROVE  \E r \in Resources : Journal!Take(r)
<1>0. /\ takenResources \subseteq Resources /\ takenResources' \subseteq Resources
      /\ journaledResources \subseteq Resources
      /\ journaledResources' \subseteq Resources
  BY Membership, MembershipNext
<1>1. CASE TakesForwarding
  <2>1. \A r \in Resources :
           /\ r \in takenResources' <=> r \in takenResources \/ r = "forwarding"
           /\ r \in journaledResources' <=> r \in journaledResources
    BY <1>1, Membership, MembershipNext DEF TakesForwarding, SafeGrows,
       SafeShrinks, Resources
  <2>2. "forwarding" \in journaledResources /\ "forwarding" \in Resources
    BY <1>1, Membership, MembershipNext DEF TakesForwarding, Resources
  <2> QED BY <1>0, <2>1, <2>2 DEF Journal!Take
<1>2. CASE TakesAlias
  <2>1. \A r \in Resources :
           /\ r \in takenResources' <=> r \in takenResources \/ r = "alias"
           /\ r \in journaledResources' <=> r \in journaledResources
    BY <1>2, Membership, MembershipNext DEF TakesAlias, SafeGrows, SafeShrinks,
       Resources
  <2>2. "alias" \in journaledResources /\ "alias" \in Resources
    BY <1>2, Membership, MembershipNext DEF TakesAlias, Resources
  <2> QED BY <1>0, <2>1, <2>2 DEF Journal!Take
<1>3. CASE TakesProxy
  <2>1. \A r \in Resources :
           /\ r \in takenResources' <=> r \in takenResources \/ r = "proxy"
           /\ r \in journaledResources' <=> r \in journaledResources
    BY <1>3, Membership, MembershipNext DEF TakesProxy, SafeGrows, SafeShrinks,
       Resources
  <2>2. "proxy" \in journaledResources /\ "proxy" \in Resources
    BY <1>3, Membership, MembershipNext DEF TakesProxy, Resources
  <2> QED BY <1>0, <2>1, <2>2 DEF Journal!Take
<1>4. CASE TakesDns
  <2>1. \A r \in Resources :
           /\ r \in takenResources' <=> r \in takenResources \/ r = "dns"
           /\ r \in journaledResources' <=> r \in journaledResources
    BY <1>4, Membership, MembershipNext DEF TakesDns, SafeGrows, SafeShrinks,
       Resources
  <2>2. "dns" \in journaledResources /\ "dns" \in Resources
    BY <1>4, Membership, MembershipNext DEF TakesDns, Resources
  <2> QED BY <1>0, <2>1, <2>2 DEF Journal!Take
<1> QED BY <1>1, <1>2, <1>3, <1>4

\* What a later save writes: the state value in memory, or that value with a
\* process or the alias added to it.
Resaved == \/ UNCHANGED <<exists, disk>>
           \/ /\ exists' = TRUE /\ Keeps(disk', mem)
              /\ mem.aliasOwned => disk'.aliasOwned
Untouched == UNCHANGED <<fwd, alias, proxy, dns, boot, base, backup>>

\* Saving again in a start or a restart loses no evidence.
LEMMA ResavedGrows ==
    ASSUME IInv, Resaved, UNCHANGED <<boot, base, backup>>,
           pc \in StartStages \cup RestartStages
    PROVE  SafeGrows
  BY DEF IInv, Resaved, SafeGrows, ForwardingSafe, AliasSafe, ProxySafe,
     DnsSafe, LiveBoot, Memory, InSync, Keeps, StartStages, RestartStages,
     TeardownStages, AfterProxy

\* In a restart it adds none either.
LEMMA ResavedShrinks ==
    ASSUME IInv, Resaved, UNCHANGED <<boot, base, backup>>,
           pc \in RestartStages, disk'.aliasOwned => mem.aliasOwned
    PROVE  SafeShrinks
  BY DEF IInv, Resaved, SafeShrinks, ForwardingSafe, AliasSafe, ProxySafe,
     DnsSafe, LiveBoot, Memory, InSync, Staged, Keeps, StartStages,
     RestartStages, TeardownStages, AfterProxy

\* A start stage that only saves again records.
LEMMA ResavedRecords ==
    ASSUME IInv, Resaved, Untouched, pc \in StartStages \cup RestartStages
    PROVE  Records
  BY ResavedGrows DEF Untouched, Records, ForwardingTaken, AliasTaken,
     ProxyTaken, DnsTaken

\* Every step of the lifecycle records, releases or takes one resource.
LEMMA Steps ==
    ASSUME IInv, IInv', [Next]_vars
    PROVE  \/ Records \/ Releases
           \/ TakesForwarding \/ TakesAlias \/ TakesProxy \/ TakesDns
<1> USE LifecycleAssumption
    DEF PrepareStages, StartStages, TeardownStages, RestartStages,
        Fine, Fault, FaultN, book, host, files, oper
\* Actions that save the state again.
<1>1. ASSUME StartEngine PROVE Records
  <2>1. \A i \in Fresh("mihomo"), k \in BOOLEAN :
           LET t == Track(mem, "mihomo", i, k) IN
           Keeps(t, mem) /\ (t.aliasOwned <=> mem.aliasOwned)
    BY FreshInst, KeepsTrack DEF IInv, TypeOK, OperType, Roles
  <2>2. Resaved
    BY ZenonT(60), <1>1, <2>1 DEF StartEngine, Doomed, EngineReady,
       EngineSurvives,
       Spawned, Goto, Rollback, Saved, SaveLost, StartFaults, Resaved
  <2>3. Untouched /\ pc \in StartStages \cup RestartStages
    BY <1>1 DEF StartEngine, Doomed, EngineReady, EngineSurvives, Spawned, Goto,
       Rollback, Saved, SaveLost, StartFaults, Untouched
  <2> QED BY <2>2, <2>3, ResavedRecords
<1>2. ASSUME IdentifyMihomo PROVE Records
  <2>1. LET t == Track(mem, "mihomo", mem.pid["mihomo"], TRUE) IN
        Keeps(t, mem) /\ (t.aliasOwned <=> mem.aliasOwned)
    BY KeepsTrack, StateFields DEF IInv, TypeOK, OperType, Roles
  <2>2. Resaved
    BY <1>2, <2>1 DEF IdentifyMihomo, Identify, Goto, Rollback, Saved,
       SaveLost, Resaved
  <2>3. Untouched /\ pc \in StartStages \cup RestartStages
    BY <1>2 DEF IdentifyMihomo, Identify, Goto, Rollback, Saved, SaveLost,
       Untouched
  <2> QED BY <2>2, <2>3, ResavedRecords
<1>3. ASSUME StartBroker PROVE Records
  <2>1. Keeps(mem, mem)
    BY DEF Keeps
  <2>2. Resaved
    BY <1>3, <2>1 DEF StartBroker, StartService, Doomed, Spawned, Goto,
       Rollback,
       Saved, SaveLost, StartFaults, Resaved
  <2>3. Untouched /\ pc \in StartStages \cup RestartStages
    BY <1>3 DEF StartBroker, StartService, Doomed, Spawned, Goto, Rollback,
       Saved,
       SaveLost, StartFaults, Untouched
  <2> QED BY <2>2, <2>3, ResavedRecords
<1>4. ASSUME IdentifyBroker PROVE Records
  <2>1. LET t == Track(mem, "broker", mem.pid["broker"], TRUE) IN
        Keeps(t, mem) /\ (t.aliasOwned <=> mem.aliasOwned)
    BY KeepsTrack, StateFields DEF IInv, TypeOK, OperType, Roles
  <2>2. Resaved
    BY <1>4, <2>1 DEF IdentifyBroker, Identify, Goto, Rollback, Saved,
       SaveLost, Resaved
  <2>3. Untouched /\ pc \in StartStages \cup RestartStages
    BY <1>4 DEF IdentifyBroker, Identify, Goto, Rollback, Saved, SaveLost,
       Untouched
  <2> QED BY <2>2, <2>3, ResavedRecords
<1>5. ASSUME AliasIntent PROVE Records
  <2>1. Keeps(WithAlias(mem), mem) /\ WithAlias(mem).aliasOwned
    BY KeepsAlias DEF IInv, TypeOK, OperType
  <2>2. Resaved
    BY <1>5, <2>1 DEF AliasIntent, Goto, Rollback, Saved, SaveLost, Resaved
  <2>3. Untouched /\ pc \in StartStages \cup RestartStages
    BY <1>5 DEF AliasIntent, Goto, Rollback, Saved, SaveLost, Untouched
  <2> QED BY <2>2, <2>3, ResavedRecords
<1>6. ASSUME StartDnsmasq PROVE Records
  <2>1. Keeps(mem, mem)
    BY DEF Keeps
  <2>2. Resaved
    BY <1>6, <2>1 DEF StartDnsmasq, StartService, Doomed, Spawned, Goto,
       Rollback,
       Saved, SaveLost, StartFaults, Resaved
  <2>3. Untouched /\ pc \in StartStages \cup RestartStages
    BY <1>6 DEF StartDnsmasq, StartService, Doomed, Spawned, Goto, Rollback,
       Saved,
       SaveLost, StartFaults, Untouched
  <2> QED BY <2>2, <2>3, ResavedRecords
<1>7. ASSUME IdentifyDnsmasq PROVE Records
  <2>1. LET t == Track(mem, "dnsmasq", mem.pid["dnsmasq"], TRUE) IN
        Keeps(t, mem) /\ (t.aliasOwned <=> mem.aliasOwned)
    BY KeepsTrack, StateFields DEF IInv, TypeOK, OperType, Roles
  <2>2. Resaved
    BY <1>7, <2>1 DEF IdentifyDnsmasq, Identify, Goto, Rollback, Saved,
       SaveLost, Resaved
  <2>3. Untouched /\ pc \in StartStages \cup RestartStages
    BY <1>7 DEF IdentifyDnsmasq, Identify, Goto, Rollback, Saved, SaveLost,
       Untouched
  <2> QED BY <2>2, <2>3, ResavedRecords
<1>8. ASSUME SaveFirewall PROVE Records
  <2>1. Keeps(mem, mem)
    BY DEF Keeps
  <2>2. Resaved
    BY <1>8, <2>1 DEF SaveFirewall, AfterFirewall, Advance, Goto, Rollback,
       Saved, SaveLost, Resaved
  <2>3. Untouched /\ pc \in StartStages \cup RestartStages
    BY <1>8 DEF SaveFirewall, AfterFirewall, Advance, Goto, Rollback, Saved,
       SaveLost, Untouched
  <2> QED BY <2>2, <2>3, ResavedRecords
<1>9. ASSUME DnsIntent PROVE Records
  <2>1. /\ Keeps(WithDns(mem), mem)
        /\ WithDns(mem).aliasOwned <=> mem.aliasOwned
    BY KeepsDns DEF IInv, TypeOK, OperType
  <2>2. Resaved
    BY <1>9, <2>1 DEF DnsIntent, Goto, Rollback, Saved, SaveLost, Resaved
  <2>3. Untouched /\ pc \in StartStages \cup RestartStages
    BY <1>9 DEF DnsIntent, Goto, Rollback, Saved, SaveLost, Untouched
  <2> QED BY <2>2, <2>3, ResavedRecords
<1>10. ASSUME DnsVerified PROVE Records
  <2>1. Keeps(mem, mem)
    BY DEF Keeps
  <2>2. Resaved
    BY <1>10, <2>1 DEF DnsVerified, Advance, Goto, Rollback, Saved, SaveLost,
       Resaved
  <2>3. Untouched /\ pc \in StartStages \cup RestartStages
    BY <1>10 DEF DnsVerified, Advance, Goto, Rollback, Saved, SaveLost,
       Untouched
  <2> QED BY <2>2, <2>3, ResavedRecords
<1>11. ASSUME RestartMark PROVE Records
  <2>1. Keeps(mem, mem)
    BY DEF Keeps
  <2>2. Resaved
    BY <1>11, <2>1 DEF RestartMark, Advance, Goto, Saved, SaveLost, Return,
       Resaved
  <2>3. Untouched /\ pc \in StartStages \cup RestartStages
    BY <1>11 DEF RestartMark, Advance, Goto, Saved, SaveLost, Return,
       Untouched
  <2> QED BY <2>2, <2>3, ResavedRecords
<1>12. ASSUME RestartStop PROVE Releases
  <2>1. LET t == Track(mem, "mihomo", prev.pid, prev.known) IN
        Keeps(t, mem) /\ (t.aliasOwned <=> mem.aliasOwned)
    BY KeepsTrack DEF IInv, TypeOK, OperType, Roles, Prev
  <2>5. /\ UNCHANGED <<fwd, alias, dns, boot, base, backup>>
        /\ proxy' \in {proxy, "off"} /\ pc \in RestartStages
    BY <1>12 DEF RestartStop, StopTracked, SignalPid, Stopped, Exited, Killed,
       Present,
       HostExceptProcs, ProxyAfter, Advance, Goto, Return, Saved, SaveLost,
       StartFaults, HostExceptProxy
  <2>2. \/ UNCHANGED <<exists, disk>>
        \/ /\ exists' = TRUE
           /\ disk' \in {mem, Track(mem, "mihomo", prev.pid, prev.known)}
    BY ZenonT(60), <1>12 DEF RestartStop, Advance, Goto, Return, Saved,
       SaveLost
  <2>3. Resaved /\ (disk'.aliasOwned => mem.aliasOwned)
    BY <2>1, <2>2, <2>5 DEF Resaved, Keeps, IInv, Staged
  <2>7. SafeGrows /\ SafeShrinks
    BY <2>2, <2>3, <2>5, ResavedGrows, ResavedShrinks
  <2> QED BY <2>5, <2>7 DEF Releases, ForwardingTaken, AliasTaken,
          ProxyTaken, DnsTaken
<1>13. ASSUME RestartSpawn PROVE Releases
  <2>1. \A i \in Fresh("mihomo"), k \in BOOLEAN :
           LET t == Track(mem, "mihomo", i, k) IN
           Keeps(t, mem) /\ (t.aliasOwned <=> mem.aliasOwned)
    BY FreshInst, KeepsTrack DEF IInv, TypeOK, OperType, Roles
  <2>4. pc \in RestartStages
    BY <1>13 DEF RestartSpawn
  <2>2. \/ UNCHANGED <<exists, disk>>
        \/ \E i \in Fresh("mihomo"), k \in BOOLEAN :
             exists' = TRUE /\ disk' = Track(mem, "mihomo", i, k)
    BY <1>13 DEF RestartSpawn, Doomed, EngineReady, RestartFails,
       RestartSurvives,
       Spawned, ProxyAfter, Advance, Goto, Return, Saved, SaveLost,
       StartFaults, HostExceptProxy
  <2>3. Resaved /\ (disk'.aliasOwned => mem.aliasOwned)
    BY <2>1, <2>2, <2>4 DEF Resaved, IInv, Staged
  <2>5. /\ UNCHANGED <<fwd, alias, dns, boot, base, backup>>
        /\ proxy' \in {proxy, "off"} /\ pc \in RestartStages
    BY <1>13 DEF RestartSpawn, Doomed, EngineReady, RestartFails,
       RestartSurvives,
       Spawned, ProxyAfter, Advance, Goto, Return, Saved, SaveLost,
       StartFaults, HostExceptProxy
  <2>7. SafeGrows /\ SafeShrinks
    BY <2>2, <2>3, <2>5, ResavedGrows, ResavedShrinks
  <2> QED BY <2>5, <2>7 DEF Releases, ForwardingTaken, AliasTaken,
          ProxyTaken, DnsTaken
<1>14. ASSUME RestartIdentify PROVE Releases
  <2>1. LET t == Track(mem, "mihomo", mem.pid["mihomo"], TRUE) IN
        Keeps(t, mem) /\ (t.aliasOwned <=> mem.aliasOwned)
    BY KeepsTrack, StateFields DEF IInv, TypeOK, OperType, Roles
  <2>2. Resaved
    BY <1>14, <2>1 DEF RestartIdentify, ProxyAfter, Goto, Return, Saved,
       SaveLost, Resaved
  <2>3. disk'.aliasOwned => mem.aliasOwned
    BY <1>14, <2>1 DEF RestartIdentify, ProxyAfter, Goto, Return, Saved,
       SaveLost, IInv, Staged
  <2>5. /\ UNCHANGED <<fwd, alias, dns, boot, base, backup>>
        /\ proxy' \in {proxy, "off"} /\ pc \in RestartStages
    BY <1>14 DEF RestartIdentify, ProxyAfter, Goto, Return, Saved, SaveLost
  <2>7. SafeGrows /\ SafeShrinks
    BY <2>2, <2>3, <2>5, ResavedGrows, ResavedShrinks
  <2> QED BY <2>5, <2>7 DEF Releases, ForwardingTaken, AliasTaken,
          ProxyTaken, DnsTaken
<1>15. ASSUME RestartEnable PROVE Records \/ TakesDns \/ Releases
  <2>1. Keeps(mem, mem)
    BY DEF Keeps
  <2>2. Resaved
    BY <1>15, <2>1 DEF RestartEnable, HostExceptDns, Return, Saved, SaveLost,
       Resaved
  <2>3. disk'.aliasOwned => mem.aliasOwned
    BY <1>15, <2>1 DEF RestartEnable, HostExceptDns, Return, Saved, SaveLost,
       IInv, Staged
  <2>5. /\ UNCHANGED <<fwd, alias, proxy, boot, base, backup>>
        /\ pc \in RestartStages /\ backup \in UserDns
    BY <1>15 DEF RestartEnable, HostExceptDns, Return, Saved, SaveLost, IInv,
       TypeOK, FilesType, Evidence, Staged
  <2>6. dns' \in {dns, "ours", mem.dns} /\ mem.dns # "ours"
    BY <1>15 DEF RestartEnable, HostExceptDns, Return, Saved, SaveLost, IInv,
       Memory
  <2>7. SafeGrows /\ SafeShrinks
    BY <2>2, <2>3, <2>5, ResavedGrows, ResavedShrinks
  <2> QED BY <2>5, <2>6, <2>7 DEF Records, TakesDns, Releases, ForwardingTaken,
     AliasTaken, ProxyTaken, DnsTaken, DnsSafe
<1> USE DEF SafeGrows, SafeShrinks, ForwardingTaken, AliasTaken, ProxyTaken,
      DnsTaken, ForwardingSafe, AliasSafe, ProxySafe, DnsSafe, LiveBoot, IInv,
      TypeOK, HostType, FilesType, OperType, BookType, Journaled,
      ForwardingJournaled, AliasJournaled, ProxyJournaled, DnsJournaled,
      Evidence, Memory, InSync, Staged, Undone, DnsStages, BeforeAlias,
      AfterProxy, AfterAlias
\* All others.
<1>16. ASSUME BeginStart PROVE Records
  BY <1>16 DEF BeginStart, Records
<1>17. ASSUME \E c \in Configs : Prepare(c) PROVE Records
  BY <1>17, BlankFields DEF Prepare, Goto, Records
<1>18. ASSUME PrepareRefused PROVE Records
  BY <1>18, BlankFields DEF PrepareRefused, Return, Records
<1>19. ASSUME SaveInitial PROVE Records
  BY <1>19, BlankFields DEF SaveInitial, Advance, Goto, Saved, SaveLost,
     Return, Records
<1>20. ASSUME EnableForwarding PROVE Records \/ Releases \/ TakesForwarding
  <2>1. /\ fwd' \in {fwd, TRUE} /\ fwd \in BOOLEAN /\ base.fwd \in BOOLEAN
        /\ UNCHANGED <<alias, proxy, dns, boot, base, exists, disk, backup>>
    BY <1>20 DEF EnableForwarding, Advance, Goto, Rollback
  <2>2. exists /\ disk.boot = boot /\ disk.fwdBefore = base.fwd
    BY <1>20 DEF EnableForwarding
  <2>3. CASE fwd' = fwd
    BY <2>1, <2>3 DEF Records
  <2>4. CASE fwd' # fwd /\ fwd' = base.fwd
    BY <2>1, <2>4 DEF Releases
  <2>5. CASE fwd' # fwd /\ fwd' # base.fwd
    BY <2>1, <2>2, <2>5 DEF TakesForwarding
  <2> QED BY <2>3, <2>4, <2>5
<1>21. ASSUME AddAlias PROVE Records \/ TakesAlias
  BY <1>21 DEF AddAlias, Advance, Goto, Rollback, Records, TakesAlias
<1>22. ASSUME LoadFirewall PROVE Records
  BY <1>22 DEF LoadFirewall, Goto, Rollback, Saved, SaveLost, Records
<1>23. ASSUME DnsBackup PROVE Records
  BY <1>23, StateFields DEF DnsBackup, Kept, Advance, Goto, Rollback, Records
<1>24. ASSUME DnsEnable PROVE Records \/ TakesDns
  BY <1>24 DEF DnsEnable, HostExceptDns, Advance, Goto, Rollback, Records,
     TakesDns
<1>25. ASSUME EnableProxy PROVE Records \/ TakesProxy
  BY <1>25 DEF EnableProxy, HostExceptProxy, Records, TakesProxy
<1>26. ASSUME FinishStart PROVE Records
  BY <1>26, BlankFields DEF FinishStart, Return, Records
<1>27. ASSUME CancelStart PROVE Records
  BY <1>27 DEF CancelStart, Canceled, Rollback, Records
<1>28. ASSUME BeginStop PROVE Records
  BY <1>28, BlankFields DEF BeginStop, EnterTeardown, Records
<1>29. ASSUME BeginReload PROVE Records
  BY <1>29, BlankFields DEF BeginReload, EnterTeardown, Records
<1>30. ASSUME TeardownDns PROVE Records \/ Releases
  BY <1>30, StateFields DEF TeardownDns, HostExceptDns, Kept, Advance, Goto,
     Records, Releases
<1>31. ASSUME TeardownProxy PROVE Releases
  BY <1>31, BlankFields DEF TeardownProxy, HostExceptProxy, Advance, Goto,
     Return, Releases
<1>32. ASSUME TeardownDnsmasq PROVE Records
  BY <1>32 DEF TeardownDnsmasq, TeardownProcess, StopError, StopTracked,
     SignalPid, Stopped, Exited, Killed, Present, HostExceptProcs, Records
<1>33. ASSUME TeardownAlias PROVE Releases
  BY <1>33 DEF TeardownAlias, Releases
<1>34. ASSUME TeardownBroker PROVE Records
  BY <1>34 DEF TeardownBroker, TeardownProcess, StopError, StopTracked,
     SignalPid, Stopped, Exited, Killed, Present, HostExceptProcs, Records
<1>35. ASSUME TeardownMihomo PROVE Records
  BY <1>35 DEF TeardownMihomo, TeardownProcess, StopError, StopTracked,
     SignalPid, Stopped, Exited, Killed, Present, HostExceptProcs, Records
<1>36. ASSUME TeardownFirewall PROVE Records
  BY <1>36 DEF TeardownFirewall, Records
<1>37. ASSUME TeardownForwarding PROVE Releases
  BY <1>37 DEF TeardownForwarding, Releases
<1>38. ASSUME TeardownFinish PROVE Releases
  BY <1>38, BlankFields DEF TeardownFinish, Return, Releases
<1>39. ASSUME BeginRestart PROVE Records \/ Releases
  BY <1>39, StateFields DEF BeginRestart, HostExceptDns, Kept, Records,
     Releases
<1>40. ASSUME RestartBackup PROVE Records
  BY <1>40, BlankFields, StateFields DEF RestartBackup, Kept, Advance, Goto,
     Return, Records
<1>41. ASSUME ChildExits PROVE Records
  BY <1>41 DEF ChildExits, Exited, HostExceptProcs, Records
<1>kg. ASSUME KilledGoes PROVE Records
  BY <1>kg DEF KilledGoes, HostExceptProcs, Records
<1>42. ASSUME PidReused PROVE Records
  BY <1>42 DEF PidReused, HostExceptProcs, Records
<1>43. ASSUME Crash PROVE Records
  BY <1>43, BlankFields DEF Crash, Return, Records
<1>44. ASSUME Reboot PROVE Releases
  BY <1>44, BlankFields, StateFields DEF Reboot, Return, Releases
<1>45. ASSUME UserEditsDns PROVE Releases
  BY <1>45 DEF UserEditsDns, HostExceptDns, Releases
<1>46. ASSUME UNCHANGED vars PROVE Records
  BY <1>46 DEF vars, Records
<1> QED BY <1>1, <1>2, <1>3, <1>4, <1>5, <1>6, <1>7, <1>8, <1>9, <1>10, <1>11,
   <1>12, <1>13, <1>14, <1>15, <1>16, <1>17, <1>18, <1>19, <1>20, <1>21,
   <1>22, <1>23, <1>24, <1>25, <1>26, <1>27, <1>28, <1>29, <1>30, <1>31,
   <1>32, <1>33, <1>34, <1>35, <1>36, <1>37, <1>38, <1>39, <1>40, <1>41, <1>kg,
   <1>42, <1>43, <1>44, <1>45, <1>46
  DEF Next, Start, Teardown, Restart, Environment

\* The initial states of the lifecycle are initial states of the journal.
LEMMA RefinesInit == Init => Journal!Init
<1> SUFFICES ASSUME Init PROVE Journal!Init
  OBVIOUS
<1>1. ~ForwardingTaken /\ ~AliasTaken /\ ~ProxyTaken /\ ~DnsTaken
  BY LifecycleAssumption DEF Init, ForwardingTaken, AliasTaken, ProxyTaken,
     DnsTaken
<1>2. ~ForwardingSafe /\ ~AliasSafe /\ ~ProxySafe /\ ~DnsSafe
  BY LifecycleAssumption DEF Init, LiveBoot, ForwardingSafe, AliasSafe,
     ProxySafe, DnsSafe
<1> QED BY <1>1, <1>2, Membership DEF Journal!Init, Resources

\* The lifecycle implements the abstract takeover journal.
THEOREM JournalImplemented == Spec => JournalSpec
<1>1. IInv /\ IInv' /\ [Next]_vars
         => [Journal!Next]_<<takenResources, journaledResources>>
  BY Steps, RecordsMaps, ReleasesMaps, TakesMaps DEF Journal!Next, IInv
<1> QED BY <1>1, RefinesInit, InvariantCorrect, PTL
        DEF Spec, JournalSpec, Journal!Spec

-----------------------------------------------------------------------------
(***************************************************************************)
(* Processes, PIDs and PF: what is recorded, and where.                    *)
(***************************************************************************)
\* The stages in which state.json and the state in memory are the same value.
Synced == (StartStages \ {"idMihomo", "idBroker", "idDnsmasq", "firewallSave"})
             \cup (RestartStages \ {"rsMark", "rsIdentify"})

\* A process whose new identity is in memory and not yet in the file.
Pending(r) == \/ r = "mihomo" /\ pc \in {"idMihomo", "rsMark", "rsIdentify"}
              \/ r = "broker" /\ pc = "idBroker"
              \/ r = "dnsmasq" /\ pc = "idDnsmasq"

\* The stages of a start, or a restart, before the process of a role is started.
Ahead(r) == CASE r = "mihomo" ->
                   {"saveInitial", "forward", "engine", "rsMark", "rsStop", "rsSpawn"}
              [] r = "broker" ->
                   {"saveInitial", "forward", "engine", "idMihomo", "broker"}
              [] r = "dnsmasq" ->
                   {"saveInitial", "forward", "engine", "idMihomo", "broker",
                    "idBroker", "aliasIntent", "alias", "dnsmasq"}

\* No PID runs a child and another program.
Apart == \A r \in Roles : alive[r] \cap reused[r] = {}

\* How the three copies of the recorded processes go together.
Copies ==
    /\ pc \in {"idle", "prepare"} => mem = Blank
    /\ pc \in RestartStages => op = "restart"
    /\ pc \in Synced => disk = mem
    /\ pc \in StartStages \cup RestartStages =>
          \A r \in Roles : ~Pending(r) => /\ disk.pid[r] = mem.pid[r]
                                          /\ disk.known[r] = mem.known[r]
    /\ pc \in {"rsMark", "rsIdentify"} => /\ disk.pfBefore = mem.pfBefore
                                          /\ disk.pfLoaded = mem.pfLoaded
    /\ pc = "rsMark" => /\ prev.pid = disk.pid["mihomo"]
                        /\ prev.known = disk.known["mihomo"]
    /\ \A r \in Roles : pc \in Ahead(r) => mem.pid[r] = NoPid
    /\ pc \in TeardownStages /\ ~exists => mem = Blank
    /\ boot # 0

\* What a start has recorded by the stage it has reached.
Named(s, r) == s.pid[r] # NoPid /\ s.known[r]

LateStages == {"dnsIntent", "dnsBackup", "dnsEnable", "dnsVerified", "proxy", "final"}
Progress ==
    /\ pc \in StartStages \ {"forward", "engine", "idMihomo"} => Named(mem, "mihomo")
    /\ (pc \in {"aliasIntent", "alias", "dnsmasq", "idDnsmasq", "firewall",
                "firewallSave"} \cup LateStages /\ mem.ipv6) => Named(mem, "broker")
    /\ pc \in {"firewall", "firewallSave"} \cup LateStages => Named(mem, "dnsmasq")
    /\ pc \in {"firewallSave"} \cup LateStages => mem.pfLoaded
    /\ (pc \in LateStages \ {"dnsIntent"} /\ mem.dns # "none") => mem.dnsOwned

\* Without a failing identity check no PID is recorded, and none is signalled,
\* without the fingerprint that goes with it; except one too young to be reused.
Known ==
    /\ ~strayKill
    /\ \A r \in Roles : disk.pid[r] # NoPid => disk.known[r]
    /\ \A r \in Roles : mem.pid[r] # NoPid => mem.known[r] \/ mem.pid[r] \notin reused[r]
    /\ prev.pid # NoPid => prev.known
Marked == "ident" \notin happened => Known

\* While nothing but commands and writes fail, the proxy never points at nothing.
Engined == (StartStages \ {"forward", "engine"}) \cup {"rsIdentify", "rsBackup", "rsEnable"}
EngineServes ==
    /\ pc \in Engined => alive["mihomo"] # {}
    /\ proxy = "ours" /\ pc # "rsSpawn" => alive["mihomo"] # {}
Served == happened \cap {"restore", "exit", "crash", "reboot"} = {} => EngineServes

\* Every process that was not killed is recorded, in memory for the operation that runs,
\* and in the file for the ones after it.
Gone(r) == CASE r = "mihomo"  -> {"tdFirewall", "tdForward", "tdFinish"}
             [] r = "broker"  -> {"tdMihomo", "tdFirewall", "tdForward", "tdFinish"}
             [] r = "dnsmasq" -> {"tdAlias", "tdBroker", "tdMihomo", "tdFirewall",
                                  "tdForward", "tdFinish"}
Held(r) ==
    /\ (pc # "idle" /\ ~(r = "mihomo" /\ pc \in {"rsMark", "rsStop"})) =>
           alive[r] \subseteq {mem.pid[r]}
    /\ r = "mihomo" /\ pc \in {"rsMark", "rsStop"} => alive[r] \subseteq {prev.pid}
    /\ /\ alive[r] # {} /\ (~Pending(r) \/ pc = "rsMark")
       /\ ~(r = "mihomo" /\ pc = "rsStop")
       => exists /\ alive[r] \subseteq {disk.pid[r]}
    /\ pc \in Gone(r) /\ ~failed => alive[r] = {}
Rebooted == exists /\ disk.boot # boot => \A r \in Roles : alive[r] = {}
Recorded == happened \subseteq Ordinary => \A r \in Roles : Held(r)

\* The anchor, and PF that was off, are recorded when they are changed, unless
\* the one failure there is was the save itself: then the rollback cleans up.
Clean == ~anchor /\ pfOn = base.pf
OnRecord(s) == s.pfLoaded /\ s.boot = boot
CleanStages == {"prepare", "saveInitial", "forward", "engine", "idMihomo", "broker",
                "idBroker", "aliasIntent", "alias", "dnsmasq", "idDnsmasq", "firewall"}
BeforeFlush == {"tdDns", "tdProxy", "tdDnsmasq", "tdAlias", "tdBroker", "tdMihomo",
                "tdFirewall"}
Spent == left < MaxFaults
PfCleared ==
    /\ base.pf => pfOn
    /\ mem.boot = boot => mem.pfBefore = base.pf
    /\ LiveBoot => disk.pfBefore = base.pf
    /\ pc \in CleanStages => Clean
    /\ \/ Clean
       \/ exists /\ OnRecord(disk)
       \/ pc = "firewallSave"
       \/ pc \in BeforeFlush /\ ~failed /\ Spent
    /\ pc \in StartStages \cup RestartStages \cup BeforeFlush => Clean \/ OnRecord(mem)
    /\ pc \in {"tdForward", "tdFinish"} /\ ~failed => Clean
Firewalled == MaxFaults <= left + 1 /\ "crash" \notin happened => PfCleared

\* What the updates of a state value do to the fields the invariants mention.
Alike(t, s) == /\ t.boot = s.boot /\ t.pfBefore = s.pfBefore
               /\ t.ipv6 = s.ipv6 /\ t.dns = s.dns

\* t is s with a process recorded.
Tracks(t, s, r, i, k) ==
    /\ t \in State /\ Alike(t, s)
    /\ t.pfLoaded = s.pfLoaded /\ t.dnsOwned = s.dnsOwned
    /\ t.pid[r] = i /\ t.known[r] = k
    /\ \A q \in Roles \ {r} : t.pid[q] = s.pid[q] /\ t.known[q] = s.known[q]

LEMMA TrackIs ==
    ASSUME NEW s \in State, NEW r \in Roles,
           NEW i \in Inst \cup {NoPid}, NEW k \in BOOLEAN
    PROVE  Tracks(Track(s, r, i, k), s, r, i, k)
  <1> DEFINE t == Track(s, r, i, k)
  <1>1. /\ Alike(t, s)
        /\ t.pfLoaded = s.pfLoaded /\ t.dnsOwned = s.dnsOwned
        /\ t.pid[r] = i /\ t.known[r] = k
        /\ \A q \in Roles \ {r} : t.pid[q] = s.pid[q] /\ t.known[q] = s.known[q]
    BY DEF Track, State, Alike
  <1>2. t \in State
    BY TrackType
  <1> QED BY <1>1, <1>2 DEF Tracks

\* The updates that record no process.
LEMMA WithIs ==
    ASSUME NEW s \in State
    PROVE  /\ Alike(WithAlias(s), s) /\ Alike(WithAnchor(s), s)
           /\ Alike(WithDns(s), s)
           /\ WithAlias(s).pid = s.pid /\ WithAlias(s).known = s.known
           /\ WithAnchor(s).pid = s.pid /\ WithAnchor(s).known = s.known
           /\ WithDns(s).pid = s.pid /\ WithDns(s).known = s.known
           /\ WithAlias(s).pfLoaded = s.pfLoaded
           /\ WithAlias(s).dnsOwned = s.dnsOwned
           /\ WithAnchor(s).pfLoaded = TRUE
           /\ WithAnchor(s).dnsOwned = s.dnsOwned
           /\ WithDns(s).pfLoaded = s.pfLoaded
           /\ WithDns(s).dnsOwned = TRUE
  BY DEF WithAlias, WithAnchor, WithDns, State, Alike

\* The state value of an operation that holds none.
LEMMA BlankIs ==
    /\ \A r \in Roles : Blank.pid[r] = NoPid /\ Blank.known[r] = FALSE
    /\ Blank.boot = 0 /\ Blank.pfLoaded = FALSE /\ NoPrev.pid = NoPid
  BY DEF Blank, NoPrev

\* A start begins with no process, and PF as it is.
LEMMA SnapshotIs ==
    ASSUME TypeOK, NEW c \in Configs
    PROVE  LET t == Snapshot(c) IN
           /\ \A r \in Roles : t.pid[r] = NoPid
           /\ t.boot = boot /\ t.pfBefore = pfOn
  BY BlankIs DEF Snapshot

\* A restart forgets the engine and nothing else.
LEMMA RestartingIs ==
    ASSUME TypeOK, NEW k \in BOOLEAN
    PROVE  LET t == Restarting(k) IN
           /\ t.pid["mihomo"] = NoPid
           /\ \A r \in Roles \ {"mihomo"} : /\ t.pid[r] = disk.pid[r]
                                            /\ t.known[r] = disk.known[r]
           /\ t.boot = disk.boot
           /\ t.pfBefore = disk.pfBefore /\ t.pfLoaded = disk.pfLoaded
  BY DEF Restarting, Track, State, TypeOK, FilesType, Roles

\* A process just started is neither running nor reused before.
LEMMA FreshIs ==
    \A r \in Roles : \A i \in Fresh(r) : /\ i \in Inst /\ i # NoPid
                                         /\ i \notin alive[r] /\ i \notin reused[r]
  BY LifecycleAssumption DEF Fresh

\* A process of a role that is started now, and one whose fingerprint is taken.
LEMMA Starting ==
    ASSUME TypeOK, NEW r \in Roles
    PROVE  \A i \in Fresh(r), k \in BOOLEAN :
             Tracks(Track(mem, r, i, k), mem, r, i, k)
  BY FreshIs, TrackIs DEF TypeOK, OperType

\* The same of a process whose fingerprint is not taken yet.
LEMMA StartingUnknown ==
    ASSUME TypeOK, NEW r \in Roles
    PROVE  \A i \in Fresh(r) :
             Tracks(Track(mem, r, i, FALSE), mem, r, i, FALSE)
  BY Starting

\* A process that has its fingerprint taken keeps its PID.
LEMMA Identifying ==
    ASSUME TypeOK, NEW r \in Roles
    PROVE  Tracks(Track(mem, r, mem.pid[r], TRUE), mem, r, mem.pid[r], TRUE)
  <1>1. mem \in State /\ mem.pid[r] \in Inst \cup {NoPid}
    BY StateFields DEF TypeOK, OperType
  <1> QED BY <1>1, TrackIs

\* What a step does to the processes, and at which stages.
Starts(r, i) == /\ i \in Fresh(r) /\ UNCHANGED reused
                /\ alive' = [alive EXCEPT ![r] = @ \cup {i}]
Ends(r, i)   == UNCHANGED reused /\ alive' = [alive EXCEPT ![r] = @ \ {i}]
Strays(r, i) == UNCHANGED alive /\ reused' = [reused EXCEPT ![r] = @ \ {i}]
StopStages   == {"tdDnsmasq", "tdBroker", "tdMihomo"}

\* Every step starts one process, or ends one where a teardown or a restart
\* stops or kills it or it exits by itself, or leaves them alone, unless the Mac reboots.
LEMMA ProcessStep ==
    ASSUME [Next]_vars
    PROVE  \/ UNCHANGED <<alive, reused>>
           \/ \E r \in Roles, i \in Inst : Starts(r, i)
           \/ /\ pc \in StopStages \cup RestartStages \/ UNCHANGED pc
              /\ \E r \in Roles : \E i : Ends(r, i) \/ Strays(r, i)
           \/ PidReused
           \/ Reboot
<1> USE DEF host, Roles, Starts, Ends, Strays, StopStages, RestartStages
<1>1. CASE BeginStart
  BY <1>1 DEF BeginStart
<1>2. CASE \E c \in Configs : Prepare(c)
  BY <1>2 DEF Prepare, Goto
<1>3. CASE PrepareRefused
  BY <1>3 DEF PrepareRefused, Return
<1>4. CASE SaveInitial
  BY <1>4 DEF SaveInitial, Advance, Goto, Saved, SaveLost, Return
<1>5. CASE EnableForwarding
  BY <1>5 DEF EnableForwarding, Advance, Goto, Rollback
<1>6. CASE IdentifyMihomo
  BY <1>6 DEF IdentifyMihomo, Identify, Goto, Rollback, Saved, SaveLost
<1>7. CASE IdentifyBroker
  BY <1>7 DEF IdentifyBroker, Identify, Goto, Rollback, Saved, SaveLost
<1>8. CASE AliasIntent
  BY <1>8 DEF AliasIntent, Goto, Rollback, Saved, SaveLost
<1>9. CASE AddAlias
  BY <1>9 DEF AddAlias, Advance, Goto, Rollback
<1>10. CASE IdentifyDnsmasq
  BY <1>10 DEF IdentifyDnsmasq, Identify, Goto, Rollback, Saved, SaveLost
<1>11. CASE LoadFirewall
  BY <1>11 DEF LoadFirewall, Goto, Rollback
<1>12. CASE SaveFirewall
  BY <1>12 DEF SaveFirewall, AfterFirewall, Advance, Goto, Rollback, Saved,
     SaveLost
<1>13. CASE DnsIntent
  BY <1>13 DEF DnsIntent, Goto, Rollback, Saved, SaveLost
<1>14. CASE DnsBackup
  BY <1>14 DEF DnsBackup, Advance, Goto, Rollback
<1>15. CASE DnsEnable
  BY <1>15 DEF DnsEnable, HostExceptDns, Advance, Goto, Rollback
<1>16. CASE DnsVerified
  BY <1>16 DEF DnsVerified, Advance, Goto, Rollback, Saved, SaveLost
<1>17. CASE EnableProxy
  BY <1>17 DEF EnableProxy, HostExceptProxy
<1>18. CASE FinishStart
  BY <1>18 DEF FinishStart, Return
<1>19. CASE CancelStart
  BY <1>19 DEF CancelStart, Canceled, Rollback
<1>20. CASE BeginStop
  BY <1>20 DEF BeginStop, EnterTeardown
<1>21. CASE BeginReload
  BY <1>21 DEF BeginReload, EnterTeardown
<1>22. CASE TeardownDns
  BY <1>22 DEF TeardownDns, HostExceptDns, Advance, Goto
<1>23. CASE TeardownProxy
  BY <1>23 DEF TeardownProxy, HostExceptProxy, Advance, Goto, Return
<1>24. CASE TeardownAlias
  BY <1>24 DEF TeardownAlias
<1>25. CASE TeardownFirewall
  BY <1>25 DEF TeardownFirewall
<1>26. CASE TeardownForwarding
  BY <1>26 DEF TeardownForwarding
<1>27. CASE TeardownFinish
  BY <1>27 DEF TeardownFinish, Return
<1>28. CASE BeginRestart
  BY <1>28 DEF BeginRestart, HostExceptDns
<1>29. CASE RestartMark
  BY <1>29 DEF RestartMark, Advance, Goto, Saved, SaveLost, Return
<1>30. CASE RestartBackup
  BY <1>30 DEF RestartBackup, Advance, Goto, Return
<1>31. CASE RestartEnable
  BY <1>31 DEF RestartEnable, HostExceptDns, Return, Saved, SaveLost
<1>32. CASE Crash
  BY <1>32 DEF Crash, Return
<1>33. CASE UserEditsDns
  BY <1>33 DEF UserEditsDns, HostExceptDns
<1>34. CASE UNCHANGED vars
  BY <1>34 DEF vars
<1>35. CASE StartEngine
  BY <1>35, FreshInst DEF StartEngine, Doomed, EngineReady, EngineSurvives,
     Spawned,
     Goto, Rollback, Saved, SaveLost, StartFaults
<1>36. CASE StartBroker
  BY <1>36, FreshInst DEF StartBroker, StartService, Doomed, Spawned, Goto,
     Rollback
<1>37. CASE StartDnsmasq
  BY <1>37, FreshInst DEF StartDnsmasq, StartService, Doomed, Spawned, Goto,
     Rollback
<1>38. CASE TeardownDnsmasq
  BY <1>38 DEF TeardownDnsmasq, TeardownProcess, StopError, StopTracked,
     SignalPid, Stopped, Exited, Killed, Present, HostExceptProcs
<1>39. CASE TeardownBroker
  BY <1>39 DEF TeardownBroker, TeardownProcess, StopError, StopTracked,
     SignalPid, Stopped, Exited, Killed, Present, HostExceptProcs
<1>40. CASE TeardownMihomo
  BY <1>40 DEF TeardownMihomo, TeardownProcess, StopError, StopTracked,
     SignalPid, Stopped, Exited, Killed, Present, HostExceptProcs
<1>41. CASE RestartStop
  BY <1>41 DEF RestartStop, StopTracked, SignalPid, Stopped, Exited, Killed,
     Present, HostExceptProcs,
     HostExceptProxy, Advance, Goto, Return, Saved, SaveLost, ProxyAfter
<1>42. CASE RestartSpawn
  BY <1>42, FreshInst DEF RestartSpawn, Doomed, EngineReady, RestartFails,
     RestartSurvives, Spawned, ProxyAfter, Goto, Return, Saved, SaveLost,
     StartFaults, HostExceptProxy
<1>43. CASE RestartIdentify
  BY <1>43 DEF RestartIdentify, ProxyAfter, Goto, Return, Saved, SaveLost
<1>44. CASE ChildExits
  BY <1>44 DEF ChildExits, Exited, HostExceptProcs, oper
<1>kg. CASE KilledGoes
  BY <1>kg DEF KilledGoes, HostExceptProcs, oper
<1> QED BY <1>1, <1>2, <1>3, <1>4, <1>5, <1>6, <1>7, <1>8, <1>9, <1>10, <1>11,
   <1>12, <1>13, <1>14, <1>15, <1>16, <1>17, <1>18, <1>19, <1>20, <1>21,
   <1>22, <1>23, <1>24, <1>25, <1>26, <1>27, <1>28, <1>29, <1>30, <1>31,
   <1>32, <1>33, <1>34, <1>35, <1>36, <1>37, <1>38, <1>39, <1>40, <1>41,
   <1>42, <1>43, <1>44, <1>kg DEF Next, Start, Teardown, Restart, Environment

\* No child runs under a PID that another program got.
LEMMA ApartStep ==
    ASSUME TypeOK, Apart, [Next]_vars
    PROVE  Apart'
<1>1. CASE UNCHANGED <<alive, reused>>
  BY <1>1 DEF Apart
<1>2. ASSUME NEW r \in Roles, NEW i \in Inst, Starts(r, i)
      PROVE  Apart'
  BY <1>2, FreshIs DEF Starts, Apart, TypeOK, HostType
<1>3. ASSUME NEW r \in Roles, NEW i, Ends(r, i) \/ Strays(r, i)
      PROVE  Apart'
  BY <1>3 DEF Ends, Strays, Apart, TypeOK, HostType
<1>4. CASE PidReused
  BY <1>4 DEF PidReused, Present, Apart, TypeOK, HostType
<1>5. CASE Reboot
  BY <1>5 DEF Reboot, Apart
<1> QED BY <1>1, <1>2, <1>3, <1>4, <1>5, ProcessStep

\* Faults only add up: kinds are never forgotten, the budget never grows.
Charged == happened \subseteq happened' /\ left' <= left

\* What is left of the budget is a number, and no more than before.
LEMMA Paid ==
    ASSUME left' \in Budget, NEW n \in {1, 2, 3}, left = left' + n
    PROVE  left' <= left
  <1>1. \A k \in Nat : k <= k + n
    OBVIOUS
  <1>2. left' \in Nat
    BY LifecycleAssumption DEF Budget
  <1> QED BY <1>1, <1>2

\* A fault costs from the budget; an orderly outcome costs nothing.
LEMMA Costs ==
    ASSUME TypeOK
    PROVE  /\ Fine => Charged
           /\ \A kinds : \A n \in {1, 2, 3} : FaultN(kinds, n) => Charged
  <1>1. ASSUME NEW kinds, NEW n \in {1, 2, 3}, FaultN(kinds, n)
        PROVE  Charged
    <2>1. happened \subseteq happened'
      BY <1>1 DEF FaultN
    <2>2. left' \in Budget /\ left = left' + n
      BY <1>1 DEF FaultN
    <2>3. left' <= left
      BY <2>2, Paid
    <2> QED BY <2>1, <2>3 DEF Charged
  <1>2. ASSUME Fine PROVE Charged
    BY <1>2, LifecycleAssumption DEF Fine, book, Charged, TypeOK, BookType,
       Budget
  <1> QED BY <1>1, <1>2

\* The faults of a child that survives its cleanup are at most three.
LEMMA StartFaultCosts ==
    ASSUME TypeOK
    PROVE  \A k, saved \in BOOLEAN : StartFaults(k, saved) => Charged
  <1>1. ASSUME NEW k \in BOOLEAN, NEW saved \in BOOLEAN, StartFaults(k, saved)
        PROVE  Charged
    <2> DEFINE n == (IF k THEN 1 ELSE 2) + (IF saved THEN 0 ELSE 1)
               kinds == {"kill"} \cup (IF k THEN {} ELSE {"ident"})
                                 \cup (IF saved THEN {} ELSE {"save"})
    <2>1. FaultN(kinds, n)
      BY <1>1 DEF StartFaults
    <2>2. n \in {1, 2, 3}
      OBVIOUS
    <2> QED BY <2>1, <2>2, Costs
  <1> QED BY <1>1

\* A stop without an error costs nothing, or a child that is slow to go.
LEMMA StopCosts ==
    ASSUME TypeOK, NEW r, NEW i, NEW k, StopTracked(r, i, k)
    PROVE  Charged
  <1>1. CASE Stopped(r, i)
    BY <1>1, Costs DEF Stopped, Fault
  <1>2. CASE Fine
    BY <1>2, Costs
  <1>3. CASE UNCHANGED <<left, happened>>
    BY <1>3, LifecycleAssumption DEF Charged, TypeOK, BookType, Budget
  <1> QED BY <1>1, <1>2, <1>3 DEF StopTracked, SignalPid

\* Every step pays for its faults, or has none.
LEMMA BookStep ==
    ASSUME TypeOK, [Next]_vars
    PROVE  Charged
<1> USE Costs, StartFaultCosts DEF Fault
<1>1. CASE BeginStart
  BY <1>1, LifecycleAssumption DEF BeginStart, Charged, TypeOK, BookType,
     Budget, book
<1>2. CASE \E c \in Configs : Prepare(c)
  BY <1>2 DEF Prepare, Goto
<1>3. CASE PrepareRefused
  BY <1>3 DEF PrepareRefused, Return
<1>4. CASE SaveInitial
  BY <1>4 DEF SaveInitial, Advance, Goto, Saved, SaveLost, Return
<1>5. CASE EnableForwarding
  BY <1>5 DEF EnableForwarding, Advance, Goto, Rollback
<1>6. CASE StartEngine
  BY <1>6 DEF StartEngine, Doomed, EngineReady, EngineSurvives, Spawned, Goto,
     Rollback, Saved, SaveLost
<1>7. CASE IdentifyMihomo
  BY <1>7 DEF IdentifyMihomo, Identify, Goto, Rollback, Saved, SaveLost
<1>8. CASE StartBroker
  BY <1>8 DEF StartBroker, StartService, Doomed, Spawned, Goto, Rollback
<1>9. CASE IdentifyBroker
  BY <1>9 DEF IdentifyBroker, Identify, Goto, Rollback, Saved, SaveLost
<1>10. CASE AliasIntent
  BY <1>10 DEF AliasIntent, Goto, Rollback, Saved, SaveLost
<1>11. CASE AddAlias
  BY <1>11 DEF AddAlias, Advance, Goto, Rollback
<1>12. CASE StartDnsmasq
  BY <1>12 DEF StartDnsmasq, StartService, Doomed, Spawned, Goto, Rollback
<1>13. CASE IdentifyDnsmasq
  BY <1>13 DEF IdentifyDnsmasq, Identify, Goto, Rollback, Saved, SaveLost
<1>14. CASE LoadFirewall
  BY <1>14 DEF LoadFirewall, Goto, Rollback
<1>15. CASE SaveFirewall
  BY <1>15 DEF SaveFirewall, AfterFirewall, Advance, Goto, Rollback, Saved,
     SaveLost
<1>16. CASE DnsIntent
  BY <1>16 DEF DnsIntent, Goto, Rollback, Saved, SaveLost
<1>17. CASE DnsBackup
  BY <1>17 DEF DnsBackup, Advance, Goto, Rollback
<1>18. CASE DnsEnable
  BY <1>18 DEF DnsEnable, HostExceptDns, Advance, Goto, Rollback
<1>19. CASE DnsVerified
  BY <1>19 DEF DnsVerified, Advance, Goto, Rollback, Saved, SaveLost
<1>20. CASE EnableProxy
  BY <1>20 DEF EnableProxy, HostExceptProxy
<1>21. CASE FinishStart
  BY <1>21 DEF FinishStart, Return
<1>22. CASE CancelStart
  BY <1>22 DEF CancelStart, Canceled, Rollback
<1>23. CASE BeginStop
  BY <1>23 DEF BeginStop, EnterTeardown
<1>24. CASE BeginReload
  BY <1>24 DEF BeginReload, EnterTeardown
<1>25. CASE TeardownDns
  BY <1>25 DEF TeardownDns, HostExceptDns, Advance, Goto
<1>26. CASE TeardownProxy
  BY <1>26 DEF TeardownProxy, HostExceptProxy, Advance, Goto, Return
<1>27. CASE TeardownDnsmasq
  <2>1. CASE StopTracked("dnsmasq", mem.pid["dnsmasq"], mem.known["dnsmasq"])
    BY <2>1, StopCosts
  <2>2. CASE StopError("dnsmasq", mem.pid["dnsmasq"], mem.known["dnsmasq"])
    BY <2>2 DEF StopError
  <2> QED BY <1>27, <2>1, <2>2 DEF TeardownDnsmasq, TeardownProcess
<1>28. CASE TeardownAlias
  BY <1>28 DEF TeardownAlias
<1>29. CASE TeardownBroker
  <2>1. CASE StopTracked("broker", mem.pid["broker"], mem.known["broker"])
    BY <2>1, StopCosts
  <2>2. CASE StopError("broker", mem.pid["broker"], mem.known["broker"])
    BY <2>2 DEF StopError
  <2> QED BY <1>29, <2>1, <2>2 DEF TeardownBroker, TeardownProcess
<1>30. CASE TeardownMihomo
  <2>1. CASE StopTracked("mihomo", mem.pid["mihomo"], mem.known["mihomo"])
    BY <2>1, StopCosts
  <2>2. CASE StopError("mihomo", mem.pid["mihomo"], mem.known["mihomo"])
    BY <2>2 DEF StopError
  <2> QED BY <1>30, <2>1, <2>2 DEF TeardownMihomo, TeardownProcess
<1>31. CASE TeardownFirewall
  BY <1>31 DEF TeardownFirewall
<1>32. CASE TeardownForwarding
  BY <1>32 DEF TeardownForwarding
<1>33. CASE TeardownFinish
  BY <1>33 DEF TeardownFinish, Return
<1>34. CASE BeginRestart
  BY <1>34 DEF BeginRestart, HostExceptDns
<1>35. CASE RestartMark
  BY <1>35 DEF RestartMark, Advance, Goto, Saved, SaveLost, Return
<1>36. CASE RestartStop
  <2>1. Fine => Charged
    OBVIOUS
  <2>2. CASE StopTracked("mihomo", prev.pid, prev.known)
    BY <2>2, StopCosts
  <2>3. ASSUME NEW why, NEW blind \in BOOLEAN, NEW saved \in BOOLEAN,
               FaultN({why} \cup (IF blind THEN {"ident"} ELSE {})
                           \cup (IF saved THEN {} ELSE {"save"}),
                      1 + (IF blind THEN 1 ELSE 0) + (IF saved THEN 0 ELSE 1))
        PROVE  Charged
    <3>1. (1 + (IF blind THEN 1 ELSE 0) + (IF saved THEN 0 ELSE 1)) \in {1, 2, 3}
      OBVIOUS
    <3> QED BY <2>3, <3>1
  <2> QED BY <1>36, <2>2, <2>3 DEF RestartStop
<1>37. CASE RestartSpawn
  BY <1>37 DEF RestartSpawn, Doomed, EngineReady, RestartFails, RestartSurvives,
     Spawned, ProxyAfter, Goto, Return, Saved, SaveLost, HostExceptProxy
<1>38. CASE RestartIdentify
  BY <1>38 DEF RestartIdentify, ProxyAfter, Goto, Return, Saved, SaveLost
<1>39. CASE RestartBackup
  BY <1>39 DEF RestartBackup, Advance, Goto, Return
<1>40. CASE RestartEnable
  BY <1>40 DEF RestartEnable, HostExceptDns, Return, Saved, SaveLost
<1>41. CASE ChildExits
  BY <1>41 DEF ChildExits, Exited, HostExceptProcs
<1>kg. CASE KilledGoes
  BY <1>kg DEF KilledGoes, HostExceptProcs
<1>42. CASE PidReused
  BY <1>42 DEF PidReused, HostExceptProcs
<1>43. CASE Crash
  BY <1>43 DEF Crash, Return
<1>44. CASE Reboot
  <2>1. left' \in Budget /\ left = left' + 1
    BY <1>44 DEF Reboot
  <2>2. left' <= left
    BY <2>1, Paid
  <2> QED BY <1>44, <2>2 DEF Reboot, Charged
<1>45. CASE UserEditsDns
  BY <1>45 DEF UserEditsDns, HostExceptDns
<1>46. CASE UNCHANGED vars
  BY <1>46, LifecycleAssumption DEF Charged, TypeOK, BookType, Budget, vars,
     book
<1> QED BY <1>1, <1>2, <1>3, <1>4, <1>5, <1>6, <1>7, <1>8, <1>9, <1>10, <1>11,
   <1>12, <1>13, <1>14, <1>15, <1>16, <1>17, <1>18, <1>19, <1>20, <1>21,
   <1>22, <1>23, <1>24, <1>25, <1>26, <1>27, <1>28, <1>29, <1>30, <1>31,
   <1>32, <1>33, <1>34, <1>35, <1>36, <1>37, <1>38, <1>39, <1>40, <1>41, <1>kg,
   <1>42, <1>43, <1>44, <1>45, <1>46 DEF Next, Start, Teardown, Restart,
   Environment

\* The stages decide which of the three copies are equal.
LEMMA CopiesStep ==
    ASSUME IInv, Copies, [Next]_vars
    PROVE  Copies'
<1>m. \A i \in Fresh("mihomo") :
        Tracks(Track(mem, "mihomo", i, FALSE), mem, "mihomo", i, FALSE)
  BY StartingUnknown DEF IInv, Roles
<1>b. \A i \in Fresh("broker") :
        Tracks(Track(mem, "broker", i, FALSE), mem, "broker", i, FALSE)
  BY StartingUnknown DEF IInv, Roles
<1>d. \A i \in Fresh("dnsmasq") :
        Tracks(Track(mem, "dnsmasq", i, FALSE), mem, "dnsmasq", i, FALSE)
  BY StartingUnknown DEF IInv, Roles
<1>i. \A r \in Roles :
        Tracks(Track(mem, r, mem.pid[r], TRUE), mem, r, mem.pid[r], TRUE)
  BY Identifying DEF IInv
<1>a. /\ WithAlias(mem).pid = mem.pid /\ WithAlias(mem).known = mem.known
      /\ WithAnchor(mem).pid = mem.pid /\ WithAnchor(mem).known = mem.known
  BY WithIs DEF IInv, TypeOK, OperType
<1> USE LifecycleAssumption
    DEF PrepareStages, StartStages, TeardownStages, RestartStages, Synced,
        Pending, Ahead, LiveBoot, Fine, Fault, FaultN, host, files, oper, book
<1> USE DEF Roles, Copies, IInv, Memory, TypeOK, HostType, FilesType, OperType
<1>1. CASE BeginStart
  BY <1>1, BlankIs DEF BeginStart
<1>2. CASE \E c \in Configs : Prepare(c)
  <2>1. \A c \in Configs, r \in Roles : Snapshot(c).pid[r] = NoPid
    BY SnapshotIs
  <2> QED BY <1>2, <2>1 DEF Prepare, Goto
<1>3. CASE PrepareRefused
  BY <1>3, BlankIs DEF PrepareRefused, Return
<1>4. CASE SaveInitial
  BY <1>4, BlankIs DEF SaveInitial, Advance, Goto, Saved, SaveLost, Return
<1>5. CASE EnableForwarding
  BY <1>5, BlankIs DEF EnableForwarding, Advance, Goto, Rollback
<1>6. CASE StartEngine
  <2>1. /\ pc = "engine" /\ UNCHANGED <<boot, prev, op>>
        /\ \/ pc' = "tdDns" /\ exists' \in {exists, TRUE}
           \/ /\ pc' = "idMihomo" /\ UNCHANGED <<exists, disk>>
              /\ \E i \in Fresh("mihomo") : mem' = Track(mem, "mihomo", i, FALSE)
    BY <1>6 DEF StartEngine, Doomed, EngineReady, EngineSurvives, Spawned, Goto,
       Rollback, Saved, SaveLost
  <2>2. pc' = "tdDns" \/ \E i : Tracks(mem', mem, "mihomo", i, FALSE)
    BY ONLY <2>1, <1>m
  <2>3. CASE pc' = "tdDns"
    BY <2>1, <2>3
  <2>4. CASE pc' = "idMihomo"
    <3>1. disk' = mem /\ boot' # 0
      BY <2>1, <2>4
    <3>2. mem.pid["broker"] = NoPid /\ mem.pid["dnsmasq"] = NoPid
      BY <2>1
    <3>3. \A q \in {"broker", "dnsmasq"} : /\ mem'.pid[q] = mem.pid[q]
                                         /\ mem'.known[q] = mem.known[q]
      BY ONLY <2>2, <2>4 DEF Tracks, Roles
    <3> QED BY <2>4, <3>1, <3>2, <3>3
  <2> QED BY <2>1, <2>3, <2>4
<1>7. CASE IdentifyMihomo
  <2> DEFINE t == Track(mem, "mihomo", mem.pid["mihomo"], TRUE)
  <2>1. /\ UNCHANGED <<boot, prev, op>>
        /\ exists /\ pc = "idMihomo" /\ pc' \in {"broker", "dnsmasq", "tdDns"}
        /\ (pc' = "dnsmasq" => ~mem.ipv6)
        /\ \/ mem' = t /\ disk' = t /\ exists' = TRUE
           \/ pc' = "tdDns" /\ exists' \in {TRUE, exists}
    BY <1>7 DEF IdentifyMihomo, Identify, Goto, Rollback, Saved, SaveLost
  <2>2. Tracks(t, mem, "mihomo", mem.pid["mihomo"], TRUE)
    BY <1>i
  <2> HIDE DEF t
  <2>3. CASE pc' = "tdDns"
    BY <2>1, <2>3
  <2>4. CASE pc' # "tdDns"
    <3>1. mem' = t /\ disk' = t /\ boot' # 0
      BY <2>1, <2>4
    <3>2. \A q \in Roles : mem'.pid[q] = mem.pid[q]
      BY ONLY <2>2, <3>1 DEF Tracks
    <3> QED BY <2>1, <2>4, <3>1, <3>2
  <2> QED BY <2>3, <2>4
<1>8. CASE StartBroker
  <2>1. /\ pc = "broker" /\ UNCHANGED <<boot, prev, op, exists, disk>>
        /\ \/ pc' = "tdDns"
           \/ /\ pc' = "idBroker"
              /\ \E i \in Fresh("broker") : mem' = Track(mem, "broker", i, FALSE)
    BY <1>8 DEF StartBroker, StartService, Doomed, Spawned, Goto, Rollback
  <2>2. pc' = "tdDns" \/ \E i : Tracks(mem', mem, "broker", i, FALSE)
    BY ONLY <2>1, <1>b
  <2> QED BY <2>1, <2>2 DEF Tracks
<1>9. CASE IdentifyBroker
  <2> DEFINE t == Track(mem, "broker", mem.pid["broker"], TRUE)
  <2>1. /\ UNCHANGED <<boot, prev, op>>
        /\ exists /\ pc = "idBroker" /\ pc' \in {"aliasIntent", "tdDns"}
        /\ (pc' = "dnsmasq" => ~mem.ipv6)
        /\ \/ mem' = t /\ disk' = t /\ exists' = TRUE
           \/ pc' = "tdDns" /\ exists' \in {TRUE, exists}
    BY <1>9 DEF IdentifyBroker, Identify, Goto, Rollback, Saved, SaveLost
  <2>2. Tracks(t, mem, "broker", mem.pid["broker"], TRUE)
    BY <1>i
  <2> HIDE DEF t
  <2>3. CASE pc' = "tdDns"
    BY <2>1, <2>3
  <2>4. CASE pc' # "tdDns"
    <3>1. mem' = t /\ disk' = t /\ boot' # 0
      BY <2>1, <2>4
    <3>2. \A q \in Roles : mem'.pid[q] = mem.pid[q]
      BY ONLY <2>2, <3>1 DEF Tracks
    <3> QED BY <2>1, <2>4, <3>1, <3>2
  <2> QED BY <2>3, <2>4
<1>10. CASE AliasIntent
  <2>1. /\ UNCHANGED <<boot, prev, op>>
        /\ exists /\ pc = "aliasIntent" /\ exists' \in {exists, TRUE}
        /\ \/ pc' = "alias" /\ mem' = WithAlias(mem) /\ disk' = WithAlias(mem)
           \/ pc' = "tdDns"
    BY <1>10 DEF AliasIntent, Goto, Rollback, Saved, SaveLost
  <2>2. mem.pid["dnsmasq"] = NoPid
    BY <2>1
  <2>3. CASE pc' = "tdDns"
    BY <2>1, <2>3
  <2>4. CASE pc' # "tdDns"
    <3>1. mem' = disk' /\ mem'.pid = mem.pid /\ boot' # 0
      BY ONLY <1>a, <2>1, <2>4, Copies DEF Copies
    <3> QED BY <2>1, <2>2, <2>4, <3>1
  <2> QED BY <2>3, <2>4
<1>11. CASE AddAlias
  BY <1>11, BlankIs DEF AddAlias, Advance, Goto, Rollback
<1>12. CASE StartDnsmasq
  <2>1. /\ pc = "dnsmasq" /\ UNCHANGED <<boot, prev, op, exists, disk>>
        /\ \/ pc' = "tdDns"
           \/ /\ pc' = "idDnsmasq"
              /\ \E i \in Fresh("dnsmasq") : mem' = Track(mem, "dnsmasq", i, FALSE)
    BY <1>12 DEF StartDnsmasq, StartService, Doomed, Spawned, Goto, Rollback
  <2>2. pc' = "tdDns" \/ \E i : Tracks(mem', mem, "dnsmasq", i, FALSE)
    BY ONLY <2>1, <1>d
  <2> QED BY <2>1, <2>2 DEF Tracks
<1>13. CASE IdentifyDnsmasq
  BY <1>13, BlankIs DEF IdentifyDnsmasq, Identify, Goto, Rollback, Saved,
     SaveLost
<1>14. CASE LoadFirewall
  <2>1. /\ UNCHANGED <<boot, prev, op, exists, disk>>
        /\ pc = "firewall"
        /\ \/ pc' = "firewallSave" /\ mem' = WithAnchor(mem)
           \/ pc' = "tdDns"
    BY <1>14 DEF LoadFirewall, Goto, Rollback
  <2> QED BY <1>a, <2>1
<1>15. CASE SaveFirewall
  BY <1>15, BlankIs DEF SaveFirewall, AfterFirewall, Advance, Goto, Rollback,
     Saved, SaveLost
<1>16. CASE DnsIntent
  BY <1>16, BlankIs DEF DnsIntent, Goto, Rollback, Saved, SaveLost
<1>17. CASE DnsBackup
  BY <1>17, BlankIs DEF DnsBackup, Advance, Goto, Rollback
<1>18. CASE DnsEnable
  BY <1>18, BlankIs DEF DnsEnable, HostExceptDns, Advance, Goto, Rollback
<1>19. CASE DnsVerified
  BY <1>19, BlankIs DEF DnsVerified, Advance, Goto, Rollback, Saved, SaveLost
<1>20. CASE EnableProxy
  BY <1>20, BlankIs DEF EnableProxy, HostExceptProxy
<1>21. CASE FinishStart
  BY <1>21, BlankIs DEF FinishStart, Return
<1>22. CASE CancelStart
  BY <1>22, BlankIs DEF CancelStart, Canceled, Rollback
<1>23. CASE BeginStop
  BY <1>23, BlankIs DEF BeginStop, EnterTeardown
<1>24. CASE BeginReload
  BY <1>24, BlankIs DEF BeginReload, EnterTeardown
<1>25. CASE TeardownDns
  BY <1>25, BlankIs DEF TeardownDns, HostExceptDns, Advance, Goto
<1>26. CASE TeardownProxy
  BY <1>26, BlankIs DEF TeardownProxy, HostExceptProxy, Advance, Goto, Return
<1>27. CASE TeardownDnsmasq
  BY <1>27, BlankIs DEF TeardownDnsmasq, TeardownProcess, StopError,
     StopTracked, SignalPid, Stopped, Exited, Killed, Present, HostExceptProcs
<1>28. CASE TeardownAlias
  BY <1>28, BlankIs DEF TeardownAlias
<1>29. CASE TeardownBroker
  BY <1>29, BlankIs DEF TeardownBroker, TeardownProcess, StopError,
     StopTracked, SignalPid, Stopped, Exited, Killed, Present, HostExceptProcs
<1>30. CASE TeardownMihomo
  BY <1>30, BlankIs DEF TeardownMihomo, TeardownProcess, StopError,
     StopTracked, SignalPid, Stopped, Exited, Killed, Present, HostExceptProcs
<1>31. CASE TeardownFirewall
  BY <1>31, BlankIs DEF TeardownFirewall
<1>32. CASE TeardownForwarding
  BY <1>32, BlankIs DEF TeardownForwarding
<1>33. CASE TeardownFinish
  BY <1>33, BlankIs DEF TeardownFinish, Return
<1>34. CASE BeginRestart
  BY <1>34, RestartingIs DEF BeginRestart, HostExceptDns
<1>35. CASE RestartMark
  BY <1>35, BlankIs DEF RestartMark, Advance, Goto, Saved, SaveLost, Return
<1>36. CASE RestartStop
  <2>1. CASE StopTracked("mihomo", prev.pid, prev.known) /\ Advance("rsSpawn") /\ UNCHANGED files
    BY <1>36, <2>1 DEF RestartStop, StopTracked, SignalPid, Stopped, Exited,
       Killed, Present,
       HostExceptProcs, Advance, Goto
  <2>2. CASE Return /\ UNCHANGED HostExceptProxy
    BY <1>36, <2>2 DEF RestartStop, Return, HostExceptProxy
  <2> QED BY <1>36, <2>1, <2>2 DEF RestartStop
<1>37. CASE RestartSpawn
  <2>1. /\ pc = "rsSpawn" /\ UNCHANGED boot
        /\ \/ pc' = "idle" /\ mem' = Blank
           \/ /\ pc' = "rsIdentify" /\ UNCHANGED <<exists, disk, op>>
              /\ \E i \in Fresh("mihomo") : mem' = Track(mem, "mihomo", i, FALSE)
    BY <1>37 DEF RestartSpawn, Doomed, EngineReady, RestartFails,
       RestartSurvives,
       Spawned, Goto, Return, HostExceptProxy
  <2>2. pc' = "idle" \/ \E i : Tracks(mem', mem, "mihomo", i, FALSE)
    BY ONLY <2>1, <1>m
  <2>3. CASE pc' = "idle"
    BY <2>1, <2>3, BlankIs
  <2>4. CASE pc' = "rsIdentify"
    <3>1. disk' = mem /\ boot' # 0
      BY <2>1, <2>4
    <3>2. /\ mem'.pfLoaded = mem.pfLoaded /\ mem'.pfBefore = mem.pfBefore
          /\ \A q \in {"broker", "dnsmasq"} : /\ mem'.pid[q] = mem.pid[q]
                                            /\ mem'.known[q] = mem.known[q]
      BY ONLY <2>2, <2>4 DEF Tracks, Alike, Roles
    <3> QED BY <2>1, <2>4, <3>1, <3>2
  <2> QED BY <2>1, <2>3, <2>4
<1>38. CASE RestartIdentify
  BY <1>38, BlankIs DEF RestartIdentify, ProxyAfter, Goto, Return, Saved,
     SaveLost
<1>39. CASE RestartBackup
  BY <1>39, BlankIs DEF RestartBackup, Advance, Goto, Return
<1>40. CASE RestartEnable
  BY <1>40, BlankIs DEF RestartEnable, HostExceptDns, Return, Saved, SaveLost
<1>41. CASE ChildExits
  BY <1>41, BlankIs DEF ChildExits, Exited, HostExceptProcs
<1>kg. CASE KilledGoes
  BY <1>kg, BlankIs DEF KilledGoes, HostExceptProcs
<1>42. CASE PidReused
  BY <1>42, BlankIs DEF PidReused, HostExceptProcs
<1>43. CASE Crash
  BY <1>43, BlankIs DEF Crash, Return
<1>44. CASE Reboot
  BY <1>44, BlankIs DEF Reboot, Return
<1>45. CASE UserEditsDns
  BY <1>45, BlankIs DEF UserEditsDns, HostExceptDns
<1>46. CASE UNCHANGED vars
  BY <1>46, BlankIs DEF vars
<1> QED BY <1>1, <1>2, <1>3, <1>4, <1>5, <1>6, <1>7, <1>8, <1>9, <1>10, <1>11,
   <1>12, <1>13, <1>14, <1>15, <1>16, <1>17, <1>18, <1>19, <1>20, <1>21,
   <1>22, <1>23, <1>24, <1>25, <1>26, <1>27, <1>28, <1>29, <1>30, <1>31,
   <1>32, <1>33, <1>34, <1>35, <1>36, <1>37, <1>38, <1>39, <1>40, <1>41, <1>kg,
   <1>42, <1>43, <1>44, <1>45, <1>46 DEF Next, Start, Teardown, Restart,
   Environment

\* A start goes on only when what it did is recorded.
LEMMA ProgressStep ==
    ASSUME IInv, Progress, [Next]_vars
    PROVE  Progress'
<1>i. \A r \in Roles :
        Tracks(Track(mem, r, mem.pid[r], TRUE), mem, r, mem.pid[r], TRUE)
  BY Identifying DEF IInv
<1>j. \A r \in Roles : \A i \in alive[r] : i # NoPid
  BY LifecycleAssumption DEF IInv, TypeOK, HostType
<1>a. /\ WithAlias(mem).pid = mem.pid /\ WithAlias(mem).known = mem.known
      /\ WithAnchor(mem).pid = mem.pid /\ WithAnchor(mem).known = mem.known
      /\ WithDns(mem).pid = mem.pid /\ WithDns(mem).known = mem.known
      /\ Alike(WithAlias(mem), mem) /\ Alike(WithAnchor(mem), mem)
      /\ Alike(WithDns(mem), mem) /\ WithAnchor(mem).pfLoaded = TRUE
      /\ WithDns(mem).dnsOwned = TRUE
      /\ WithDns(mem).pfLoaded = mem.pfLoaded
  BY WithIs DEF IInv, TypeOK, OperType
<1> USE DEF PrepareStages, StartStages, TeardownStages, RestartStages,
      LateStages, host, files, oper, book
<1> USE DEF Progress, Named
<1>1. CASE BeginStart
  BY <1>1 DEF BeginStart
<1>2. CASE \E c \in Configs : Prepare(c)
  BY <1>2 DEF Prepare, Goto
<1>3. CASE PrepareRefused
  BY <1>3 DEF PrepareRefused, Return
<1>4. CASE SaveInitial
  BY <1>4 DEF SaveInitial, Advance, Goto, Saved, SaveLost, Return
<1>5. CASE EnableForwarding
  BY <1>5 DEF EnableForwarding, Advance, Goto, Rollback
<1>6. CASE StartEngine
  BY <1>6 DEF StartEngine, Doomed, EngineReady, EngineSurvives, Spawned, Goto,
     Rollback, Saved, SaveLost, StartFaults
<1>7. CASE IdentifyMihomo
  <2> DEFINE t == Track(mem, "mihomo", mem.pid["mihomo"], TRUE)
  <2>1. /\ pc = "idMihomo" /\ pc' \in {"broker", "dnsmasq", "tdDns"}
        /\ pc' = "dnsmasq" => ~mem.ipv6
        /\ pc' = "tdDns" \/ (mem' = t /\ mem.pid["mihomo"] \in alive["mihomo"])
    BY <1>7 DEF IdentifyMihomo, Identify, Goto, Rollback
  <2>2. CASE pc' = "tdDns"
    BY <2>2
  <2>3. CASE pc' # "tdDns"
    <3>0. Tracks(t, mem, "mihomo", mem.pid["mihomo"], TRUE)
      BY <1>i DEF Roles
    <3>2. mem' = t /\ mem.pid["mihomo"] # NoPid
      BY <1>j, <2>1, <2>3 DEF Roles
    <3> HIDE DEF t
    <3>1. /\ mem'.pid["mihomo"] # NoPid /\ mem'.known["mihomo"] = TRUE
          /\ mem'.ipv6 = mem.ipv6
          /\ \A q \in Roles \ {"mihomo"} : /\ mem'.pid[q] = mem.pid[q]
                                      /\ mem'.known[q] = mem.known[q]
      BY ONLY <3>0, <3>2 DEF Tracks, Alike, Roles
    <3> QED BY <2>1, <2>3, <3>1 DEF Roles
  <2> QED BY <2>2, <2>3
<1>8. CASE StartBroker
  <2>1. /\ pc = "broker"
        /\ \/ pc' = "tdDns"
           \/ /\ pc' = "idBroker"
              /\ \E i \in Fresh("broker") : mem' = Track(mem, "broker", i, FALSE)
    BY <1>8 DEF StartBroker, StartService, Doomed, EngineReady,
       EngineSurvives, Goto,
       Rollback
  <2>2. CASE pc' = "tdDns"
    BY <2>2
  <2>3. CASE pc' = "idBroker"
    <3>1. \A i \in Fresh("broker") :
            Tracks(Track(mem, "broker", i, FALSE), mem, "broker", i, FALSE)
      BY StartingUnknown DEF IInv, Roles
    <3>3. \E i : Tracks(mem', mem, "broker", i, FALSE)
      BY ONLY <2>1, <2>3, <3>1
    <3>2. /\ mem'.ipv6 = mem.ipv6
          /\ \A q \in Roles \ {"broker"} : /\ mem'.pid[q] = mem.pid[q]
                                      /\ mem'.known[q] = mem.known[q]
      BY ONLY <3>3 DEF Tracks, Alike
    <3> QED BY <2>1, <2>3, <3>2 DEF Roles
  <2> QED BY <2>1, <2>2, <2>3
<1>9. CASE IdentifyBroker
  <2> DEFINE t == Track(mem, "broker", mem.pid["broker"], TRUE)
  <2>1. /\ pc = "idBroker" /\ pc' \in {"aliasIntent", "tdDns"}
        /\ pc' = "tdDns" \/ (mem' = t /\ mem.pid["broker"] \in alive["broker"])
    BY <1>9 DEF IdentifyBroker, Identify, Goto, Rollback
  <2>2. CASE pc' = "tdDns"
    BY <2>2
  <2>3. CASE pc' # "tdDns"
    <3>0. Tracks(t, mem, "broker", mem.pid["broker"], TRUE)
      BY <1>i DEF Roles
    <3>2. mem' = t /\ mem.pid["broker"] # NoPid
      BY <1>j, <2>1, <2>3 DEF Roles
    <3> HIDE DEF t
    <3>1. /\ mem'.pid["broker"] # NoPid /\ mem'.known["broker"] = TRUE
          /\ mem'.ipv6 = mem.ipv6
          /\ \A q \in Roles \ {"broker"} : /\ mem'.pid[q] = mem.pid[q]
                                      /\ mem'.known[q] = mem.known[q]
      BY ONLY <3>0, <3>2 DEF Tracks, Alike, Roles
    <3> QED BY <2>1, <2>3, <3>1 DEF Roles
  <2> QED BY <2>2, <2>3
<1>10. CASE AliasIntent
  BY <1>10, <1>a DEF Alike, AliasIntent, Goto, Rollback, Saved, SaveLost
<1>11. CASE AddAlias
  BY <1>11 DEF AddAlias, Advance, Goto, Rollback
<1>12. CASE StartDnsmasq
  <2>1. /\ pc = "dnsmasq"
        /\ \/ pc' = "tdDns"
           \/ /\ pc' = "idDnsmasq"
              /\ \E i \in Fresh("dnsmasq") : mem' = Track(mem, "dnsmasq", i, FALSE)
    BY <1>12 DEF StartDnsmasq, StartService, Doomed, EngineReady,
       EngineSurvives, Goto,
       Rollback
  <2>2. CASE pc' = "tdDns"
    BY <2>2
  <2>3. CASE pc' = "idDnsmasq"
    <3>1. \A i \in Fresh("dnsmasq") :
            Tracks(Track(mem, "dnsmasq", i, FALSE), mem, "dnsmasq", i, FALSE)
      BY StartingUnknown DEF IInv, Roles
    <3>3. \E i : Tracks(mem', mem, "dnsmasq", i, FALSE)
      BY ONLY <2>1, <2>3, <3>1
    <3>2. /\ mem'.ipv6 = mem.ipv6
          /\ \A q \in Roles \ {"dnsmasq"} : /\ mem'.pid[q] = mem.pid[q]
                                      /\ mem'.known[q] = mem.known[q]
      BY ONLY <3>3 DEF Tracks, Alike
    <3> QED BY <2>1, <2>3, <3>2 DEF Roles
  <2> QED BY <2>1, <2>2, <2>3
<1>13. CASE IdentifyDnsmasq
  <2> DEFINE t == Track(mem, "dnsmasq", mem.pid["dnsmasq"], TRUE)
  <2>1. /\ pc = "idDnsmasq" /\ pc' \in {"firewall", "tdDns"}
        /\ pc' = "tdDns" \/ (mem' = t /\ mem.pid["dnsmasq"] \in alive["dnsmasq"])
    BY <1>13 DEF IdentifyDnsmasq, Identify, Goto, Rollback
  <2>2. CASE pc' = "tdDns"
    BY <2>2
  <2>3. CASE pc' # "tdDns"
    <3>0. Tracks(t, mem, "dnsmasq", mem.pid["dnsmasq"], TRUE)
      BY <1>i DEF Roles
    <3>2. mem' = t /\ mem.pid["dnsmasq"] # NoPid
      BY <1>j, <2>1, <2>3 DEF Roles
    <3> HIDE DEF t
    <3>1. /\ mem'.pid["dnsmasq"] # NoPid /\ mem'.known["dnsmasq"] = TRUE
          /\ mem'.ipv6 = mem.ipv6
          /\ \A q \in Roles \ {"dnsmasq"} : /\ mem'.pid[q] = mem.pid[q]
                                      /\ mem'.known[q] = mem.known[q]
      BY ONLY <3>0, <3>2 DEF Tracks, Alike, Roles
    <3> QED BY <2>1, <2>3, <3>1 DEF Roles
  <2> QED BY <2>2, <2>3
<1>14. CASE LoadFirewall
  BY <1>14, <1>a DEF Alike, LoadFirewall, Goto, Rollback
<1>15. CASE SaveFirewall
  BY <1>15 DEF SaveFirewall, AfterFirewall, Advance, Goto, Rollback, Saved,
     SaveLost
<1>16. CASE DnsIntent
  BY <1>16, <1>a DEF Alike, DnsIntent, Goto, Rollback, Saved, SaveLost
<1>17. CASE DnsBackup
  BY <1>17 DEF DnsBackup, Advance, Goto, Rollback
<1>18. CASE DnsEnable
  BY <1>18 DEF DnsEnable, HostExceptDns, Advance, Goto, Rollback
<1>19. CASE DnsVerified
  BY <1>19 DEF DnsVerified, Advance, Goto, Rollback, Saved, SaveLost
<1>20. CASE EnableProxy
  BY <1>20 DEF EnableProxy, HostExceptProxy
<1>21. CASE FinishStart
  BY <1>21 DEF FinishStart, Return
<1>22. CASE CancelStart
  BY <1>22 DEF CancelStart, Canceled, Rollback
<1>23. CASE BeginStop
  BY <1>23 DEF BeginStop, EnterTeardown
<1>24. CASE BeginReload
  BY <1>24 DEF BeginReload, EnterTeardown
<1>25. CASE TeardownDns
  BY <1>25 DEF TeardownDns, HostExceptDns, Advance, Goto
<1>26. CASE TeardownProxy
  BY <1>26 DEF TeardownProxy, HostExceptProxy, Advance, Goto, Return
<1>27. CASE TeardownDnsmasq
  BY <1>27 DEF TeardownDnsmasq, TeardownProcess, StopError, StopTracked,
     SignalPid, Stopped, Exited, Killed, Present, HostExceptProcs
<1>28. CASE TeardownAlias
  BY <1>28 DEF TeardownAlias
<1>29. CASE TeardownBroker
  BY <1>29 DEF TeardownBroker, TeardownProcess, StopError, StopTracked,
     SignalPid, Stopped, Exited, Killed, Present, HostExceptProcs
<1>30. CASE TeardownMihomo
  BY <1>30 DEF TeardownMihomo, TeardownProcess, StopError, StopTracked,
     SignalPid, Stopped, Exited, Killed, Present, HostExceptProcs
<1>31. CASE TeardownFirewall
  BY <1>31 DEF TeardownFirewall
<1>32. CASE TeardownForwarding
  BY <1>32 DEF TeardownForwarding
<1>33. CASE TeardownFinish
  BY <1>33 DEF TeardownFinish, Return
<1>34. CASE BeginRestart
  BY <1>34 DEF BeginRestart, HostExceptDns
<1>35. CASE RestartMark
  BY <1>35 DEF RestartMark, Advance, Goto, Saved, SaveLost, Return
<1>36. CASE RestartStop
  BY <1>36 DEF RestartStop, StopTracked, SignalPid, Stopped, Exited, Killed,
     Present, HostExceptProcs,
     HostExceptProxy, Advance, Goto, Return, Saved, SaveLost, ProxyAfter
<1>37. CASE RestartSpawn
  BY <1>37 DEF RestartSpawn, Doomed, EngineReady, RestartFails, RestartSurvives,
     Spawned, ProxyAfter, Goto, Return, Saved, SaveLost, StartFaults,
     HostExceptProxy
<1>38. CASE RestartIdentify
  BY <1>38 DEF RestartIdentify, ProxyAfter, Goto, Return, Saved, SaveLost
<1>39. CASE RestartBackup
  BY <1>39 DEF RestartBackup, Advance, Goto, Return
<1>40. CASE RestartEnable
  BY <1>40 DEF RestartEnable, HostExceptDns, Return, Saved, SaveLost
<1>41. CASE ChildExits
  BY <1>41 DEF ChildExits, Exited, HostExceptProcs
<1>kg. CASE KilledGoes
  BY <1>kg DEF KilledGoes, HostExceptProcs
<1>42. CASE PidReused
  BY <1>42 DEF PidReused, HostExceptProcs
<1>43. CASE Crash
  BY <1>43 DEF Crash, Return
<1>44. CASE Reboot
  BY <1>44 DEF Reboot, Return
<1>45. CASE UserEditsDns
  BY <1>45 DEF UserEditsDns, HostExceptDns
<1>46. CASE UNCHANGED vars
  BY <1>46 DEF vars
<1> QED BY <1>1, <1>2, <1>3, <1>4, <1>5, <1>6, <1>7, <1>8, <1>9, <1>10, <1>11,
   <1>12, <1>13, <1>14, <1>15, <1>16, <1>17, <1>18, <1>19, <1>20, <1>21,
   <1>22, <1>23, <1>24, <1>25, <1>26, <1>27, <1>28, <1>29, <1>30, <1>31,
   <1>32, <1>33, <1>34, <1>35, <1>36, <1>37, <1>38, <1>39, <1>40, <1>41, <1>kg,
   <1>42, <1>43, <1>44, <1>45, <1>46 DEF Next, Start, Teardown, Restart,
   Environment

\* Only a failing identity check records a PID without its fingerprint.
LEMMA MarkedStep ==
    ASSUME IInv, Copies, Marked, [Next]_vars
    PROVE  Marked'
<1>m. \A r \in Roles : \A i \in Fresh(r) :
        Tracks(Track(mem, r, i, FALSE), mem, r, i, FALSE) /\ i \notin reused[r]
  BY StartingUnknown, FreshIs DEF IInv
<1>i. \A r \in Roles :
        Tracks(Track(mem, r, mem.pid[r], TRUE), mem, r, mem.pid[r], TRUE)
  BY Identifying DEF IInv
<1>j. \A r \in Roles : NoPid \notin reused[r]
  BY LifecycleAssumption DEF IInv, TypeOK, HostType
<1>a. /\ WithAlias(mem).pid = mem.pid /\ WithAlias(mem).known = mem.known
      /\ WithAnchor(mem).pid = mem.pid /\ WithAnchor(mem).known = mem.known
      /\ WithDns(mem).pid = mem.pid /\ WithDns(mem).known = mem.known
  BY WithIs DEF IInv, TypeOK, OperType
<1>h. happened \subseteq happened'
  BY BookStep DEF IInv, Charged
<1> SUFFICES ASSUME Known, "ident" \notin happened'
             PROVE  Known'
  BY <1>h DEF Marked
<1> USE DEF PrepareStages, StartStages, TeardownStages, RestartStages, Synced,
      Pending, Fine, Fault, FaultN, host, files, oper, book
<1> USE DEF Known, Copies
<1>1. CASE BeginStart
  BY <1>1 DEF BeginStart
<1>2. CASE \E c \in Configs : Prepare(c)
  <2>1. \A c \in Configs, r \in Roles : Snapshot(c).pid[r] = NoPid
    BY SnapshotIs DEF IInv
  <2> QED BY <1>2, <2>1 DEF Prepare, Goto
<1>3. CASE PrepareRefused
  BY <1>3, BlankIs DEF PrepareRefused, Return
<1>4. CASE SaveInitial
  <2>1. pc = "saveInitial" => \A r \in Roles : mem.pid[r] = NoPid
    BY DEF Ahead, Roles
  <2> QED BY <1>4, <2>1, BlankIs DEF SaveInitial, Advance, Goto, Saved,
     SaveLost, Return
<1>5. CASE EnableForwarding
  BY <1>5 DEF EnableForwarding, Advance, Goto, Rollback
<1>6. CASE StartEngine
  <2>1. UNCHANGED <<strayKill, reused, prev>> /\ pc = "engine"
    BY <1>6 DEF StartEngine, Doomed, EngineReady, EngineSurvives, Spawned, Goto,
       Rollback, StartFaults
  <2>2. \/ UNCHANGED <<mem, disk>>
        \/ \E i \in Fresh("mihomo") :
             UNCHANGED disk /\ mem' = Track(mem, "mihomo", i, FALSE)
        \/ \E i \in Fresh("mihomo"), k \in BOOLEAN :
             /\ k = TRUE /\ mem' = Track(mem, "mihomo", i, k)
             /\ disk' \in {disk, mem'}
    BY <1>6 DEF StartEngine, Doomed, EngineReady, EngineSurvives, Goto,
       Rollback,
       StartFaults, Saved, SaveLost
  <2>3. CASE UNCHANGED <<mem, disk>>
    BY <2>1, <2>3
  <2>4. ASSUME NEW i \in Fresh("mihomo"), NEW k \in BOOLEAN,
               mem' = Track(mem, "mihomo", i, k),
               \/ UNCHANGED disk
               \/ k = TRUE /\ disk' = mem'
        PROVE  Known'
    <3>1. Tracks(mem', mem, "mihomo", i, k) /\ i \notin reused["mihomo"]
      BY <2>4, Starting, FreshIs DEF IInv, Roles
    <3>2. \A q \in Roles : /\ q = "mihomo" => mem'.pid[q] \notin reused[q] /\ mem'.known[q] = k
                           /\ q # "mihomo" => /\ mem'.pid[q] = mem.pid[q]
                                          /\ mem'.known[q] = mem.known[q]
      BY ONLY <3>1 DEF Tracks
    <3>3. disk = mem
      BY <2>1
    <3> QED BY <2>1, <2>4, <3>2, <3>3
  <2> QED BY <2>2, <2>3, <2>4
<1>7. CASE IdentifyMihomo
  <2> DEFINE t == Track(mem, "mihomo", mem.pid["mihomo"], TRUE)
  <2>1. /\ UNCHANGED <<strayKill, reused, prev>> /\ pc = "idMihomo"
        /\ mem' \in {mem, t} /\ disk' \in {disk, t}
    BY <1>7 DEF IdentifyMihomo, Identify, Goto, Rollback, Saved, SaveLost
  <2>2. Tracks(t, mem, "mihomo", mem.pid["mihomo"], TRUE)
    BY <1>i DEF Roles
  <2> HIDE DEF t
  <2>3. \A q \in Roles : /\ t.pid[q] = mem.pid[q]
                         /\ q = "mihomo" => t.known[q] = TRUE
                         /\ q # "mihomo" => t.known[q] = mem.known[q]
    BY ONLY <2>2 DEF Tracks
  <2>4. \A q \in Roles \ {"mihomo"} : disk.pid[q] = mem.pid[q] /\ disk.known[q] = mem.known[q]
    BY <2>1
  <2> QED BY <2>1, <2>3, <2>4
<1>8. CASE StartBroker
  <2>1. /\ UNCHANGED <<strayKill, reused, prev, disk>>
        /\ \/ UNCHANGED mem
           \/ \E i \in Fresh("broker") : mem' = Track(mem, "broker", i, FALSE)
    BY <1>8 DEF StartBroker, StartService, Doomed, Spawned, Goto, Rollback
  <2>2. CASE UNCHANGED mem
    BY <2>1, <2>2
  <2>3. ASSUME NEW i \in Fresh("broker"), mem' = Track(mem, "broker", i, FALSE)
        PROVE  Known'
    <3>1. Tracks(mem', mem, "broker", i, FALSE) /\ i \notin reused["broker"]
      BY <1>m, <2>3 DEF Roles
    <3>2. \A q \in Roles : /\ q = "broker" => mem'.pid[q] \notin reused[q]
                           /\ q # "broker" => /\ mem'.pid[q] = mem.pid[q]
                                          /\ mem'.known[q] = mem.known[q]
      BY ONLY <3>1 DEF Tracks
    <3> QED BY <2>1, <3>2
  <2> QED BY <2>1, <2>2, <2>3
<1>9. CASE IdentifyBroker
  <2> DEFINE t == Track(mem, "broker", mem.pid["broker"], TRUE)
  <2>1. /\ UNCHANGED <<strayKill, reused, prev>> /\ pc = "idBroker"
        /\ mem' \in {mem, t} /\ disk' \in {disk, t}
    BY <1>9 DEF IdentifyBroker, Identify, Goto, Rollback, Saved, SaveLost
  <2>2. Tracks(t, mem, "broker", mem.pid["broker"], TRUE)
    BY <1>i DEF Roles
  <2> HIDE DEF t
  <2>3. \A q \in Roles : /\ t.pid[q] = mem.pid[q]
                         /\ q = "broker" => t.known[q] = TRUE
                         /\ q # "broker" => t.known[q] = mem.known[q]
    BY ONLY <2>2 DEF Tracks
  <2>4. \A q \in Roles \ {"broker"} : disk.pid[q] = mem.pid[q] /\ disk.known[q] = mem.known[q]
    BY <2>1
  <2> QED BY <2>1, <2>3, <2>4
<1>10. CASE AliasIntent
  BY <1>10, <1>a DEF AliasIntent, Goto, Rollback, Saved, SaveLost
<1>11. CASE AddAlias
  BY <1>11 DEF AddAlias, Advance, Goto, Rollback
<1>12. CASE StartDnsmasq
  <2>1. /\ UNCHANGED <<strayKill, reused, prev, disk>>
        /\ \/ UNCHANGED mem
           \/ \E i \in Fresh("dnsmasq") : mem' = Track(mem, "dnsmasq", i, FALSE)
    BY <1>12 DEF StartDnsmasq, StartService, Doomed, Spawned, Goto, Rollback
  <2>2. CASE UNCHANGED mem
    BY <2>1, <2>2
  <2>3. ASSUME NEW i \in Fresh("dnsmasq"), mem' = Track(mem, "dnsmasq", i, FALSE)
        PROVE  Known'
    <3>1. Tracks(mem', mem, "dnsmasq", i, FALSE) /\ i \notin reused["dnsmasq"]
      BY <1>m, <2>3 DEF Roles
    <3>2. \A q \in Roles : /\ q = "dnsmasq" => mem'.pid[q] \notin reused[q]
                           /\ q # "dnsmasq" => /\ mem'.pid[q] = mem.pid[q]
                                          /\ mem'.known[q] = mem.known[q]
      BY ONLY <3>1 DEF Tracks
    <3> QED BY <2>1, <3>2
  <2> QED BY <2>1, <2>2, <2>3
<1>13. CASE IdentifyDnsmasq
  <2> DEFINE t == Track(mem, "dnsmasq", mem.pid["dnsmasq"], TRUE)
  <2>1. /\ UNCHANGED <<strayKill, reused, prev>> /\ pc = "idDnsmasq"
        /\ mem' \in {mem, t} /\ disk' \in {disk, t}
    BY <1>13 DEF IdentifyDnsmasq, Identify, Goto, Rollback, Saved, SaveLost
  <2>2. Tracks(t, mem, "dnsmasq", mem.pid["dnsmasq"], TRUE)
    BY <1>i DEF Roles
  <2> HIDE DEF t
  <2>3. \A q \in Roles : /\ t.pid[q] = mem.pid[q]
                         /\ q = "dnsmasq" => t.known[q] = TRUE
                         /\ q # "dnsmasq" => t.known[q] = mem.known[q]
    BY ONLY <2>2 DEF Tracks
  <2>4. \A q \in Roles \ {"dnsmasq"} : disk.pid[q] = mem.pid[q] /\ disk.known[q] = mem.known[q]
    BY <2>1
  <2> QED BY <2>1, <2>3, <2>4
<1>14. CASE LoadFirewall
  <2>1. /\ UNCHANGED <<strayKill, reused, prev, disk>>
        /\ mem' \in {mem, WithAnchor(mem)}
    BY <1>14 DEF LoadFirewall, Goto, Rollback
  <2>2. mem'.pid = mem.pid /\ mem'.known = mem.known
    BY <1>a, <2>1
  <2> QED BY <2>1, <2>2
<1>15. CASE SaveFirewall
  BY <1>15 DEF SaveFirewall, AfterFirewall, Advance, Goto, Rollback, Saved,
     SaveLost
<1>16. CASE DnsIntent
  BY <1>16, <1>a DEF DnsIntent, Goto, Rollback, Saved, SaveLost
<1>17. CASE DnsBackup
  BY <1>17 DEF DnsBackup, Advance, Goto, Rollback
<1>18. CASE DnsEnable
  BY <1>18 DEF DnsEnable, HostExceptDns, Advance, Goto, Rollback
<1>19. CASE DnsVerified
  BY <1>19 DEF DnsVerified, Advance, Goto, Rollback, Saved, SaveLost
<1>20. CASE EnableProxy
  BY <1>20 DEF EnableProxy, HostExceptProxy
<1>21. CASE FinishStart
  BY <1>21, BlankIs DEF FinishStart, Return
<1>22. CASE CancelStart
  BY <1>22 DEF CancelStart, Canceled, Rollback
<1>23. CASE BeginStop
  BY <1>23, BlankIs DEF BeginStop, EnterTeardown
<1>24. CASE BeginReload
  BY <1>24, BlankIs DEF BeginReload, EnterTeardown
<1>25. CASE TeardownDns
  BY <1>25 DEF TeardownDns, HostExceptDns, Advance, Goto
<1>26. CASE TeardownProxy
  BY <1>26, BlankIs DEF TeardownProxy, HostExceptProxy, Advance, Goto, Return
<1>27. CASE TeardownDnsmasq
  <2>1. CASE StopTracked("dnsmasq", mem.pid["dnsmasq"], mem.known["dnsmasq"])
    <3>1. mem.pid["dnsmasq"] \notin reused["dnsmasq"] \/ mem.known["dnsmasq"] = TRUE
      BY <1>j DEF Roles
    <3>2. UNCHANGED strayKill
      BY <2>1, <3>1 DEF StopTracked, SignalPid, Stopped, Fault, FaultN
    <3>3. \A q \in Roles : reused'[q] \subseteq reused[q]
      BY <2>1 DEF StopTracked, SignalPid, Stopped, Exited, Killed, Present,
         IInv, TypeOK, HostType
    <3> QED BY <1>27, <3>2, <3>3 DEF TeardownDnsmasq, TeardownProcess
  <2>2. CASE UNCHANGED <<host, strayKill>>
    BY <1>27, <2>2 DEF TeardownDnsmasq, TeardownProcess
  <2> QED BY <1>27, <2>1, <2>2 DEF TeardownDnsmasq, TeardownProcess, StopError
<1>28. CASE TeardownAlias
  BY <1>28 DEF TeardownAlias
<1>29. CASE TeardownBroker
  <2>1. CASE StopTracked("broker", mem.pid["broker"], mem.known["broker"])
    <3>1. mem.pid["broker"] \notin reused["broker"] \/ mem.known["broker"] = TRUE
      BY <1>j DEF Roles
    <3>2. UNCHANGED strayKill
      BY <2>1, <3>1 DEF StopTracked, SignalPid, Stopped, Fault, FaultN
    <3>3. \A q \in Roles : reused'[q] \subseteq reused[q]
      BY <2>1 DEF StopTracked, SignalPid, Stopped, Exited, Killed, Present,
         IInv, TypeOK, HostType
    <3> QED BY <1>29, <3>2, <3>3 DEF TeardownBroker, TeardownProcess
  <2>2. CASE UNCHANGED <<host, strayKill>>
    BY <1>29, <2>2 DEF TeardownBroker, TeardownProcess
  <2> QED BY <1>29, <2>1, <2>2 DEF TeardownBroker, TeardownProcess, StopError
<1>30. CASE TeardownMihomo
  <2>1. CASE StopTracked("mihomo", mem.pid["mihomo"], mem.known["mihomo"])
    <3>1. mem.pid["mihomo"] \notin reused["mihomo"] \/ mem.known["mihomo"] = TRUE
      BY <1>j DEF Roles
    <3>2. UNCHANGED strayKill
      BY <2>1, <3>1 DEF StopTracked, SignalPid, Stopped, Fault, FaultN
    <3>3. \A q \in Roles : reused'[q] \subseteq reused[q]
      BY <2>1 DEF StopTracked, SignalPid, Stopped, Exited, Killed, Present,
         IInv, TypeOK, HostType
    <3> QED BY <1>30, <3>2, <3>3 DEF TeardownMihomo, TeardownProcess
  <2>2. CASE UNCHANGED <<host, strayKill>>
    BY <1>30, <2>2 DEF TeardownMihomo, TeardownProcess
  <2> QED BY <1>30, <2>1, <2>2 DEF TeardownMihomo, TeardownProcess, StopError
<1>31. CASE TeardownFirewall
  BY <1>31 DEF TeardownFirewall
<1>32. CASE TeardownForwarding
  BY <1>32 DEF TeardownForwarding
<1>33. CASE TeardownFinish
  BY <1>33, BlankIs DEF TeardownFinish, Return
<1>34. CASE BeginRestart
  <2>1. \A k \in BOOLEAN : \A r \in Roles : Restarting(k).pid[r] # NoPid =>
           Restarting(k).known[r] = disk.known[r] /\ disk.pid[r] = Restarting(k).pid[r]
    BY RestartingIs DEF IInv
  <2>2. \E k \in BOOLEAN : mem' = Restarting(k)
    BY <1>34 DEF BeginRestart
  <2>3. \A r \in Roles : mem'.pid[r] # NoPid => mem'.known[r] = TRUE
    BY <2>1, <2>2 DEF IInv, TypeOK, FilesType
  <2> QED BY <1>34, <2>3 DEF BeginRestart, HostExceptDns, Roles
<1>35. CASE RestartMark
  <2>1. pc = "rsMark" => \A r \in Roles : mem.pid[r] # NoPid => mem.known[r]
    BY DEF Ahead, Roles
  <2> QED BY <1>35, <2>1, BlankIs DEF RestartMark, Advance, Goto, Saved,
     SaveLost, Return
<1>36. CASE RestartStop
  <2>1. CASE StopTracked("mihomo", prev.pid, prev.known) /\ Advance("rsSpawn") /\ UNCHANGED files
    BY <1>36, <1>j, <2>1 DEF StopTracked, SignalPid, Stopped, Exited, Killed,
       Present, HostExceptProcs,
       Advance, Goto, Roles
  <2>2. CASE ~(StopTracked("mihomo", prev.pid, prev.known) /\ Advance("rsSpawn") /\ UNCHANGED files)
    <3> DEFINE t == Track(mem, "mihomo", prev.pid, prev.known)
    <3>1. UNCHANGED <<strayKill, reused>> /\ mem' = Blank /\ prev' = NoPrev /\ pc = "rsStop"
          /\ disk' \in {disk, mem, t}
      BY <1>36, <2>2 DEF RestartStop, Return, HostExceptProxy, Saved, SaveLost
    <3>2. Tracks(t, mem, "mihomo", prev.pid, prev.known)
      BY TrackIs DEF IInv, TypeOK, OperType, Roles
    <3> HIDE DEF t
    <3>3. \A q \in Roles : /\ q = "mihomo" => t.pid[q] = prev.pid /\ t.known[q] = prev.known
                           /\ q # "mihomo" => t.pid[q] = mem.pid[q] /\ t.known[q] = mem.known[q]
      BY ONLY <3>2 DEF Tracks
    <3>4. mem = disk
      BY <3>1
    <3> QED BY <3>1, <3>3, <3>4, BlankIs
  <2> QED BY <2>1, <2>2
<1>37. CASE RestartSpawn
  <2>1. UNCHANGED <<strayKill, reused>> /\ pc = "rsSpawn"
    BY <1>37 DEF RestartSpawn, Doomed, EngineReady, RestartFails,
       RestartSurvives,
       Spawned, Goto, Return, HostExceptProxy, StartFaults
  <2>2. \/ mem' = Blank /\ prev' = NoPrev /\ UNCHANGED disk
        \/ \E i \in Fresh("mihomo") :
             UNCHANGED <<disk, prev>> /\ mem' = Track(mem, "mihomo", i, FALSE)
        \/ \E i \in Fresh("mihomo"), k \in BOOLEAN :
             /\ k = TRUE /\ mem' = Blank /\ prev' = NoPrev
             /\ disk' \in {disk, Track(mem, "mihomo", i, k)}
    BY <1>37 DEF RestartSpawn, Doomed, EngineReady, RestartFails,
       RestartSurvives,
       Goto, Return, StartFaults, Saved, SaveLost
  <2>0. mem = disk
    BY <2>1
  <2>3. CASE mem' = Blank /\ prev' = NoPrev /\ UNCHANGED disk
    BY <2>1, <2>3, BlankIs
  <2>4. ASSUME NEW i \in Fresh("mihomo"), UNCHANGED <<disk, prev>>,
               mem' = Track(mem, "mihomo", i, FALSE)
        PROVE  Known'
    <3>1. Tracks(mem', mem, "mihomo", i, FALSE) /\ i \notin reused["mihomo"]
      BY <2>4, <1>m DEF Roles
    <3>2. \A q \in Roles : /\ q = "mihomo" => mem'.pid[q] \notin reused[q]
                           /\ q # "mihomo" => /\ mem'.pid[q] = mem.pid[q]
                                          /\ mem'.known[q] = mem.known[q]
      BY ONLY <3>1 DEF Tracks
    <3> QED BY <2>1, <2>4, <3>2
  <2>5. ASSUME NEW i \in Fresh("mihomo"), NEW k \in BOOLEAN, k = TRUE,
               mem' = Blank, prev' = NoPrev,
               disk' \in {disk, Track(mem, "mihomo", i, k)}
        PROVE  Known'
    <3> DEFINE t == Track(mem, "mihomo", i, k)
    <3>1. Tracks(t, mem, "mihomo", i, k)
      BY Starting DEF IInv, Roles
    <3> HIDE DEF t
    <3>2. \A q \in Roles : /\ q = "mihomo" => t.known[q] = k
                           /\ q # "mihomo" => /\ t.pid[q] = mem.pid[q]
                                          /\ t.known[q] = mem.known[q]
      BY ONLY <3>1 DEF Tracks
    <3>3. disk' \in {disk, t}
      BY <2>5 DEF t
    <3>4. \A r \in Roles : disk'.pid[r] # NoPid => disk'.known[r] = TRUE
      BY <2>0, <2>5, <3>2, <3>3
    <3>5. \A r \in Roles : mem'.pid[r] = NoPid
      BY <2>5, BlankIs
    <3> QED BY ONLY Known, <2>1, <2>5, <3>4, <3>5, BlankIs DEF Known
  <2> QED BY <2>2, <2>3, <2>4, <2>5
<1>38. CASE RestartIdentify
  <2> DEFINE t == Track(mem, "mihomo", mem.pid["mihomo"], TRUE)
  <2>1. /\ UNCHANGED <<strayKill, reused>> /\ pc = "rsIdentify"
        /\ disk' \in {disk, t}
        /\ prev' \in {prev, NoPrev} /\ mem' \in {t, Blank}
    BY <1>38 DEF RestartIdentify, Goto, Return, Saved, SaveLost
  <2>2. Tracks(t, mem, "mihomo", mem.pid["mihomo"], TRUE)
    BY <1>i DEF Roles
  <2> HIDE DEF t
  <2>3. \A q \in Roles : /\ t.pid[q] = mem.pid[q]
                         /\ q = "mihomo" => t.known[q] = TRUE
                         /\ q # "mihomo" => t.known[q] = mem.known[q]
    BY ONLY <2>2 DEF Tracks
  <2>4. \A q \in Roles \ {"mihomo"} : disk.pid[q] = mem.pid[q] /\ disk.known[q] = mem.known[q]
    BY <2>1
  <2> QED BY <2>1, <2>3, <2>4, BlankIs
<1>39. CASE RestartBackup
  BY <1>39, BlankIs DEF RestartBackup, Advance, Goto, Return
<1>40. CASE RestartEnable
  BY <1>40, BlankIs DEF RestartEnable, HostExceptDns, Return, Saved, SaveLost
<1>41. CASE ChildExits
  BY <1>41 DEF ChildExits, Exited, HostExceptProcs
<1>kg. CASE KilledGoes
  BY <1>kg DEF KilledGoes, HostExceptProcs
<1>42. CASE PidReused
  BY <1>42, BlankIs DEF PidReused, HostExceptProcs
<1>43. CASE Crash
  BY <1>43, BlankIs DEF Crash, Return
<1>44. CASE Reboot
  BY <1>44, BlankIs DEF Reboot, Return
<1>45. CASE UserEditsDns
  BY <1>45 DEF UserEditsDns, HostExceptDns
<1>46. CASE UNCHANGED vars
  BY <1>46 DEF vars
<1> QED BY <1>1, <1>2, <1>3, <1>4, <1>5, <1>6, <1>7, <1>8, <1>9, <1>10, <1>11,
   <1>12, <1>13, <1>14, <1>15, <1>16, <1>17, <1>18, <1>19, <1>20, <1>21,
   <1>22, <1>23, <1>24, <1>25, <1>26, <1>27, <1>28, <1>29, <1>30, <1>31,
   <1>32, <1>33, <1>34, <1>35, <1>36, <1>37, <1>38, <1>39, <1>40, <1>41, <1>kg,
   <1>42, <1>43, <1>44, <1>45, <1>46 DEF Next, Start, Teardown, Restart,
   Environment

\* The engine ends only where the proxy is off, or a restart takes it off.
LEMMA ServedStep ==
    ASSUME IInv, Served, [Next]_vars
    PROVE  Served'
<1>h. happened \subseteq happened'
  BY BookStep DEF IInv, Charged
<1>p. /\ proxy = "ours" => disk.proxy
      /\ pc \in RestartStages => disk.proxy = mem.proxy
      /\ pc \in AfterProxy => proxy = "off"
      /\ proxy \in {"off", "ours"}
  BY DEF IInv, Journaled, ProxyJournaled, Memory, InSync, Undone, TypeOK,
     HostType
<1>t. alive \in [Roles -> SUBSET Inst] /\ Roles = {"mihomo", "broker", "dnsmasq"}
  BY DEF IInv, TypeOK, HostType, Roles
<1> DEFINE bad == {"restore", "exit", "crash", "reboot"}
<1> SUFFICES ASSUME EngineServes, happened' \cap bad = {}
             PROVE  EngineServes'
  BY <1>h DEF Served
<1> HIDE DEF bad
<1>k. {"restore", "exit", "crash", "reboot"} \cap happened' = {}
  BY DEF bad
<1> USE <1>t DEF PrepareStages, StartStages, RestartStages, Engined,
   EngineServes, host, files,
      oper, book, Fault, FaultN
<1>1. CASE BeginStart
  BY <1>1 DEF BeginStart
<1>2. CASE \E c \in Configs : Prepare(c)
  BY <1>2 DEF Prepare, Goto
<1>3. CASE PrepareRefused
  BY <1>3 DEF PrepareRefused, Return
<1>4. CASE SaveInitial
  BY <1>4 DEF SaveInitial, Advance, Goto, Saved, SaveLost, Return
<1>5. CASE EnableForwarding
  BY <1>5 DEF EnableForwarding, Advance, Goto, Rollback
<1>6. CASE StartEngine
  BY <1>6 DEF StartEngine, Doomed, EngineReady, EngineSurvives, Spawned, Goto,
     Rollback, Saved, SaveLost, StartFaults
<1>7. CASE IdentifyMihomo
  BY <1>7 DEF IdentifyMihomo, Identify, Goto, Rollback, Saved, SaveLost
<1>8. CASE StartBroker
  BY <1>8 DEF StartBroker, StartService, Doomed, Spawned, Goto, Rollback
<1>9. CASE IdentifyBroker
  BY <1>9 DEF IdentifyBroker, Identify, Goto, Rollback, Saved, SaveLost
<1>10. CASE AliasIntent
  BY <1>10 DEF AliasIntent, Goto, Rollback, Saved, SaveLost
<1>11. CASE AddAlias
  BY <1>11 DEF AddAlias, Advance, Goto, Rollback
<1>12. CASE StartDnsmasq
  BY <1>12 DEF StartDnsmasq, StartService, Doomed, Spawned, Goto, Rollback
<1>13. CASE IdentifyDnsmasq
  BY <1>13 DEF IdentifyDnsmasq, Identify, Goto, Rollback, Saved, SaveLost
<1>14. CASE LoadFirewall
  BY <1>14 DEF LoadFirewall, Goto, Rollback
<1>15. CASE SaveFirewall
  BY <1>15 DEF SaveFirewall, AfterFirewall, Advance, Goto, Rollback, Saved,
     SaveLost
<1>16. CASE DnsIntent
  BY <1>16 DEF DnsIntent, Goto, Rollback, Saved, SaveLost
<1>17. CASE DnsBackup
  BY <1>17 DEF DnsBackup, Advance, Goto, Rollback
<1>18. CASE DnsEnable
  BY <1>18 DEF DnsEnable, HostExceptDns, Advance, Goto, Rollback
<1>19. CASE DnsVerified
  BY <1>19 DEF DnsVerified, Advance, Goto, Rollback, Saved, SaveLost
<1>20. CASE EnableProxy
  BY <1>20 DEF EnableProxy, HostExceptProxy
<1>21. CASE FinishStart
  BY <1>21 DEF FinishStart, Return
<1>22. CASE CancelStart
  BY <1>22 DEF CancelStart, Canceled, Rollback
<1>23. CASE BeginStop
  BY <1>23 DEF BeginStop, EnterTeardown
<1>24. CASE BeginReload
  BY <1>24 DEF BeginReload, EnterTeardown
<1>25. CASE TeardownDns
  BY <1>25 DEF TeardownDns, HostExceptDns, Advance, Goto
<1>26. CASE TeardownProxy
  BY <1>26, <1>p, <1>k DEF TeardownProxy, HostExceptProxy, Advance, Goto,
     Return
<1>27. CASE TeardownDnsmasq
  <2>1. UNCHANGED proxy /\ proxy = "off" /\ pc' \notin Engined
    BY <1>27, <1>p DEF TeardownDnsmasq, TeardownProcess, StopError,
       StopTracked, SignalPid, Stopped, Exited, Killed, Present, HostExceptProcs, AfterProxy,
       TeardownStages
  <2> QED BY <2>1
<1>28. CASE TeardownAlias
  BY <1>28 DEF TeardownAlias
<1>29. CASE TeardownBroker
  <2>1. UNCHANGED proxy /\ proxy = "off" /\ pc' \notin Engined
    BY <1>29, <1>p DEF TeardownBroker, TeardownProcess, StopError, StopTracked,
       SignalPid, Stopped, Exited, Killed, Present, HostExceptProcs, AfterProxy, TeardownStages
  <2> QED BY <2>1
<1>30. CASE TeardownMihomo
  <2>1. UNCHANGED proxy /\ proxy = "off" /\ pc' \notin Engined
    BY <1>30, <1>p DEF TeardownMihomo, TeardownProcess, StopError, StopTracked,
       SignalPid, Stopped, Exited, Killed, Present, HostExceptProcs, AfterProxy, TeardownStages
  <2> QED BY <2>1
<1>31. CASE TeardownFirewall
  BY <1>31 DEF TeardownFirewall
<1>32. CASE TeardownForwarding
  BY <1>32 DEF TeardownForwarding
<1>33. CASE TeardownFinish
  BY <1>33 DEF TeardownFinish, Return
<1>34. CASE BeginRestart
  BY <1>34 DEF BeginRestart, HostExceptDns
<1>35. CASE RestartMark
  BY <1>35 DEF RestartMark, Advance, Goto, Saved, SaveLost, Return
<1>36. CASE RestartStop
  <2>1. CASE StopTracked("mihomo", prev.pid, prev.known) /\ Advance("rsSpawn")
    BY <2>1 DEF Advance, Goto
  <2>2. CASE Return /\ UNCHANGED alive /\ proxy' \in {proxy, ProxyAfter(FALSE)}
             /\ pc = "rsStop"
    BY <2>2, <1>p DEF Return, ProxyAfter
  <2> QED BY <1>36, <2>1, <2>2 DEF RestartStop, HostExceptProxy
<1>37. CASE RestartSpawn
  <2>0. pc = "rsSpawn" /\ (proxy = "ours" => mem.proxy)
    BY <1>37, <1>p DEF RestartSpawn
  <2>1. CASE EngineReady("rsIdentify")
    BY <2>1, FreshInst DEF EngineReady, Spawned, Goto
  <2>2. CASE pc' = "idle" /\ proxy' = ProxyAfter(FALSE)
    BY <2>0, <2>2, <1>p DEF ProxyAfter
  <2>3. CASE FaultN({"cmd", "restore"}, 2)
    BY <2>3, <1>k
  <2> QED BY <1>37, <2>1, <2>2, <2>3 DEF RestartSpawn, Doomed, RestartFails,
     RestartSurvives, Return
<1>38. CASE RestartIdentify
  <2>0. pc = "rsIdentify" /\ (proxy = "ours" => mem.proxy)
    BY <1>38, <1>p DEF RestartIdentify
  <2>1. CASE UNCHANGED <<alive, proxy>> /\ pc' \in {"rsBackup", "idle"}
    BY <2>0, <2>1
  <2>2. CASE pc' = "idle" /\ proxy' = ProxyAfter(FALSE)
    BY <2>0, <2>2, <1>p DEF ProxyAfter
  <2> QED BY <1>38, <2>1, <2>2 DEF RestartIdentify, Goto, Return
<1>39. CASE RestartBackup
  BY <1>39 DEF RestartBackup, Advance, Goto, Return
<1>40. CASE RestartEnable
  BY <1>40 DEF RestartEnable, HostExceptDns, Return, Saved, SaveLost
<1>41. CASE ChildExits
  BY <1>41, <1>k DEF ChildExits, Exited, HostExceptProcs
<1>kg. CASE KilledGoes
  BY <1>kg, <1>k DEF KilledGoes, HostExceptProcs
<1>42. CASE PidReused
  BY <1>42, <1>k DEF PidReused, HostExceptProcs
<1>43. CASE Crash
  BY <1>43, <1>k DEF Crash, Return
<1>44. CASE Reboot
  BY <1>44, <1>k DEF Reboot, Return
<1>45. CASE UserEditsDns
  BY <1>45 DEF UserEditsDns, HostExceptDns
<1>46. CASE UNCHANGED vars
  BY <1>46 DEF vars
<1> QED BY <1>1, <1>2, <1>3, <1>4, <1>5, <1>6, <1>7, <1>8, <1>9, <1>10, <1>11,
   <1>12, <1>13, <1>14, <1>15, <1>16, <1>17, <1>18, <1>19, <1>20, <1>21,
   <1>22, <1>23, <1>24, <1>25, <1>26, <1>27, <1>28, <1>29, <1>30, <1>31,
   <1>32, <1>33, <1>34, <1>35, <1>36, <1>37, <1>38, <1>39, <1>40, <1>41, <1>kg,
   <1>42, <1>43, <1>44, <1>45, <1>46 DEF Next, Start, Teardown, Restart,
   Environment

\* A file of an earlier boot stands for no process.
LEMMA RebootedStep ==
    ASSUME IInv, Rebooted, [Next]_vars
    PROVE  Rebooted'
<1>t. alive \in [Roles -> SUBSET Inst] /\ Roles = {"mihomo", "broker", "dnsmasq"}
  BY DEF IInv, TypeOK, HostType, Roles
<1>e. /\ pc = "saveInitial" => mem.boot = boot
      /\ pc \in StartStages \cup RestartStages => mem.boot = boot /\ disk.boot = boot
  BY DEF IInv, Memory, InSync
<1>m. \A r \in Roles : \A i \in Fresh(r), k \in BOOLEAN :
        Track(mem, r, i, k).boot = mem.boot
  BY Starting DEF IInv, Tracks, Alike
<1>i. \A r \in Roles : Track(mem, r, mem.pid[r], TRUE).boot = mem.boot
  BY Identifying DEF IInv, Tracks, Alike
<1>s. Track(mem, "mihomo", prev.pid, prev.known).boot = mem.boot
  BY TrackIs, <1>t DEF IInv, TypeOK, OperType, Tracks, Alike
<1>a. WithAlias(mem).boot = mem.boot /\ WithDns(mem).boot = mem.boot
  BY WithIs DEF IInv, TypeOK, OperType, Alike
<1> USE <1>t DEF StartStages, RestartStages, Rebooted, host, files, oper
<1>1. CASE BeginStart
  BY <1>1 DEF BeginStart
<1>2. CASE \E c \in Configs : Prepare(c)
  BY <1>2 DEF Prepare, Goto
<1>3. CASE PrepareRefused
  BY <1>3 DEF PrepareRefused, Return
<1>4. CASE SaveInitial
  BY <1>4, <1>e DEF SaveInitial, Advance, Goto, Saved, SaveLost, Return
<1>5. CASE EnableForwarding
  BY <1>5 DEF EnableForwarding, Advance, Goto, Rollback
<1>6. CASE StartEngine
  <2>1. pc \in {"engine", "rsSpawn"} /\ UNCHANGED boot
    BY <1>6 DEF StartEngine, Doomed, EngineReady, EngineSurvives, RestartFails,
       RestartSurvives, Spawned, HostExceptProxy
  <2>2. UNCHANGED disk \/ \E i \in Fresh("mihomo"), k \in BOOLEAN :
                            disk' \in {disk, Track(mem, "mihomo", i, k)}
    BY <1>6 DEF StartEngine, Doomed, EngineReady, EngineSurvives, RestartFails,
       RestartSurvives, Saved, SaveLost
  <2>3. disk'.boot = boot'
    BY <1>m, <1>e, <2>1, <2>2
  <2> QED BY <2>3
<1>7. CASE IdentifyMihomo
  BY <1>7, <1>i, <1>e DEF IdentifyMihomo, Identify, Goto, Rollback, Saved,
     SaveLost
<1>8. CASE StartBroker
  BY <1>8, <1>e DEF StartBroker, StartService, Doomed, Spawned, Goto, Rollback
<1>9. CASE IdentifyBroker
  BY <1>9, <1>i, <1>e DEF IdentifyBroker, Identify, Goto, Rollback, Saved,
     SaveLost
<1>10. CASE AliasIntent
  BY <1>10, <1>a, <1>e DEF AliasIntent, Goto, Rollback, Saved, SaveLost
<1>11. CASE AddAlias
  BY <1>11 DEF AddAlias, Advance, Goto, Rollback
<1>12. CASE StartDnsmasq
  BY <1>12, <1>e DEF StartDnsmasq, StartService, Doomed, Spawned, Goto, Rollback
<1>13. CASE IdentifyDnsmasq
  BY <1>13, <1>i, <1>e DEF IdentifyDnsmasq, Identify, Goto, Rollback, Saved,
     SaveLost
<1>14. CASE LoadFirewall
  BY <1>14 DEF LoadFirewall, Goto, Rollback
<1>15. CASE SaveFirewall
  BY <1>15, <1>e DEF SaveFirewall, AfterFirewall, Advance, Goto, Rollback,
     Saved, SaveLost
<1>16. CASE DnsIntent
  BY <1>16, <1>a, <1>e DEF DnsIntent, Goto, Rollback, Saved, SaveLost
<1>17. CASE DnsBackup
  BY <1>17 DEF DnsBackup, Advance, Goto, Rollback
<1>18. CASE DnsEnable
  BY <1>18 DEF DnsEnable, HostExceptDns, Advance, Goto, Rollback
<1>19. CASE DnsVerified
  BY <1>19, <1>e DEF DnsVerified, Advance, Goto, Rollback, Saved, SaveLost
<1>20. CASE EnableProxy
  BY <1>20 DEF EnableProxy, HostExceptProxy
<1>21. CASE FinishStart
  BY <1>21 DEF FinishStart, Return
<1>22. CASE CancelStart
  BY <1>22 DEF CancelStart, Canceled, Rollback
<1>23. CASE BeginStop
  BY <1>23 DEF BeginStop, EnterTeardown
<1>24. CASE BeginReload
  BY <1>24 DEF BeginReload, EnterTeardown
<1>25. CASE TeardownDns
  BY <1>25 DEF TeardownDns, HostExceptDns, Advance, Goto
<1>26. CASE TeardownProxy
  BY <1>26 DEF TeardownProxy, HostExceptProxy, Advance, Goto, Return
<1>27. CASE TeardownDnsmasq
  BY <1>27 DEF TeardownDnsmasq, TeardownProcess, StopError, StopTracked,
     SignalPid, Stopped, Exited, Killed, Present, HostExceptProcs
<1>28. CASE TeardownAlias
  BY <1>28 DEF TeardownAlias
<1>29. CASE TeardownBroker
  BY <1>29 DEF TeardownBroker, TeardownProcess, StopError, StopTracked,
     SignalPid, Stopped, Exited, Killed, Present, HostExceptProcs
<1>30. CASE TeardownMihomo
  BY <1>30 DEF TeardownMihomo, TeardownProcess, StopError, StopTracked,
     SignalPid, Stopped, Exited, Killed, Present, HostExceptProcs
<1>31. CASE TeardownFirewall
  BY <1>31 DEF TeardownFirewall
<1>32. CASE TeardownForwarding
  BY <1>32 DEF TeardownForwarding
<1>33. CASE TeardownFinish
  BY <1>33 DEF TeardownFinish, Return
<1>34. CASE BeginRestart
  BY <1>34 DEF BeginRestart, HostExceptDns
<1>35. CASE RestartMark
  BY <1>35, <1>e DEF RestartMark, Advance, Goto, Saved, SaveLost, Return
<1>36. CASE RestartStop
  BY <1>36, <1>s, <1>e DEF RestartStop, StopTracked, SignalPid, Stopped,
     Exited, Killed, Present,
     HostExceptProcs, HostExceptProxy, Advance, Goto, Return, Saved, SaveLost,
     ProxyAfter
<1>37. CASE RestartSpawn
  <2>1. pc \in {"engine", "rsSpawn"} /\ UNCHANGED boot
    BY <1>37 DEF RestartSpawn, Doomed, EngineReady, EngineSurvives,
       RestartFails,
       RestartSurvives, Spawned, HostExceptProxy
  <2>2. UNCHANGED disk \/ \E i \in Fresh("mihomo"), k \in BOOLEAN :
                            disk' \in {disk, Track(mem, "mihomo", i, k)}
    BY <1>37 DEF RestartSpawn, Doomed, EngineReady, EngineSurvives,
       RestartFails,
       RestartSurvives, Saved, SaveLost
  <2>3. disk'.boot = boot'
    BY <1>m, <1>e, <2>1, <2>2
  <2> QED BY <2>3
<1>38. CASE RestartIdentify
  BY <1>38, <1>i, <1>e DEF RestartIdentify, ProxyAfter, Goto, Return, Saved,
     SaveLost
<1>39. CASE RestartBackup
  BY <1>39 DEF RestartBackup, Advance, Goto, Return
<1>40. CASE RestartEnable
  BY <1>40, <1>e DEF RestartEnable, HostExceptDns, Return, Saved, SaveLost
<1>41. CASE ChildExits
  BY <1>41 DEF ChildExits, Exited, HostExceptProcs
<1>kg. CASE KilledGoes
  BY <1>kg DEF KilledGoes, HostExceptProcs
<1>42. CASE PidReused
  BY <1>42 DEF PidReused, HostExceptProcs
<1>43. CASE Crash
  BY <1>43 DEF Crash, Return
<1>44. CASE Reboot
  BY <1>44 DEF Reboot, Return
<1>45. CASE UserEditsDns
  BY <1>45 DEF UserEditsDns, HostExceptDns
<1>46. CASE UNCHANGED vars
  BY <1>46 DEF vars
<1> QED BY <1>1, <1>2, <1>3, <1>4, <1>5, <1>6, <1>7, <1>8, <1>9, <1>10, <1>11,
   <1>12, <1>13, <1>14, <1>15, <1>16, <1>17, <1>18, <1>19, <1>20, <1>21,
   <1>22, <1>23, <1>24, <1>25, <1>26, <1>27, <1>28, <1>29, <1>30, <1>31,
   <1>32, <1>33, <1>34, <1>35, <1>36, <1>37, <1>38, <1>39, <1>40, <1>41, <1>kg,
   <1>42, <1>43, <1>44, <1>45, <1>46 DEF Next, Start, Teardown, Restart,
   Environment

\* A process is started only where its PID is recorded, and forgotten
\* only where it has ended.
LEMMA RecordedStep ==
    ASSUME IInv, Apart, Copies, Rebooted, Recorded, [Next]_vars
    PROVE  Recorded'
<1>t. /\ alive \in [Roles -> SUBSET Inst] /\ Roles = {"mihomo", "broker", "dnsmasq"}
      /\ NoPid \notin Inst /\ reused \in [Roles -> SUBSET Inst]
  BY LifecycleAssumption DEF IInv, TypeOK, HostType, Roles
<1>h. happened \subseteq happened'
  BY BookStep DEF IInv, Charged
<1>m. \A r \in Roles : \A i \in Fresh(r) :
        i \in Inst /\ Tracks(Track(mem, r, i, FALSE), mem, r, i, FALSE)
  BY StartingUnknown, FreshIs DEF IInv
<1>i. \A r \in Roles :
        Tracks(Track(mem, r, mem.pid[r], TRUE), mem, r, mem.pid[r], TRUE)
  BY Identifying DEF IInv
<1>a. /\ WithAlias(mem).pid = mem.pid /\ WithAnchor(mem).pid = mem.pid
      /\ WithDns(mem).pid = mem.pid
  BY WithIs DEF IInv, TypeOK, OperType
<1>e. /\ pc \in PrepareStages => ~exists
      /\ pc \in StartStages \cup RestartStages \cup {"tdProxy"} => exists
      /\ pc = "tdProxy" => disk.boot = mem.boot
      /\ pc = "tdFinish" /\ exists => disk.boot = mem.boot
  BY DEF IInv, Memory, InSync, TeardownStages
<1>g. \A r \in Roles : pc \in Ahead(r) => mem.pid[r] = NoPid
  BY DEF Copies
<1> SUFFICES ASSUME NEW r \in Roles, Held(r), happened' \subseteq Ordinary
             PROVE  Held(r)'
  BY <1>h DEF Recorded
<1>k. /\ "save" \notin happened' /\ "ident" \notin happened'
      /\ "orphan" \notin happened' /\ "crash" \notin happened'
  BY DEF Ordinary
<1>r. Held(r)
  OBVIOUS
<1> USE <1>t, <1>r, <1>k DEF PrepareStages, StartStages, RestartStages,
   Pending, Gone, Held, host, files,
      oper, book, Fine, Fault, FaultN
<1>1. CASE BeginStart
  BY <1>1, <1>e DEF BeginStart
<1>2. CASE \E c \in Configs : Prepare(c)
  BY <1>2, <1>e DEF Prepare, Goto
<1>3. CASE PrepareRefused
  BY <1>3, <1>e DEF PrepareRefused, Return
<1>4. CASE SaveInitial
  BY <1>4, <1>e DEF SaveInitial, Advance, Goto, Saved, SaveLost, Return
<1>5. CASE EnableForwarding
  BY <1>5 DEF EnableForwarding, Advance, Goto, Rollback
<1>6. CASE StartEngine
  <2>1. pc = "engine" /\ UNCHANGED prev
    BY <1>6 DEF StartEngine, Doomed, EngineReady, EngineSurvives, Goto, Rollback
  <2>2. r = "mihomo" => alive[r] = {}
    BY <1>g, <2>1 DEF Ahead
  <2>3. \/ pc' = "tdDns" /\ failed' = FALSE /\ UNCHANGED <<mem, alive, files>>
        \/ \E i \in Fresh("mihomo"), k \in BOOLEAN :
             /\ mem' = Track(mem, "mihomo", i, k)
             /\ alive' = [alive EXCEPT !["mihomo"] = @ \cup {i}]
             /\ \/ pc' = "idMihomo" /\ UNCHANGED files
                \/ pc' = "tdDns" /\ failed' = FALSE /\ Saved(mem')
    <3>1. CASE EngineReady("idMihomo")
      BY <3>1 DEF EngineReady, Spawned, Goto
    <3>2. CASE Fault("cmd") /\ Rollback(mem) /\ UNCHANGED <<host, files>>
      BY <3>2 DEF Rollback
    <3>3. ASSUME NEW i \in Fresh("mihomo"), NEW k \in BOOLEAN, NEW saved \in BOOLEAN,
                 EngineSurvives(i, k, saved)
          PROVE  /\ mem' = Track(mem, "mihomo", i, k)
                 /\ alive' = [alive EXCEPT !["mihomo"] = @ \cup {i}]
                 /\ pc' = "tdDns" /\ failed' = FALSE /\ Saved(mem')
      <4>1. saved
        BY <3>3 DEF EngineSurvives, StartFaults
      <4> QED BY <3>3, <4>1 DEF EngineSurvives, Rollback, Spawned
    <3>4. CASE Doomed("mihomo") /\ Rollback(mem) /\ UNCHANGED <<proxy, files>>
      BY <3>4 DEF Doomed, Rollback
    <3> QED BY <1>6, <3>1, <3>2, <3>3, <3>4 DEF StartEngine
  <2>4. CASE pc' = "tdDns" /\ failed' = FALSE /\ UNCHANGED <<mem, alive, files>>
    BY <2>1, <2>4
  <2>5. ASSUME NEW i \in Fresh("mihomo"), NEW k \in BOOLEAN,
               mem' = Track(mem, "mihomo", i, k),
               alive' = [alive EXCEPT !["mihomo"] = @ \cup {i}],
               \/ pc' = "idMihomo" /\ UNCHANGED files
               \/ pc' = "tdDns" /\ failed' = FALSE /\ Saved(mem')
        PROVE  Held(r)'
    <3>1. Tracks(mem', mem, "mihomo", i, k)
      BY Starting, <2>5 DEF IInv
    <3>2. mem'.pid[r] = IF r = "mihomo" THEN i ELSE mem.pid[r]
      BY ONLY <3>1, r \in Roles DEF Tracks
    <3> QED BY <2>1, <2>2, <2>5, <3>2 DEF Saved
  <2> QED BY <2>3, <2>4, <2>5
<1>7. CASE IdentifyMihomo
  <2> DEFINE t == Track(mem, "mihomo", mem.pid["mihomo"], TRUE)
  <2>1. /\ pc = "idMihomo" /\ UNCHANGED <<alive, prev>>
        /\ \/ mem' = t /\ disk' = t /\ exists' = TRUE /\ pc' \in {"broker", "dnsmasq"}
           \/ /\ pc' = "tdDns" /\ failed' = FALSE /\ UNCHANGED <<mem, files>>
              /\ mem.pid["mihomo"] \notin alive["mihomo"]
    BY <1>7 DEF IdentifyMihomo, Identify, Goto, Rollback, Saved
  <2>2. Tracks(t, mem, "mihomo", mem.pid["mihomo"], TRUE)
    BY <1>i
  <2> HIDE DEF t
  <2>3. t.pid[r] = mem.pid[r]
    BY ONLY <2>2, r \in Roles DEF Tracks
  <2>4. alive[r] \subseteq {mem.pid[r]}
    BY <2>1
  <2>5. CASE mem' = t /\ disk' = t /\ exists' = TRUE /\ pc' \in {"broker", "dnsmasq"}
    BY <2>1, <2>3, <2>4, <2>5
  <2>6. CASE /\ pc' = "tdDns" /\ failed' = FALSE /\ UNCHANGED <<mem, files>>
             /\ mem.pid["mihomo"] \notin alive["mihomo"]
    BY <2>1, <2>4, <2>6
  <2> QED BY <2>1, <2>5, <2>6
<1>8. CASE StartBroker
  <2>1. /\ pc = "broker" /\ UNCHANGED <<disk, exists, prev>>
        /\ \/ pc' = "tdDns" /\ failed' = FALSE /\ UNCHANGED <<mem, alive>>
           \/ /\ pc' = "idBroker"
              /\ \E i \in Fresh("broker") :
                   /\ mem' = Track(mem, "broker", i, FALSE)
                   /\ alive' = [alive EXCEPT !["broker"] = @ \cup {i}]
    BY <1>8 DEF StartBroker, StartService, Doomed, Spawned, Goto, Rollback
  <2>2. r = "broker" => alive[r] = {}
    BY <1>g, <2>1 DEF Ahead
  <2>3. CASE pc' = "tdDns" /\ failed' = FALSE /\ UNCHANGED <<mem, alive>>
    BY <2>1, <2>3
  <2>4. ASSUME NEW i \in Fresh("broker"), mem' = Track(mem, "broker", i, FALSE),
               alive' = [alive EXCEPT !["broker"] = @ \cup {i}], pc' = "idBroker"
        PROVE  Held(r)'
    <3>1. Tracks(mem', mem, "broker", i, FALSE)
      BY <1>m, <2>4
    <3>2. mem'.pid[r] = IF r = "broker" THEN i ELSE mem.pid[r]
      BY ONLY <3>1, r \in Roles DEF Tracks
    <3> QED BY <2>1, <2>2, <2>4, <3>2
  <2> QED BY <2>1, <2>3, <2>4
<1>9. CASE IdentifyBroker
  <2> DEFINE t == Track(mem, "broker", mem.pid["broker"], TRUE)
  <2>1. /\ pc = "idBroker" /\ UNCHANGED <<alive, prev>>
        /\ \/ mem' = t /\ disk' = t /\ exists' = TRUE /\ pc' \in {"aliasIntent"}
           \/ /\ pc' = "tdDns" /\ failed' = FALSE /\ UNCHANGED <<mem, files>>
              /\ mem.pid["broker"] \notin alive["broker"]
    BY <1>9 DEF IdentifyBroker, Identify, Goto, Rollback, Saved
  <2>2. Tracks(t, mem, "broker", mem.pid["broker"], TRUE)
    BY <1>i
  <2> HIDE DEF t
  <2>3. t.pid[r] = mem.pid[r]
    BY ONLY <2>2, r \in Roles DEF Tracks
  <2>4. alive[r] \subseteq {mem.pid[r]}
    BY <2>1
  <2>5. CASE mem' = t /\ disk' = t /\ exists' = TRUE /\ pc' \in {"aliasIntent"}
    BY <2>1, <2>3, <2>4, <2>5
  <2>6. CASE /\ pc' = "tdDns" /\ failed' = FALSE /\ UNCHANGED <<mem, files>>
             /\ mem.pid["broker"] \notin alive["broker"]
    BY <2>1, <2>4, <2>6
  <2> QED BY <2>1, <2>5, <2>6
<1>10. CASE AliasIntent
  BY <1>10, <1>a, <1>e DEF AliasIntent, Goto, Rollback, Saved, SaveLost
<1>11. CASE AddAlias
  BY <1>11 DEF AddAlias, Advance, Goto, Rollback
<1>12. CASE StartDnsmasq
  <2>1. /\ pc = "dnsmasq" /\ UNCHANGED <<disk, exists, prev>>
        /\ \/ pc' = "tdDns" /\ failed' = FALSE /\ UNCHANGED <<mem, alive>>
           \/ /\ pc' = "idDnsmasq"
              /\ \E i \in Fresh("dnsmasq") :
                   /\ mem' = Track(mem, "dnsmasq", i, FALSE)
                   /\ alive' = [alive EXCEPT !["dnsmasq"] = @ \cup {i}]
    BY <1>12 DEF StartDnsmasq, StartService, Doomed, Spawned, Goto, Rollback
  <2>2. r = "dnsmasq" => alive[r] = {}
    BY <1>g, <2>1 DEF Ahead
  <2>3. CASE pc' = "tdDns" /\ failed' = FALSE /\ UNCHANGED <<mem, alive>>
    BY <2>1, <2>3
  <2>4. ASSUME NEW i \in Fresh("dnsmasq"), mem' = Track(mem, "dnsmasq", i, FALSE),
               alive' = [alive EXCEPT !["dnsmasq"] = @ \cup {i}], pc' = "idDnsmasq"
        PROVE  Held(r)'
    <3>1. Tracks(mem', mem, "dnsmasq", i, FALSE)
      BY <1>m, <2>4
    <3>2. mem'.pid[r] = IF r = "dnsmasq" THEN i ELSE mem.pid[r]
      BY ONLY <3>1, r \in Roles DEF Tracks
    <3> QED BY <2>1, <2>2, <2>4, <3>2
  <2> QED BY <2>1, <2>3, <2>4
<1>13. CASE IdentifyDnsmasq
  <2> DEFINE t == Track(mem, "dnsmasq", mem.pid["dnsmasq"], TRUE)
  <2>1. /\ pc = "idDnsmasq" /\ UNCHANGED <<alive, prev>>
        /\ \/ mem' = t /\ disk' = t /\ exists' = TRUE /\ pc' \in {"firewall"}
           \/ /\ pc' = "tdDns" /\ failed' = FALSE /\ UNCHANGED <<mem, files>>
              /\ mem.pid["dnsmasq"] \notin alive["dnsmasq"]
    BY <1>13 DEF IdentifyDnsmasq, Identify, Goto, Rollback, Saved
  <2>2. Tracks(t, mem, "dnsmasq", mem.pid["dnsmasq"], TRUE)
    BY <1>i
  <2> HIDE DEF t
  <2>3. t.pid[r] = mem.pid[r]
    BY ONLY <2>2, r \in Roles DEF Tracks
  <2>4. alive[r] \subseteq {mem.pid[r]}
    BY <2>1
  <2>5. CASE mem' = t /\ disk' = t /\ exists' = TRUE /\ pc' \in {"firewall"}
    BY <2>1, <2>3, <2>4, <2>5
  <2>6. CASE /\ pc' = "tdDns" /\ failed' = FALSE /\ UNCHANGED <<mem, files>>
             /\ mem.pid["dnsmasq"] \notin alive["dnsmasq"]
    BY <2>1, <2>4, <2>6
  <2> QED BY <2>1, <2>5, <2>6
<1>14. CASE LoadFirewall
  BY <1>14, <1>a, <1>e DEF LoadFirewall, Goto, Rollback
<1>15. CASE SaveFirewall
  BY <1>15, <1>e DEF SaveFirewall, AfterFirewall, Advance, Goto, Rollback,
     Saved, SaveLost
<1>16. CASE DnsIntent
  BY <1>16, <1>a, <1>e DEF DnsIntent, Goto, Rollback, Saved, SaveLost
<1>17. CASE DnsBackup
  BY <1>17 DEF DnsBackup, Advance, Goto, Rollback
<1>18. CASE DnsEnable
  BY <1>18 DEF DnsEnable, HostExceptDns, Advance, Goto, Rollback
<1>19. CASE DnsVerified
  BY <1>19, <1>e DEF DnsVerified, Advance, Goto, Rollback, Saved, SaveLost
<1>20. CASE EnableProxy
  BY <1>20 DEF EnableProxy, HostExceptProxy
<1>21. CASE FinishStart
  BY <1>21 DEF FinishStart, Return
<1>22. CASE CancelStart
  BY <1>22 DEF CancelStart, Canceled, Rollback
<1>23. CASE BeginStop
  BY <1>23 DEF BeginStop, EnterTeardown
<1>24. CASE BeginReload
  BY <1>24 DEF BeginReload, EnterTeardown
<1>25. CASE TeardownDns
  BY <1>25, <1>e DEF TeardownDns, HostExceptDns, Advance, Goto
<1>26. CASE TeardownProxy
  <2>1. pc = "tdProxy" /\ UNCHANGED <<alive, files>>
    BY <1>26 DEF TeardownProxy, HostExceptProxy
  <2>2. CASE pc' = "idle"
    BY <2>1, <2>2
  <2>3. CASE UNCHANGED <<mem, prev, failed>> /\ pc' = "tdDnsmasq"
    BY <2>1, <2>3
  <2>4. CASE UNCHANGED <<mem, prev, failed>> /\ pc' = "tdFinish" /\ mem.boot # boot
    BY <2>1, <2>4, <1>e DEF Rebooted
  <2> QED BY <1>26, <2>2, <2>3, <2>4 DEF TeardownProxy, Advance, Goto, Return
<1>27. CASE TeardownDnsmasq
  <2>1. /\ pc' = "tdAlias" /\ pc = "tdDnsmasq" /\ UNCHANGED <<files, mem, prev>>
    BY <1>27 DEF TeardownDnsmasq, TeardownProcess
  <2>2. CASE StopTracked("dnsmasq", mem.pid["dnsmasq"], mem.known["dnsmasq"]) /\ UNCHANGED failed
    <3>1. \/ alive' = [alive EXCEPT !["dnsmasq"] = @ \ {mem.pid["dnsmasq"]}]
          \/ UNCHANGED alive /\ mem.pid["dnsmasq"] \notin alive["dnsmasq"]
      BY <2>2 DEF StopTracked, SignalPid, Stopped, Exited, Killed, Present,
         Apart
    <3> QED BY <2>1, <2>2, <3>1
  <2>3. CASE failed' = TRUE /\ UNCHANGED alive
    BY <2>1, <2>3
  <2> QED BY <1>27, <2>2, <2>3 DEF TeardownDnsmasq, TeardownProcess, StopError
<1>28. CASE TeardownAlias
  BY <1>28 DEF TeardownAlias
<1>29. CASE TeardownBroker
  <2>1. /\ pc' = "tdMihomo" /\ pc = "tdBroker" /\ UNCHANGED <<files, mem, prev>>
    BY <1>29 DEF TeardownBroker, TeardownProcess
  <2>2. CASE StopTracked("broker", mem.pid["broker"], mem.known["broker"]) /\ UNCHANGED failed
    <3>1. \/ alive' = [alive EXCEPT !["broker"] = @ \ {mem.pid["broker"]}]
          \/ UNCHANGED alive /\ mem.pid["broker"] \notin alive["broker"]
      BY <2>2 DEF StopTracked, SignalPid, Stopped, Exited, Killed, Present,
         Apart
    <3> QED BY <2>1, <2>2, <3>1
  <2>3. CASE failed' = TRUE /\ UNCHANGED alive
    BY <2>1, <2>3
  <2> QED BY <1>29, <2>2, <2>3 DEF TeardownBroker, TeardownProcess, StopError
<1>30. CASE TeardownMihomo
  <2>1. /\ pc' = "tdFirewall" /\ pc = "tdMihomo" /\ UNCHANGED <<files, mem, prev>>
    BY <1>30 DEF TeardownMihomo, TeardownProcess
  <2>2. CASE StopTracked("mihomo", mem.pid["mihomo"], mem.known["mihomo"]) /\ UNCHANGED failed
    <3>1. \/ alive' = [alive EXCEPT !["mihomo"] = @ \ {mem.pid["mihomo"]}]
          \/ UNCHANGED alive /\ mem.pid["mihomo"] \notin alive["mihomo"]
      BY <2>2 DEF StopTracked, SignalPid, Stopped, Exited, Killed, Present,
         Apart
    <3> QED BY <2>1, <2>2, <3>1
  <2>3. CASE failed' = TRUE /\ UNCHANGED alive
    BY <2>1, <2>3
  <2> QED BY <1>30, <2>2, <2>3 DEF TeardownMihomo, TeardownProcess, StopError
<1>31. CASE TeardownFirewall
  BY <1>31 DEF TeardownFirewall
<1>32. CASE TeardownForwarding
  BY <1>32 DEF TeardownForwarding
<1>33. CASE TeardownFinish
  <2>1. pc = "tdFinish" /\ UNCHANGED alive
    BY <1>33 DEF TeardownFinish
  <2>2. CASE pc' = "idle" /\ UNCHANGED <<exists, disk>>
    BY <2>1, <2>2
  <2>3. CASE pc' \in {"idle", "prepare"} /\ (~failed \/ (exists /\ mem.boot # boot))
    <3>1. alive[r] = {}
      BY <2>1, <2>3, <1>e DEF Rebooted
    <3> QED BY <2>1, <2>3, <3>1
  <2> QED BY <1>33, <2>2, <2>3 DEF TeardownFinish, Return
<1>34. CASE BeginRestart
  <2>1. /\ pc = "idle" /\ pc' = "rsMark" /\ UNCHANGED <<alive, exists, disk, failed>>
        /\ prev'.pid = disk.pid["mihomo"] /\ exists
        /\ \E k \in BOOLEAN : mem' = Restarting(k)
    BY <1>34 DEF BeginRestart, HostExceptDns, LiveBoot, IInv, TypeOK,
       FilesType, State
  <2>2. r # "mihomo" => mem'.pid[r] = disk.pid[r]
    BY <2>1, RestartingIs DEF IInv
  <2> QED BY <2>1, <2>2
<1>35. CASE RestartMark
  BY <1>35 DEF RestartMark, Advance, Goto, Saved, SaveLost, Return
<1>36. CASE RestartStop
  <2>1. CASE /\ StopTracked("mihomo", prev.pid, prev.known)
             /\ Advance("rsSpawn") /\ UNCHANGED files
    <3>1. \/ alive' = [alive EXCEPT !["mihomo"] = @ \ {prev.pid}]
          \/ UNCHANGED alive /\ prev.pid \notin alive["mihomo"]
      BY <2>1 DEF StopTracked, SignalPid, Stopped, Exited, Killed, Present,
         Apart
    <3>2. pc = "rsStop" /\ pc' = "rsSpawn" /\ UNCHANGED <<mem, files>>
      BY <1>36, <2>1 DEF RestartStop, Advance, Goto
    <3>3. r # "mihomo" => alive'[r] = alive[r]
      BY <3>1
    <3>4. r = "mihomo" => alive'[r] = {}
      BY <3>1, <3>2
    <3> QED BY <3>2, <3>3, <3>4
  <2>2. CASE /\ Return /\ UNCHANGED alive /\ pc = "rsStop"
             /\ Saved(Track(mem, "mihomo", prev.pid, prev.known))
    <3>1. Tracks(disk', mem, "mihomo", prev.pid, prev.known)
      BY <2>2, TrackIs DEF Saved, IInv, TypeOK, OperType
    <3>2. disk'.pid[r] = IF r = "mihomo" THEN prev.pid ELSE mem.pid[r]
      BY ONLY <3>1, r \in Roles DEF Tracks
    <3> QED BY <2>2, <3>2 DEF Return, Saved
  <2> QED BY <1>36, <2>1, <2>2 DEF RestartStop, HostExceptProxy
<1>37. CASE RestartSpawn
  <2>1. pc = "rsSpawn"
    BY <1>37 DEF RestartSpawn
  <2>2. r = "mihomo" => alive[r] = {}
    BY <1>g, <2>1 DEF Ahead
  <2>3. CASE EngineReady("rsIdentify")
    <3>1. PICK i \in Fresh("mihomo") :
            /\ mem' = Track(mem, "mihomo", i, FALSE)
            /\ alive' = [alive EXCEPT !["mihomo"] = @ \cup {i}]
            /\ UNCHANGED <<files, prev, failed>> /\ pc' = "rsIdentify"
      BY <2>3 DEF EngineReady, Spawned, Goto
    <3>2. Tracks(mem', mem, "mihomo", i, FALSE)
      BY <1>m, <3>1
    <3>3. mem'.pid[r] = IF r = "mihomo" THEN i ELSE mem.pid[r]
      BY ONLY <3>2, r \in Roles DEF Tracks
    <3> QED BY <2>1, <2>2, <3>1, <3>3
  <2>4. ASSUME NEW lost \in BOOLEAN, RestartFails(lost)
        PROVE  Held(r)'
    BY <2>1, <2>4 DEF RestartFails, Return, HostExceptProxy
  <2>5. ASSUME NEW i \in Fresh("mihomo"), NEW k \in BOOLEAN, NEW saved \in BOOLEAN,
               RestartSurvives(i, k, saved)
        PROVE  Held(r)'
    <3>1. saved
      BY <2>5 DEF RestartSurvives, StartFaults
    <3>2. disk' = Track(mem, "mihomo", i, k) /\ exists' = TRUE
      BY <2>5, <3>1 DEF RestartSurvives, Saved
    <3>3. Tracks(disk', mem, "mihomo", i, k)
      BY Starting, <3>2 DEF IInv
    <3>4. disk'.pid[r] = IF r = "mihomo" THEN i ELSE mem.pid[r]
      BY ONLY <3>3, r \in Roles DEF Tracks
    <3> QED BY <2>1, <2>2, <2>5, <3>2, <3>4 DEF RestartSurvives, Return
  <2>6. CASE Doomed("mihomo") /\ Return /\ UNCHANGED files
    BY <2>1, <2>6 DEF Doomed, Return
  <2> QED BY <1>37, <2>3, <2>4, <2>5, <2>6 DEF RestartSpawn
<1>38. CASE RestartIdentify
  <2> DEFINE t == Track(mem, "mihomo", mem.pid["mihomo"], TRUE)
  <2>1. pc = "rsIdentify"
    BY <1>38 DEF RestartIdentify
  <2>2. t.pid[r] = mem.pid[r]
    <3>1. Tracks(t, mem, "mihomo", mem.pid["mihomo"], TRUE)
      BY <1>i
    <3> QED BY ONLY <3>1, r \in Roles DEF Tracks
  <2>3. CASE /\ disk' = t /\ exists' = TRUE /\ UNCHANGED alive
             /\ (pc' = "rsBackup" /\ mem' = t) \/ pc' = "idle"
    <3> HIDE DEF t
    <3> QED BY <2>1, <2>2, <2>3
  <2>4. CASE /\ UNCHANGED files /\ pc' = "idle"
             /\ alive' = [alive EXCEPT !["mihomo"] = @ \ {mem.pid["mihomo"]}]
    BY <2>1, <2>4
  <2> QED BY <1>38, <2>3, <2>4 DEF RestartIdentify, Goto, Return, Saved
<1>39. CASE RestartBackup
  BY <1>39 DEF RestartBackup, Advance, Goto, Return
<1>40. CASE RestartEnable
  BY <1>40 DEF RestartEnable, HostExceptDns, Return, Saved, SaveLost
<1>41. CASE ChildExits
  BY <1>41 DEF ChildExits, Exited, HostExceptProcs
<1>kg. CASE KilledGoes
  BY <1>kg DEF KilledGoes, HostExceptProcs
<1>42. CASE PidReused
  BY <1>42 DEF PidReused, HostExceptProcs
<1>43. CASE Crash
  BY <1>43 DEF Crash, Return
<1>44. CASE Reboot
  BY <1>44 DEF Reboot, Return
<1>45. CASE UserEditsDns
  BY <1>45 DEF UserEditsDns, HostExceptDns
<1>46. CASE UNCHANGED vars
  BY <1>46 DEF vars
<1> QED BY <1>1, <1>2, <1>3, <1>4, <1>5, <1>6, <1>7, <1>8, <1>9, <1>10, <1>11,
   <1>12, <1>13, <1>14, <1>15, <1>16, <1>17, <1>18, <1>19, <1>20, <1>21,
   <1>22, <1>23, <1>24, <1>25, <1>26, <1>27, <1>28, <1>29, <1>30, <1>31,
   <1>32, <1>33, <1>34, <1>35, <1>36, <1>37, <1>38, <1>39, <1>40, <1>41, <1>kg,
   <1>42, <1>43, <1>44, <1>45, <1>46 DEF Next, Start, Teardown, Restart,
   Environment

\* While one fault is all there is, it is the first, and a single one.
LEMMA OneFault ==
    ASSUME TypeOK, MaxFaults <= left' + 1
    PROVE  /\ \A kind : Fault(kind) => ~Spent /\ Spent'
           /\ \A kinds : ~FaultN(kinds, 2) /\ ~FaultN(kinds, 3)
           /\ UNCHANGED left => (Spent' <=> Spent)
  <1>1. left \in Nat /\ left <= MaxFaults /\ MaxFaults \in Nat
    BY LifecycleAssumption DEF TypeOK, BookType, Budget
  <1>2. ASSUME NEW kind, Fault(kind) PROVE ~Spent /\ Spent'
    <2>1. left' \in Nat /\ left = left' + 1
      BY <1>2, LifecycleAssumption DEF Fault, FaultN, Budget
    <2>2. \A k, m \in Nat : m <= k + 1 /\ k + 1 <= m => k < m /\ ~(k + 1 < m)
      OBVIOUS
    <2> QED BY <1>1, <2>1, <2>2 DEF Spent
  <1>3. ASSUME NEW kinds, NEW n \in {2, 3}, FaultN(kinds, n) PROVE FALSE
    <2>1. left' \in Nat /\ left = left' + n
      BY <1>3, LifecycleAssumption DEF FaultN, Budget
    <2>2. \A k, m \in Nat : m <= k + 1 => ~(k + n <= m)
      OBVIOUS
    <2> QED BY <1>1, <2>1, <2>2
  <1>4. UNCHANGED left => (Spent' <=> Spent)
    BY DEF Spent
  <1> QED BY <1>2, <1>3, <1>4

\* What the anchor and PF invariants see of a state value.
AlikePf(t) == /\ t.boot = mem.boot /\ t.pfBefore = mem.pfBefore
              /\ t.pfLoaded = mem.pfLoaded

\* One fault at most: either the file says what to flush, or the rollback
\* that is under way remembers it.
LEMMA FirewalledStep ==
    ASSUME IInv, Copies, Firewalled, [Next]_vars
    PROVE  Firewalled'
<1>h. happened \subseteq happened' /\ left' <= left
  BY BookStep DEF IInv, Charged
<1>o. MaxFaults <= left' + 1 => MaxFaults <= left + 1
  <2>1. \A k, l, m \in Nat : k <= l /\ m <= k + 1 => m <= l + 1
    OBVIOUS
  <2>2. left \in Nat /\ left' \in Nat /\ MaxFaults \in Nat
    BY TypeStep, LifecycleAssumption DEF IInv, TypeOK, BookType, Budget
  <2> QED BY <1>h, <2>1, <2>2
<1> SUFFICES ASSUME PfCleared, MaxFaults <= left' + 1, "crash" \notin happened'
             PROVE  PfCleared'
  BY <1>h, <1>o DEF Firewalled
<1>f. /\ \A kind : Fault(kind) => ~Spent /\ Spent' /\ UNCHANGED base
      /\ \A kinds : ~FaultN(kinds, 2) /\ ~FaultN(kinds, 3)
      /\ UNCHANGED left => Spent' = Spent
      /\ Fine => Spent' = Spent /\ UNCHANGED base
  BY OneFault DEF IInv, Fault, FaultN, Fine, book, Spent
<1>t. /\ anchor \in BOOLEAN /\ pfOn \in BOOLEAN /\ failed \in BOOLEAN
      /\ base.pf \in BOOLEAN /\ mem.pfBefore \in BOOLEAN /\ mem.pfLoaded \in BOOLEAN
  BY DEF IInv, TypeOK, HostType, OperType, BookType, State
<1>b. Blank.boot # boot /\ boot # 0
  BY BlankIs DEF Copies
<1>e. /\ pc \in PrepareStages => ~exists
      /\ pc \in {"saveInitial"} \cup StartStages \cup RestartStages => mem.boot = boot
      /\ pc \in StartStages \cup RestartStages => exists
      /\ pc \in {"tdDnsmasq", "tdAlias", "tdBroker", "tdMihomo", "tdFirewall",
                 "tdForward"} => exists /\ mem.boot = boot
      /\ pc = "tdProxy" => exists
      /\ exists /\ pc \in TeardownStages => disk.boot = mem.boot
      /\ pc \in TeardownStages /\ ~exists => mem = Blank
  BY DEF IInv, Memory, InSync, AfterProxy, TeardownStages, Copies
<1>m. \A r \in Roles : \A i \in Fresh(r), k \in BOOLEAN : AlikePf(Track(mem, r, i, k))
  BY Starting DEF IInv, Tracks, Alike, AlikePf
<1>n. \A r \in Roles : \A i \in Fresh(r) : AlikePf(Track(mem, r, i, FALSE))
  BY StartingUnknown DEF IInv, Tracks, Alike, AlikePf
<1>i. \A r \in Roles : AlikePf(Track(mem, r, mem.pid[r], TRUE))
  BY Identifying DEF IInv, Tracks, Alike, AlikePf
<1>s. AlikePf(Track(mem, "mihomo", prev.pid, prev.known))
  BY TrackIs DEF IInv, TypeOK, OperType, Roles, Tracks, Alike, AlikePf
<1>a. /\ AlikePf(WithAlias(mem)) /\ AlikePf(WithDns(mem))
      /\ WithAnchor(mem).boot = mem.boot /\ WithAnchor(mem).pfLoaded = TRUE
      /\ WithAnchor(mem).pfBefore = mem.pfBefore
  BY WithIs DEF IInv, TypeOK, OperType, Alike, AlikePf
<1>r. "mihomo" \in Roles /\ "broker" \in Roles /\ "dnsmasq" \in Roles
  BY DEF Roles
<1> USE <1>f, <1>t, <1>b, <1>e, <1>r DEF PrepareStages, StartStages,
   TeardownStages,
      RestartStages, CleanStages, BeforeFlush, LiveBoot, Clean, OnRecord, PfCleared, AlikePf,
      host, files, oper
<1>1. CASE BeginStart
  BY <1>1 DEF BeginStart, book
<1>2. CASE \E c \in Configs : Prepare(c)
  <2>1. PICK c \in Configs : Prepare(c)
    BY <1>2
  <2>2. mem'.boot = boot /\ mem'.pfBefore = pfOn
    BY <2>1, SnapshotIs DEF Prepare, IInv
  <2> QED BY <2>1, <2>2 DEF Prepare, Goto
<1>3. CASE PrepareRefused
  BY <1>3 DEF PrepareRefused, Return
<1>4. CASE SaveInitial
  BY <1>4 DEF SaveInitial, Advance, Goto, Saved, SaveLost, Return
<1>5. CASE EnableForwarding
  BY <1>5 DEF EnableForwarding, Advance, Goto, Rollback
<1>6. CASE StartEngine
  <2>1. pc = "engine" /\ UNCHANGED <<anchor, pfOn, boot>>
    BY <1>6 DEF StartEngine, Doomed, EngineReady, EngineSurvives, Spawned
  <2>2. CASE EngineReady("idMihomo")
    <3>1. AlikePf(mem')
      <4>1. PICK i \in Fresh("mihomo") : mem' = Track(mem, "mihomo", i, FALSE)
        BY <2>2 DEF EngineReady
      <4>2. AlikePf(Track(mem, "mihomo", i, FALSE))
        BY <1>n
      <4> QED BY ONLY <4>1, <4>2
    <3> QED BY <2>1, <2>2, <3>1 DEF EngineReady, Goto
  <2>3. CASE Fault("cmd") /\ Rollback(mem) /\ UNCHANGED files
    BY <2>1, <2>3 DEF Rollback
  <2>5. CASE Doomed("mihomo") /\ Rollback(mem) /\ UNCHANGED files
    BY <2>1, <2>5 DEF Doomed, Rollback
  <2>4. ASSUME NEW i \in Fresh("mihomo"), NEW k \in BOOLEAN, NEW saved \in BOOLEAN,
               EngineSurvives(i, k, saved)
        PROVE  PfCleared'
    <3> DEFINE t == Track(mem, "mihomo", i, k)
    <3>1. /\ pc' = "tdDns" /\ failed' = FALSE /\ mem' = t
          /\ (exists' = TRUE /\ disk' = t) \/ UNCHANGED files
      BY <2>4 DEF EngineSurvives, Rollback, Saved, SaveLost
    <3>2. AlikePf(t)
      BY <1>m
    <3>3. UNCHANGED base
      BY <2>4 DEF EngineSurvives, StartFaults, FaultN
    <3> HIDE DEF t
    <3> QED BY <2>1, <3>1, <3>2, <3>3
  <2> QED BY <1>6, <2>2, <2>3, <2>4, <2>5 DEF StartEngine
<1>7. CASE IdentifyMihomo
  BY <1>7, <1>i DEF IdentifyMihomo, Identify, Goto, Rollback, Saved, SaveLost
<1>8. CASE StartBroker
  <2>1. /\ pc = "broker" /\ UNCHANGED <<anchor, pfOn, boot, base, files>>
        /\ \/ pc' = "idBroker" /\ Spent' = Spent
           \/ pc' = "tdDns" /\ Spent' /\ failed' = FALSE
    BY <1>8 DEF StartBroker, StartService, Doomed, Spawned, Goto, Rollback
  <2>2. mem' = mem \/ \E i \in Fresh("broker") : mem' = Track(mem, "broker", i, FALSE)
    BY <1>8 DEF StartBroker, StartService, Doomed, Goto, Rollback
  <2>3. AlikePf(mem')
    <3>1. ASSUME NEW i \in Fresh("broker"), mem' = Track(mem, "broker", i, FALSE)
          PROVE  AlikePf(mem')
      <4>1. AlikePf(Track(mem, "broker", i, FALSE))
        BY <1>n
      <4> QED BY ONLY <3>1, <4>1
    <3> QED BY <2>2, <3>1
  <2> QED BY <2>1, <2>3
<1>9. CASE IdentifyBroker
  BY <1>9, <1>i DEF IdentifyBroker, Identify, Goto, Rollback, Saved, SaveLost
<1>10. CASE AliasIntent
  BY <1>10, <1>a DEF AliasIntent, Goto, Rollback, Saved, SaveLost
<1>11. CASE AddAlias
  BY <1>11 DEF AddAlias, Advance, Goto, Rollback
<1>12. CASE StartDnsmasq
  <2>1. /\ pc = "dnsmasq" /\ UNCHANGED <<anchor, pfOn, boot, base, files>>
        /\ \/ pc' = "idDnsmasq" /\ Spent' = Spent
           \/ pc' = "tdDns" /\ Spent' /\ failed' = FALSE
    BY <1>12 DEF StartDnsmasq, StartService, Doomed, Spawned, Goto, Rollback
  <2>2. mem' = mem \/ \E i \in Fresh("dnsmasq") : mem' = Track(mem, "dnsmasq", i, FALSE)
    BY <1>12 DEF StartDnsmasq, StartService, Doomed, Goto, Rollback
  <2>3. AlikePf(mem')
    <3>1. ASSUME NEW i \in Fresh("dnsmasq"), mem' = Track(mem, "dnsmasq", i, FALSE)
          PROVE  AlikePf(mem')
      <4>1. AlikePf(Track(mem, "dnsmasq", i, FALSE))
        BY <1>n
      <4> QED BY ONLY <3>1, <4>1
    <3> QED BY <2>2, <3>1
  <2> QED BY <2>1, <2>3
<1>13. CASE IdentifyDnsmasq
  BY <1>13, <1>i DEF IdentifyDnsmasq, Identify, Goto, Rollback, Saved,
     SaveLost
<1>14. CASE LoadFirewall
  BY <1>14, <1>a DEF LoadFirewall, Goto, Rollback
<1>15. CASE SaveFirewall
  BY <1>15 DEF SaveFirewall, AfterFirewall, Advance, Goto, Rollback, Saved,
     SaveLost
<1>16. CASE DnsIntent
  BY <1>16, <1>a DEF DnsIntent, Goto, Rollback, Saved, SaveLost
<1>17. CASE DnsBackup
  BY <1>17 DEF DnsBackup, Advance, Goto, Rollback
<1>18. CASE DnsEnable
  BY <1>18 DEF DnsEnable, HostExceptDns, Advance, Goto, Rollback
<1>19. CASE DnsVerified
  BY <1>19 DEF DnsVerified, Advance, Goto, Rollback, Saved, SaveLost
<1>20. CASE EnableProxy
  BY <1>20 DEF EnableProxy, HostExceptProxy
<1>21. CASE FinishStart
  BY <1>21 DEF FinishStart, Return
<1>22. CASE CancelStart
  BY <1>22 DEF CancelStart, Canceled, Rollback
<1>23. CASE BeginStop
  BY <1>23 DEF BeginStop, EnterTeardown
<1>24. CASE BeginReload
  BY <1>24 DEF BeginReload, EnterTeardown
<1>25. CASE TeardownDns
  BY <1>25 DEF TeardownDns, HostExceptDns, Advance, Goto
<1>26. CASE TeardownProxy
  BY <1>26 DEF TeardownProxy, HostExceptProxy, Advance, Goto, Return
<1>27. CASE TeardownDnsmasq
  BY <1>27 DEF TeardownDnsmasq, TeardownProcess, StopError, StopTracked,
     SignalPid, Stopped, Exited, Killed, Present, HostExceptProcs
<1>28. CASE TeardownAlias
  <2>1. /\ pc = "tdAlias" /\ pc' = "tdBroker"
        /\ UNCHANGED <<anchor, pfOn, boot, base, files, mem>>
        /\ (failed' = failed /\ Spent' = Spent) \/ (failed' = TRUE /\ ~Spent)
    BY <1>28 DEF TeardownAlias
  <2> QED BY <2>1
<1>29. CASE TeardownBroker
  BY <1>29 DEF TeardownBroker, TeardownProcess, StopError, StopTracked,
     SignalPid, Stopped, Exited, Killed, Present, HostExceptProcs
<1>30. CASE TeardownMihomo
  BY <1>30 DEF TeardownMihomo, TeardownProcess, StopError, StopTracked,
     SignalPid, Stopped, Exited, Killed, Present, HostExceptProcs
<1>31. CASE TeardownFirewall
  BY <1>31 DEF TeardownFirewall
<1>32. CASE TeardownForwarding
  BY <1>32 DEF TeardownForwarding
<1>33. CASE TeardownFinish
  BY <1>33 DEF TeardownFinish, Return
<1>34. CASE BeginRestart
  <2>1. /\ pc = "idle" /\ pc' = "rsMark" /\ exists /\ disk.boot = boot
        /\ UNCHANGED <<anchor, pfOn, boot, base, exists, disk>>
        /\ \E k \in BOOLEAN : mem' = Restarting(k)
    BY <1>34 DEF BeginRestart, HostExceptDns, IInv, TypeOK, FilesType, State
  <2>2. /\ mem'.boot = disk.boot /\ mem'.pfBefore = disk.pfBefore
        /\ mem'.pfLoaded = disk.pfLoaded
    BY <2>1, RestartingIs DEF IInv
  <2> QED BY <2>1, <2>2
<1>35. CASE RestartMark
  BY <1>35 DEF RestartMark, Advance, Goto, Saved, SaveLost, Return
<1>36. CASE RestartStop
  <2>1. CASE StopTracked("mihomo", prev.pid, prev.known) /\ Advance("rsSpawn") /\ UNCHANGED files
    <3>1. UNCHANGED <<anchor, pfOn, boot, base>>
      BY <2>1 DEF StopTracked, SignalPid, Stopped, Exited, Killed,
         HostExceptProcs,
         book, Fine
    <3> QED BY <1>36, <2>1, <3>1 DEF RestartStop, Advance, Goto
  <2>2. ASSUME NEW t, AlikePf(t), Return, UNCHANGED <<anchor, pfOn, boot, base>>,
               (exists' = TRUE /\ disk' = t) \/ UNCHANGED files, pc = "rsStop"
        PROVE  PfCleared'
    BY <2>2 DEF Return
  <2>3. AlikePf(mem)
    OBVIOUS
  <2>4. \/ StopTracked("mihomo", prev.pid, prev.known) /\ Advance("rsSpawn") /\ UNCHANGED files
        \/ /\ Return /\ UNCHANGED <<anchor, pfOn, boot, base>> /\ pc = "rsStop"
           /\ \E t \in {mem, Track(mem, "mihomo", prev.pid, prev.known)} :
                (exists' = TRUE /\ disk' = t) \/ UNCHANGED files
    BY <1>36, ZenonT(60) DEF RestartStop, HostExceptProxy, Saved, SaveLost,
       FaultN
  <2> QED BY <1>s, <2>1, <2>2, <2>3, <2>4
<1>37. CASE RestartSpawn
  <2>1. pc = "rsSpawn" /\ UNCHANGED <<anchor, pfOn, boot>>
    BY <1>37 DEF RestartSpawn, Doomed, EngineReady, RestartFails,
       RestartSurvives,
       Spawned, HostExceptProxy
  <2>2. CASE EngineReady("rsIdentify")
    <3>1. AlikePf(mem')
      <4>1. PICK i \in Fresh("mihomo") : mem' = Track(mem, "mihomo", i, FALSE)
        BY <2>2 DEF EngineReady
      <4>2. AlikePf(Track(mem, "mihomo", i, FALSE))
        BY <1>n
      <4> QED BY ONLY <4>1, <4>2
    <3>2. pc' = "rsIdentify" /\ UNCHANGED files /\ Fine
      BY <2>2 DEF EngineReady, Goto
    <3> QED BY <2>1, <3>1, <3>2
  <2>3. ASSUME NEW lost \in BOOLEAN, RestartFails(lost)
        PROVE  PfCleared'
    BY <2>1, <2>3 DEF RestartFails, Return
  <2>4. ASSUME NEW i \in Fresh("mihomo"), NEW k \in BOOLEAN, NEW saved \in BOOLEAN,
               RestartSurvives(i, k, saved)
        PROVE  PfCleared'
    <3> DEFINE t == Track(mem, "mihomo", i, k)
    <3>1. /\ pc' = "idle" /\ mem' = Blank
          /\ (exists' = TRUE /\ disk' = t) \/ UNCHANGED files
      BY <2>4 DEF RestartSurvives, Return, Saved, SaveLost
    <3>2. AlikePf(t)
      BY <1>m
    <3>3. UNCHANGED base
      BY <2>4 DEF RestartSurvives, StartFaults, FaultN
    <3> HIDE DEF t
    <3> QED BY <2>1, <3>1, <3>2, <3>3
  <2>5. CASE Doomed("mihomo") /\ Return /\ UNCHANGED files
    BY <2>1, <2>5 DEF Doomed, Return
  <2> QED BY <1>37, <2>2, <2>3, <2>4, <2>5 DEF RestartSpawn
<1>38. CASE RestartIdentify
  BY <1>38, <1>i DEF RestartIdentify, ProxyAfter, Goto, Return, Saved,
     SaveLost
<1>39. CASE RestartBackup
  BY <1>39 DEF RestartBackup, Advance, Goto, Return
<1>40. CASE RestartEnable
  BY <1>40 DEF RestartEnable, HostExceptDns, Return, Saved, SaveLost
<1>41. CASE ChildExits
  BY <1>41 DEF ChildExits, Exited, HostExceptProcs
<1>kg. CASE KilledGoes
  BY <1>kg DEF KilledGoes, HostExceptProcs
<1>42. CASE PidReused
  BY <1>42 DEF PidReused, HostExceptProcs
<1>43. CASE Crash
  BY <1>43 DEF Crash, Fault, FaultN
<1>44. CASE Reboot
  <2>1. /\ anchor' = FALSE /\ pfOn' = base'.pf /\ mem' = Blank /\ pc' = "idle"
        /\ boot' = boot + 1 /\ UNCHANGED files
    BY <1>44 DEF Reboot, Return
  <2>2. exists => disk.boot # boot' /\ boot' # 0
    BY <2>1 DEF IInv, Evidence, TypeOK, HostType, FilesType, State
  <2>3. boot' # 0
    BY <2>1 DEF IInv, TypeOK, HostType
  <2> QED BY <2>1, <2>2, <2>3, BlankIs
<1>45. CASE UserEditsDns
  BY <1>45 DEF UserEditsDns, HostExceptDns
<1>46. CASE UNCHANGED vars
  BY <1>46 DEF vars, book
<1> QED BY <1>1, <1>2, <1>3, <1>4, <1>5, <1>6, <1>7, <1>8, <1>9, <1>10, <1>11,
   <1>12, <1>13, <1>14, <1>15, <1>16, <1>17, <1>18, <1>19, <1>20, <1>21,
   <1>22, <1>23, <1>24, <1>25, <1>26, <1>27, <1>28, <1>29, <1>30, <1>31,
   <1>32, <1>33, <1>34, <1>35, <1>36, <1>37, <1>38, <1>39, <1>40, <1>41, <1>kg,
   <1>42, <1>43, <1>44, <1>45, <1>46 DEF Next, Start, Teardown, Restart,
   Environment

-----------------------------------------------------------------------------
(***************************************************************************)
(* What follows: processes, PF and proxy after, and during, an operation.  *)
(***************************************************************************)
\* The invariants above together; each is preserved with the help of IInv and
\* of those before it.
Accounted == /\ Apart /\ Copies /\ Progress /\ Marked
             /\ Served /\ Rebooted /\ Recorded /\ Firewalled

\* Before the first start nothing runs and nothing is recorded.
LEMMA AccountedInit == Init => Accounted
<1> SUFFICES ASSUME Init PROVE Accounted
  OBVIOUS
<1>1. Apart /\ Marked /\ Rebooted
  BY BlankIs DEF Init, Apart, Marked, Known, Rebooted
<1>2. Copies
  BY BlankIs DEF Init, Copies, Synced, Ahead, Pending, StartStages,
     RestartStages, TeardownStages, Roles
<1>3. Progress
  BY DEF Init, Progress, LateStages, StartStages
<1>4. Served
  BY DEF Init, Served, EngineServes, Engined, StartStages
<1>5. Recorded
  BY DEF Init, Recorded, Held, Gone, Roles
<1>6. Firewalled
  BY BlankIs DEF Init, Firewalled, PfCleared, Clean, CleanStages, BeforeFlush,
     StartStages, RestartStages, LiveBoot
<1> QED BY <1>1, <1>2, <1>3, <1>4, <1>5, <1>6 DEF Accounted

\* No step breaks any of them.
LEMMA AccountedStep == IInv /\ Accounted /\ [Next]_vars => Accounted'
<1> SUFFICES ASSUME IInv, Accounted, [Next]_vars
             PROVE  Accounted'
  OBVIOUS
<1>1. Apart'
  BY ApartStep DEF IInv, Accounted
<1>2. Copies' /\ Progress' /\ Marked'
  BY CopiesStep, ProgressStep, MarkedStep DEF Accounted
<1>3. Served' /\ Rebooted' /\ Recorded' /\ Firewalled'
  BY ServedStep, RebootedStep, RecordedStep, FirewalledStep DEF Accounted
<1> QED BY <1>1, <1>2, <1>3 DEF Accounted

\* Every process that was not killed, and PF, is accounted for in every
\* reachable state: also the engine whose start or stop fell short.
THEOREM AccountedAlways == Spec => []Accounted
<1> QED BY AccountedInit, AccountedStep, InvariantCorrect, PTL DEF Spec

\* No step of start, rollback, stop or reload stops or kills a child while the Mac's
\* proxy still points at the gateway: the teardown restores the proxy before it
\* stops the first service (gateway/manager.go), whatever failed before.
THEOREM ProxyGoesFirstAlways == Spec => ProxyGoesFirst
<1>1. ASSUME IInv, Copies, [Next]_vars, op # "restart", pc' # pc,
             boot' = boot, proxy = "ours", NEW r \in Roles
      PROVE  alive[r] \subseteq alive'[r]
  <2>1. pc \notin StopStages \cup RestartStages
    BY <1>1 DEF Copies, IInv, Undone, AfterProxy, TeardownStages, StopStages
  <2>2. ASSUME NEW q \in Roles, NEW i \in Inst, Starts(q, i)
        PROVE  alive[r] \subseteq alive'[r]
    BY <1>1, <2>2 DEF Starts, IInv, TypeOK, HostType
  <2>3. ~Reboot
    BY <1>1 DEF Reboot, IInv, TypeOK, HostType
  <2>4. PidReused => UNCHANGED alive
    BY DEF PidReused
  <2> QED BY <1>1, <2>1, <2>2, <2>3, <2>4, ProcessStep
<1>2. IInv /\ Accounted /\ [Next]_vars
        => [(op # "restart" /\ pc' # pc /\ boot' = boot /\ proxy = "ours")
              => \A r \in Roles : alive[r] \subseteq alive'[r]]_vars
  BY <1>1 DEF Accounted
<1> QED BY <1>2, InvariantCorrect, AccountedAlways, PTL DEF Spec,
   ProxyGoesFirst

\* As long as fingerprints can be read and saved, no process that merely got
\* the PID of a former child is ever signalled: every recorded PID that can
\* have been reused is recorded with the fingerprint that tells.
THEOREM NoStrayKillAlways == Spec => []NoStrayKill
<1>1. Accounted => NoStrayKill
  BY DEF Accounted, Marked, Known, NoStrayKill
<1> QED BY <1>1, AccountedAlways, PTL

\* As long as the proxy can be restored, no operation returns with the Mac's
\* proxy pointing at a gateway that has no engine, or one that was killed.
THEOREM NoDeadProxyAlways == Spec => []NoDeadProxy
<1>1. Accounted => NoDeadProxy
  BY DEF Accounted, Served, EngineServes, NoDeadProxy, AtRest
<1> QED BY <1>1, AccountedAlways, PTL

\* Nothing the gateway made is left without a record that finds it: what a
\* finished start made, children that were not killed and the anchor after a stop, the engine after any
\* operation.
THEOREM NothingOrphanedAlways == Spec => []NothingOrphaned
<1>1. IInv /\ Accounted => FinishedStartIsRecoverable
  <2> SUFFICES ASSUME IInv, Accounted, pc = "final"
               PROVE  /\ exists /\ disk = mem /\ disk.boot = boot
                      /\ disk.pfLoaded
                      /\ \A r \in Roles : (r = "broker" => disk.ipv6) =>
                            disk.pid[r] # NoPid /\ disk.known[r]
                      /\ (disk.dns # "none") => disk.dnsOwned
    BY DEF FinishedStartIsRecoverable
  <2>1. exists /\ mem.boot = boot
    BY DEF IInv, Memory, StartStages
  <2>2. disk = mem
    BY DEF Accounted, Copies, Synced, StartStages
  <2>3. /\ mem.pfLoaded /\ Named(mem, "mihomo") /\ Named(mem, "dnsmasq")
        /\ mem.ipv6 => Named(mem, "broker")
        /\ mem.dns # "none" => mem.dnsOwned
    BY DEF Accounted, Progress, LateStages, StartStages
  <2> QED BY <2>1, <2>2, <2>3 DEF Named, Roles
<1>2. Accounted => StoppedMeansNoChild /\ EngineIsOwned
  BY DEF Accounted, Recorded, Held, Pending, Roles, StoppedMeansNoChild,
     NoChildLeft, EngineIsOwned, AtRest
<1>3. Accounted => StoppedMeansNoAnchor
  BY DEF Accounted, Firewalled, PfCleared, Clean, BeforeFlush,
     StoppedMeansNoAnchor, NoAnchorLeft, AtRest
<1>4. IInv /\ Accounted => NothingOrphaned
  BY <1>1, <1>2, <1>3 DEF NothingOrphaned
<1> QED BY <1>4, InvariantCorrect, AccountedAlways, PTL
=============================================================================
