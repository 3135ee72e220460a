--------------------------- MODULE RecoveryStages ---------------------------
(***************************************************************************)
(* Taking over DHCP on an existing LAN (controlapi/server.go).  The user   *)
(* turns the router's DHCP off, the Mac gets a fixed IPv4 address, the     *)
(* gateway serves the LAN, and afterwards all of it is put back.           *)
(* recovery.json records how far that has come and, in a snapshot, how the *)
(* Mac was configured before.                                              *)
(*                                                                         *)
(* Every handler reads the whole record, works on the network for seconds  *)
(* and writes the whole record back.  Gateway operations hold lifecycleMu  *)
(* and run in the background; the recovery handlers do not take it.  A     *)
(* client (a browser page, the desktop app) has one request at a time.     *)
(***************************************************************************)
EXTENDS Naturals

CONSTANTS
    Clients,
    Faults,      \* the kinds of failure this instance may inject
    MaxFaults    \* how many of them

FaultKinds == {"call", "save", "crash", "reboot"}

ASSUME RecoveryAssumption == /\ MaxFaults \in Nat /\ Faults \subseteq FaultKinds
                             /\ "nobody" \notin Clients

VARIABLES
    rec,      \* recovery.json: stage and how the snapshot found the Mac
    card,     \* the offline recovery card exists
    mac,      \* IPv4 mode of the Mac
    router,   \* the router's own DHCP server answers
    gw,       \* the gateway: stopped, running, or left half cleaned up
    gop,      \* the operation under lifecycleMu and the record it read
    req,      \* the request each client waits for
    proven,   \* no DHCP server answered a probe since the Mac is fixed
    course,   \* history: requests overlapped, or came that no page offers
    left      \* fault budget

net  == <<mac, router, gw>>
vars == <<rec, card, net, gop, req, proven, course, left>>

Setup   == {"prepared", "mac_static", "confirmed"}
Serving == {"active", "validated", "skipped"}
Undoing == {"waiting", "restored"}
Ended   == {"complete", "complete_static"}
Stages  == {"idle"} \cup Setup \cup Serving \cup Undoing \cup Ended

Record  == [stage : Stages, snap : {"none", "dhcp", "static"}]
Empty   == [stage |-> "idle", snap |-> "none"]
At(r, s) == [r EXCEPT !.stage = s]

Handlers == {"prepare", "static", "probe", "abandon", "validated", "skip",
             "restored", "manual", "keep", "dhcp", "notes", "config"}
GatewayOps == {"start", "stop", "reload"}
NoReq == [kind |-> "none", phase |-> "none", seen |-> Empty]
NoOp  == [kind |-> "none", before |-> Empty, by |-> "nobody"]

TypeOK ==
    /\ rec \in Record /\ card \in BOOLEAN
    /\ mac \in {"dhcp", "static"} /\ router \in BOOLEAN
    /\ gw \in {"stopped", "running", "partial"}
    /\ gop \in [kind : GatewayOps \cup {"none"}, before : Record,
                by : Clients \cup {"nobody"}]
    /\ req \in [Clients -> [kind : Handlers \cup GatewayOps \cup {"none"},
                            phase : {"none", "work", "restore", "save", "card"},
                            seen : Record]]
    /\ proven \in BOOLEAN /\ left \in 0..MaxFaults
    /\ course \subseteq {"overlap", "offPage"}

Init ==
    /\ rec = Empty /\ card = FALSE
    /\ mac \in {"dhcp", "static"} /\ router = TRUE /\ gw = "stopped"
    /\ gop = NoOp /\ req = [c \in Clients |-> NoReq]
    /\ proven = FALSE /\ left = MaxFaults /\ course = {}

Fine == UNCHANGED left
Fault(kind) == kind \in Faults /\ left > 0 /\ left' = left - 1

Answer(c) == req' = [req EXCEPT ![c] = NoReq]
Reach(c, phase, seen) ==
    req' = [req EXCEPT ![c].phase = phase, ![c].seen = seen]

-----------------------------------------------------------------------------
(***************************************************************************)
(* The recovery handlers: check the record, then work, then save.          *)
(***************************************************************************)
AcceptedAt(k) == CASE k = "static" -> {"prepared"}
                   [] k = "probe" -> {"mac_static"}
                   [] k = "abandon" -> {"mac_static", "confirmed"}
                   [] k \in {"validated", "skip"} -> {"active"}
                   [] k \in {"restored", "manual"} -> {"waiting"}
                   [] k = "keep" -> Undoing
                   [] k = "dhcp" -> {"restored"}
                   [] k = "config" -> {"idle", "prepared"} \cup Ended
                   [] k \in {"prepare", "notes"} -> Stages

NeedsSnapshot == {"static", "abandon", "restored", "manual", "keep", "dhcp"}
OnlySaves     == {"validated", "skip", "keep", "notes"}

\* The stage a handler ends in when every call it makes succeeds.
Leads(k, s) == CASE k = "prepare" -> "prepared"
                 [] k = "static" -> "mac_static"
                 [] k = "probe" -> "confirmed"
                 [] k = "validated" -> "validated"
                 [] k = "skip" -> "skipped"
                 [] k = "restored" -> "restored"
                 [] k \in {"abandon", "manual", "dhcp"} -> "complete"
                 [] k = "keep" -> "complete_static"
                 [] k \in {"notes", "config"} -> s

Accepted(k) == /\ rec.stage \in AcceptedAt(k)
               /\ k \in NeedsSnapshot => rec.snap # "none"
               /\ k = "abandon" => gw = "stopped"

Begin(c, k) ==
    /\ req[c] = NoReq /\ Accepted(k)
    /\ req' = [req EXCEPT ![c] =
                 [kind |-> k, phase |-> IF k \in OnlySaves THEN "save" ELSE "work",
                  seen |-> At(rec, Leads(k, rec.stage))]]
    /\ UNCHANGED <<rec, card, net, gop, proven>> /\ Fine

Working(c, k) == req[c].kind = k /\ req[c].phase = "work"

\* The call fails before it has done anything.
CallFails(c) ==
    /\ req[c].phase \in {"work", "restore"} /\ req[c].kind \notin GatewayOps
    /\ Answer(c) /\ Fault("call")
    /\ UNCHANGED <<rec, card, net, gop, proven>>

\* handleRecoveryPrepare: discover the network and take the snapshot.
Discover(c) ==
    /\ Working(c, "prepare") /\ UNCHANGED <<rec, card, net, gop, proven>> /\ Fine
    /\ Reach(c, "save", [stage |-> "prepared", snap |-> mac])

\* handleApplyStatic: networksetup -setmanual, read back, ping the router.
\* The read-back or the ping may fail after the address was set.
SetManual(c) ==
    /\ Working(c, "static") /\ mac' = "static" /\ proven' = FALSE
    /\ \/ Reach(c, "save", req[c].seen) /\ Fine
       \/ Answer(c) /\ Fault("call")
    /\ UNCHANGED <<rec, card, router, gw, gop>>

\* A DHCP server answers: the router, or the gateway's own dnsmasq.
Answering == {router} \cup (IF gw = "running" THEN {TRUE} ELSE {})

\* Mutant: an OFFER does not stop the confirmation.
ProbeIgnoresOffer(c) ==
    /\ Working(c, "probe") /\ UNCHANGED <<rec, card, net, gop>> /\ Fine
    /\ \E offer \in Answering : proven' = ~offer
    /\ Reach(c, "save", req[c].seen)

ProbeOff(c) ==
    /\ Working(c, "probe") /\ UNCHANGED <<rec, card, net, gop>> /\ Fine
    /\ \E offer \in Answering :
          IF offer THEN Answer(c) /\ UNCHANGED proven
                   ELSE Reach(c, "save", req[c].seen) /\ proven' = TRUE

ProbeRestored(c) ==
    /\ Working(c, "restored") /\ UNCHANGED <<rec, card, net, gop, proven>> /\ Fine
    /\ \E offer \in Answering :
          IF offer THEN Reach(c, "save", req[c].seen) ELSE Answer(c)

\* handleAbandonTakeover: automatic DHCP if somebody offers it, else stay fixed.
ProbeAbandon(c) ==
    /\ Working(c, "abandon") /\ UNCHANGED <<rec, card, net, gop, proven>> /\ Fine
    /\ \E offer \in Answering :
          IF offer THEN Reach(c, "restore", req[c].seen)
                   ELSE Reach(c, "save", At(req[c].seen, "complete_static"))

\* networksetup -setdhcp, then the name servers are cleared, which may fail with
\* the Mac on automatic DHCP already.
SetDHCP(c) ==
    /\ Working(c, "manual") \/ Working(c, "dhcp") \/ req[c].phase = "restore"
    /\ mac' = "dhcp" /\ proven' = FALSE
    /\ \/ Reach(c, "save", req[c].seen) /\ Fine
       \/ Answer(c) /\ Fault("call")
    /\ UNCHANGED <<rec, card, router, gw, gop>>

\* ApplyControlConfig: refused while the gateway runs or the helper is busy with
\* an operation; one that was just accepted may not have reached the helper.
ApplyConfig(c) ==
    /\ Working(c, "config") /\ UNCHANGED <<rec, card, net, gop, proven>> /\ Fine
    /\ \/ gw = "stopped" /\ Reach(c, "save", req[c].seen)
       \/ (gw # "stopped" \/ gop # NoOp) /\ Answer(c)

\* SaveRecovery replaces the whole record, whatever it says by now.
Save(c) ==
    /\ req[c].phase = "save" /\ req[c].kind # "config"
    /\ UNCHANGED <<card, net, gop, proven>>
    /\ \/ /\ rec' = req[c].seen /\ Fine
          /\ IF req[c].kind = "prepare" THEN Reach(c, "card", req[c].seen)
                                        ELSE Answer(c)
       \/ UNCHANGED rec /\ Answer(c) /\ Fault("save")

\* The card is written after the record; without it the record goes back.
SaveCard(c) ==
    /\ req[c].phase = "card" /\ Answer(c) /\ UNCHANGED <<net, gop, proven>>
    /\ \/ card' = TRUE /\ UNCHANGED rec /\ Fine
       \/ UNCHANGED card /\ rec' = Empty /\ Fault("save")

\* DiscardPreparedRecovery checks the stage again, under the store's mutex.
Discard(c) ==
    /\ req[c] = NoReq /\ rec.stage = "prepared"
    /\ UNCHANGED <<net, gop, req, proven>>
    /\ \/ rec' = Empty /\ card' = FALSE /\ Fine
       \/ UNCHANGED <<rec, card>> /\ Fault("save")

\* Mutant: the discard trusts the stage that was read before the helper call.
SaveConfigStale(c) ==
    /\ req[c].phase = "save" /\ req[c].kind = "config" /\ Answer(c)
    /\ UNCHANGED <<net, gop, proven>> /\ Fine /\ rec' = Empty
    /\ card' = (card /\ req[c].seen.stage # "prepared")

\* handleControlConfig: a prepared takeover is discarded, an ended one reset.
SaveConfig(c) ==
    /\ req[c].phase = "save" /\ req[c].kind = "config" /\ Answer(c)
    /\ UNCHANGED <<net, gop, proven>>
    /\ \/ /\ req[c].seen.stage # "prepared" /\ Fine
          /\ rec' = Empty /\ UNCHANGED card
       \/ /\ req[c].seen.stage = "prepared" /\ rec.stage = "prepared" /\ Fine
          /\ rec' = Empty /\ card' = FALSE
       \/ /\ req[c].seen.stage = "prepared" /\ rec.stage # "prepared" /\ Fine
          /\ UNCHANGED <<rec, card>>
       \/ UNCHANGED <<rec, card>> /\ Fault("save")

-----------------------------------------------------------------------------
(***************************************************************************)
(* Gateway operations in the background, one at a time.                    *)
(***************************************************************************)
\* Mutant: start does not ask for the confirmation.
StartUnconfirmed == gw = "stopped"

MayStart  == rec.stage = "confirmed" /\ gw = "stopped"
MayReload == rec.stage \in Serving /\ gw = "running"

BeginGateway(c, k) ==
    /\ req[c] = NoReq /\ gop = NoOp
    /\ (k = "start" => MayStart) /\ (k = "reload" => MayReload)
    /\ gop' = [kind |-> k, before |-> rec, by |-> c]
    /\ req' = [req EXCEPT ![c] = [kind |-> k, phase |-> "work", seen |-> rec]]
    /\ UNCHANGED <<rec, card, net, proven>> /\ Fine

\* The operation ends in gateway state g; the record is written (an error is
\* ignored) and lifecycleMu released, with nothing slow in between.
EndGateway(g, record) ==
    /\ gw' = g /\ gop' = NoOp
    /\ rec' = record \/ ("save" \in Faults /\ UNCHANGED rec)
    /\ req' = [c \in Clients |-> IF c = gop.by THEN NoReq ELSE req[c]]
    /\ UNCHANGED <<card, mac, router, proven>>

\* Start needs the configured LAN address on the interface.
StartDone ==
    /\ gop.kind = "start" /\ mac = "static"
    /\ EndGateway("running", At(rec, "active")) /\ Fine

\* A start that was rolled back keeps the stage it began with; one that left
\* runtime state, or ended well and its answer was lost, is not recorded.
StartFails ==
    /\ gop.kind = "start"
    /\ (mac = "dhcp" /\ Fine) \/ Fault("call")
    /\ \/ EndGateway("stopped", gop.before)
       \/ EndGateway("partial", rec)
       \/ mac = "static" /\ EndGateway("running", rec)

StopDone ==
    /\ gop.kind = "stop"
    /\ EndGateway("stopped", At(rec, "waiting")) /\ Fine

\* Mutant: a stop that failed is recorded like one that succeeded.
StopFailsRecorded ==
    /\ gop.kind = "stop" /\ Fault("call")
    /\ \E g \in {gw, "partial", "stopped"} : EndGateway(g, At(rec, "waiting"))

StopFails ==
    /\ gop.kind = "stop" /\ Fault("call")
    /\ \E g \in {gw, "partial", "stopped"} : EndGateway(g, rec)

ReloadDone ==
    /\ gop.kind = "reload" /\ mac = "static"
    /\ EndGateway("running", rec) /\ Fine

\* recordReloadRecoveryFailure: only a gateway found stopped lowers the stage,
\* and not after a stop that failed or a status that could not be read.
ReloadFails ==
    /\ gop.kind = "reload" /\ Fault("call")
    /\ \/ \E g \in {"running", "partial", "stopped"} : EndGateway(g, gop.before)
       \/ EndGateway("stopped", At(gop.before, "confirmed"))

-----------------------------------------------------------------------------
(***************************************************************************)
(* What the control service does not control.                              *)
(***************************************************************************)
\* Outcomes of a helper operation nobody waits for any more.
Orphaned == CASE gop.kind = "start"  -> {"stopped", "partial"} \cup
                                        (IF mac = "static" THEN {"running"} ELSE {})
              [] gop.kind = "stop"   -> {"stopped", gw, "partial"}
              [] gop.kind = "reload" -> {"stopped", "running", "partial"}
              [] gop.kind = "none"   -> {gw}

Forgotten == gop' = NoOp /\ req' = [c \in Clients |-> NoReq]

\* The control service dies; the helper finishes what it was told to do.
ServiceCrash ==
    /\ Fault("crash") /\ gw' \in Orphaned /\ Forgotten
    /\ UNCHANGED <<rec, card, mac, router, proven>>

\* A reboot ends the gateway and leaves its runtime state.
Reboot ==
    /\ Fault("reboot") /\ Forgotten
    /\ gw' \in {IF g = "stopped" THEN g ELSE "partial" : g \in Orphaned}
    /\ UNCHANGED <<rec, card, mac, router, proven>>

\* Only a person turns the router's DHCP server off and on.
UserTogglesRouter ==
    /\ router' = ~router /\ Fine
    /\ UNCHANGED <<rec, card, mac, gw, gop, req, proven>>

Handle(c) == \/ \E k \in Handlers : Begin(c, k)
             \/ \E k \in GatewayOps : BeginGateway(c, k)
             \/ CallFails(c) \/ Discover(c) \/ SetManual(c) \/ ProbeOff(c)
             \/ ProbeRestored(c) \/ ProbeAbandon(c) \/ SetDHCP(c)
             \/ ApplyConfig(c) \/ Save(c) \/ SaveCard(c) \/ Discard(c)
             \/ SaveConfig(c)
Operate == \/ StartDone \/ StartFails \/ StopDone \/ StopFails
           \/ ReloadDone \/ ReloadFails
Step == \/ \E c \in Clients : Handle(c)
        \/ Operate
        \/ ServiceCrash \/ Reboot \/ UserTogglesRouter

\* Two clients have a request each, or one of them discards the record under
\* the other's request.
Overlaps == \/ \E c, d \in Clients : c # d /\ req'[c] # NoReq /\ req'[d] # NoReq
            \/ rec' # rec /\ req' = req /\ \E c \in Clients : req[c] # NoReq

\* The network page has no button to prepare a recovery that is under way, nor
\* to stop a gateway that does not run.  Every other button mirrors the
\* handler's own check.
Offered(k) == /\ k = "prepare" => rec.stage \in {"idle"} \cup Ended
              /\ k = "stop" => rec.stage \in Serving \/ gw # "stopped"
OffPage == \E c \in Clients : /\ req[c] = NoReq /\ req'[c] # NoReq
                              /\ ~Offered(req'[c].kind)

Next == /\ Step
        /\ course' = course \cup {h \in {"overlap", "offPage"} :
                          (h = "overlap" /\ Overlaps) \/ (h = "offPage" /\ OffPage)}

Spec == Init /\ [][Next]_vars

-----------------------------------------------------------------------------
\* Some promises are made to one window at a time, some to a client that calls
\* only what the network page offers, some to both.
OneWindow == "overlap" \notin course
OnPage    == "offPage" \notin course

\* The stages of dhcp-recovery.md, with the exits that document describes
\* further on: abandon, manual finish, discard, and a failed reload.
Documented ==
    {<<"idle", "prepared">>, <<"prepared", "idle">>, <<"prepared", "mac_static">>,
     <<"mac_static", "confirmed">>, <<"confirmed", "active">>,
     <<"active", "validated">>, <<"active", "skipped">>,
     <<"waiting", "restored">>, <<"waiting", "complete">>, <<"restored", "complete">>}
    \cup (Serving \X {"waiting", "confirmed"}) \cup {<<"confirmed", "waiting">>}
    \cup (({"mac_static", "confirmed"} \cup Undoing) \X Ended)
    \cup (Ended \X {"idle", "prepared"})

\* recovery.json moves only along the documented stages.
StagesFollowDoc ==
    [][course' = {} /\ rec'.stage # rec.stage => <<rec.stage, rec'.stage>> \in Documented]_vars

\* Whatever failed, crashed or was abandoned: the Mac is never on automatic
\* DHCP while its own gateway serves the LAN.
GatewayNeedsStatic == OneWindow /\ gw = "running" => mac = "static"

\* The gateway starts to serve only after a probe of this takeover found no
\* other DHCP server ("start requires persisted confirmation").
StartHasEvidence == [][OneWindow /\ gw = "stopped" /\ gw' = "running" => proven]_vars

\* A recovery that ended leaves no gateway running, not even one that a start
\* in another window brings up meanwhile.
EndedIsStopped == OnPage /\ rec.stage \in Ended => gw = "stopped"

\* A recovery that says it ended has ended: no gateway runs, and "complete"
\* means that the Mac is on automatic DHCP again.
EndedMeansEnded ==
    OnPage /\ OneWindow => EndedIsStopped /\ (rec.stage = "complete" => mac = "dhcp")

\* The recovery card survives every takeover that has changed the network: it is
\* destroyed only while the record says "prepared", however windows interleave.
CardKept == [][card /\ ~card' => rec.stage = "prepared"]_vars

\* A gateway that runs is never hidden from the recovery record, so that stop
\* and the steps after it stay on offer.
RunningIsRecorded ==
    OnPage /\ OneWindow /\ gw # "stopped" => rec.stage \in Serving \cup {"confirmed"}

\* No stage beyond idle lacks the snapshot that every way out of it needs.
EveryStageHasSnapshot == rec.stage # "idle" => rec.snap # "none"
WayOutKept == OnPage /\ OneWindow => EveryStageHasSnapshot

\* The record agrees with the Mac whatever failed, died or was asked for: its
\* gateway serves from a fixed address, is on record while it runs and gone
\* when the record says so, and every stage has the snapshot to leave it by.
RecordIsTrue == GatewayNeedsStatic /\ EndedMeansEnded /\ RunningIsRecorded /\ WayOutKept

\* While no request is under way, "prepared" says that the Mac has not been
\* changed yet (dhcp-recovery.md), so that discarding the snapshot is safe.
PreparedMeansUntouched ==
    OnPage /\ rec.stage = "prepared" /\ (\A c \in Clients : req[c] = NoReq) => mac = rec.snap

\* A takeover is prepared only when none is under way (the transition table
\* allowedRecoveryTransition of server.go, which no handler consults).
PreparedOnlyAfresh ==
    [][rec'.stage = "prepared" => rec.stage \in {"idle", "prepared"} \cup Ended]_vars
=============================================================================
