------------------------ MODULE RecoveryStagesProofs ------------------------
(***************************************************************************)
(* The record of a takeover agrees with the Mac, one window at a time, for *)
(* any number of failures, crashes and reboots; and the recovery card is   *)
(* kept, however many windows there are.                                   *)
(***************************************************************************)
EXTENDS RecoveryStages, TLAPS

(***************************************************************************)
(* The inductive invariant.                                                *)
(***************************************************************************)
Phases == {"none", "work", "restore", "save", "card"}
Requests == [kind : Handlers \cup GatewayOps \cup {"none"}, phase : Phases, seen : Record]

\* The operation under lifecycleMu is that of the client who waits for it.
Busy(c) == req[c].kind # "none"
Linked ==
    /\ gop.kind = "none" => gop = NoOp
    /\ gop.kind # "none" => gop.by \in Clients /\ req[gop.by].kind = gop.kind
    /\ \A c \in Clients :
          /\ ~Busy(c) => req[c] = NoReq
          /\ req[c].kind \in GatewayOps => req[c].phase = "work" /\ gop.kind # "none" /\ gop.by = c
          /\ req[c].phase \in {"restore", "save", "card"} => req[c].kind \in Handlers
          /\ req[c].phase = "restore" => req[c].kind = "abandon"
          /\ req[c].phase = "card" => req[c].kind = "prepare"

Alone == \A c, d \in Clients : Busy(c) /\ Busy(d) => c = d

\* What a request q has found is still so when it is alone.
HeldBy(q) ==
    /\ q.kind \in Handlers /\ q.phase \in {"work", "restore", "save"} =>
          /\ rec.stage \in AcceptedAt(q.kind)
          /\ q.kind \in NeedsSnapshot => rec.snap # "none"
          /\ q.kind = "abandon" => gw = "stopped"
          /\ q.kind # "prepare" => q.seen.snap = rec.snap
          /\ \/ q.seen.stage = Leads(q.kind, rec.stage)
             \/ q.kind = "abandon" /\ q.phase = "save" /\ q.seen.stage = "complete_static"
    /\ q.phase = "save" =>
          /\ q.kind = "prepare" => q.seen.snap # "none"
          /\ q.kind \in {"manual", "dhcp", "abandon"} /\ q.seen.stage = "complete" => mac = "dhcp"
          /\ q.kind = "probe" => proven
    /\ q.phase = "card" => rec.stage = "prepared"
    /\ OnPage /\ q.kind = "prepare" /\ q.phase \in {"work", "save"} =>
          rec.stage \in {"idle"} \cup Ended
Held == \A c \in Clients : HeldBy(req[c])

\* The same of the operation in the background.
Started ==
    /\ gop.kind # "none" => gop.before = rec
    /\ gop.kind = "start" => rec.stage = "confirmed" /\ gw = "stopped"
    /\ gop.kind = "reload" => rec.stage \in Serving /\ gw = "running"
    /\ OnPage /\ gop.kind = "stop" => rec.stage \in Serving \cup {"confirmed"}

\* Network and record, whatever is called.
Network ==
    /\ gw = "running" => mac = "static"
    /\ rec.stage \in Undoing => gw # "running"
    /\ rec.stage \in {"confirmed"} \cup Serving /\ mac = "static" => proven

\* Network and record, when the page is used.
Paged ==
    /\ gw # "stopped" => rec.stage \in Serving \cup {"confirmed"}
    /\ rec.stage # "idle" => rec.snap # "none"
    /\ rec.stage = "complete" => mac = "dhcp"

IInv == /\ TypeOK /\ Linked
        /\ OneWindow => Alone /\ Held /\ Started /\ Network
        /\ OneWindow /\ OnPage => Paged

\* What a step adds to the history.
Grown == /\ OneWindow' => OneWindow /\ ~Overlaps
         /\ OnPage' => OnPage /\ ~OffPage
         /\ course' \subseteq {"overlap", "offPage"}

LEMMA Growth == ASSUME TypeOK, Next PROVE Grown
BY DEF TypeOK, Next, Grown, OneWindow, OnPage

LEMMA InitIInv == Init => IInv
<1>1. SUFFICES ASSUME Init PROVE IInv OBVIOUS
<1>2. NoReq \in Requests /\ Empty \in Record
  BY DEF NoReq, Requests, Phases, Empty, Record, Stages
<1>3. TypeOK
  <2>1. req \in [Clients -> Requests] BY <1>1, <1>2 DEF Init
  <2>2. gop \in [kind : GatewayOps \cup {"none"}, before : Record, by : Clients \cup {"nobody"}]
    BY <1>1, <1>2 DEF Init, NoOp
  <2>3. rec \in Record /\ course = {} /\ left \in 0..MaxFaults
    BY <1>1, <1>2, RecoveryAssumption DEF Init
  <2>4. /\ card \in BOOLEAN /\ mac \in {"dhcp", "static"} /\ router \in BOOLEAN
        /\ gw \in {"stopped", "running", "partial"} /\ proven \in BOOLEAN
    BY <1>1 DEF Init
  <2>5. QED BY <2>1, <2>2, <2>3, <2>4 DEF TypeOK, Requests, Phases
<1>4. /\ gop.kind = "none" /\ rec = Empty /\ gw = "stopped"
      /\ \A c \in Clients : req[c] = NoReq /\ req[c].kind = "none" /\ req[c].phase = "none"
  BY <1>1 DEF Init, NoOp, NoReq
<1>6. Linked BY <1>1, <1>4 DEF Init, Linked, Busy, GatewayOps
<1>7. Alone /\ Held
  BY <1>4 DEF Alone, Held, HeldBy, Busy, Handlers
<1>8. Started /\ Network /\ Paged
  BY <1>4 DEF Started, Network, Paged, Empty, Undoing, Serving
<1>9. QED BY <1>3, <1>6, <1>7, <1>8 DEF IInv

-----------------------------------------------------------------------------
(***************************************************************************)
(* A handler at work.                                                      *)
(***************************************************************************)
\* The request of c becomes q.
Becomes(c, q) ==
    /\ q \in Requests /\ req' = [req EXCEPT ![c] = q]
    /\ q = NoReq \/ q.kind = req[c].kind
    /\ q.phase = "restore" => q.kind = "abandon"
    /\ q.phase = "card" => q.kind = "prepare"
    /\ q.phase \in Phases \ {"none"} \/ q = NoReq

LEMMA Reached ==
    ASSUME IInv, NEW c \in Clients, NEW ph \in {"restore", "save", "card"}, NEW s \in Record,
           Reach(c, ph, s), ph = "restore" => req[c].kind = "abandon",
           ph = "card" => req[c].kind = "prepare"
    PROVE  \E q \in Requests : /\ q.kind = req[c].kind /\ q.phase = ph /\ q.seen = s
                               /\ Becomes(c, q)
<1> DEFINE q == [req[c] EXCEPT !.phase = ph, !.seen = s]
<1>1. req[c] \in Requests BY DEF IInv, TypeOK, Requests, Phases
<1>2. q \in Requests /\ q.kind = req[c].kind /\ q.phase = ph /\ q.seen = s
  BY <1>1 DEF Requests, Phases
<1>3. req' = [req EXCEPT ![c] = q] BY <1>1 DEF Reach, IInv, TypeOK
<1>4. Becomes(c, q) BY <1>2, <1>3 DEF Becomes, Phases
<1>5. QED BY <1>2, <1>4

LEMMA Answered == ASSUME IInv, NEW c \in Clients, Answer(c)
                  PROVE  Becomes(c, NoReq)
<1>1. NoReq \in Requests /\ NoReq.phase = "none"
  BY DEF NoReq, Requests, Phases, Empty, Record, Stages
<1>2. QED BY <1>1 DEF Answer, Becomes

\* While one request is under way there is no other, and no operation.
LEMMA Solo == ASSUME IInv, OneWindow, NEW c \in Clients, req[c].kind \in Handlers
              PROVE  gop = NoOp /\ \A d \in Clients \ {c} : req[d] = NoReq
<1>1. Busy(c) /\ req[c].kind \notin GatewayOps BY DEF Busy, Handlers, GatewayOps
<1>2. \A d \in Clients \ {c} : req[d] = NoReq BY <1>1 DEF IInv, Alone, Linked
<1>3. gop.kind = "none"
  <2>1. SUFFICES ASSUME gop.kind # "none" PROVE FALSE OBVIOUS
  <2>2. gop.by \in Clients /\ req[gop.by].kind = gop.kind BY <2>1 DEF IInv, Linked
  <2>3. gop.kind \in GatewayOps BY <2>1 DEF IInv, TypeOK
  <2>4. gop.by # c BY <1>1, <2>2, <2>3
  <2>5. req[gop.by] = NoReq BY <1>2, <2>2, <2>4
  <2>6. QED BY <2>1, <2>2, <2>5 DEF NoReq
<1>4. QED BY <1>2, <1>3 DEF IInv, Linked

LEMMA NoReqHeld == HeldBy(NoReq)'
BY DEF HeldBy, NoReq, Handlers

\* A request goes on to q, or ends, and the gateway is as it was.
LEMMA Progress ==
    ASSUME IInv, Grown, NEW c \in Clients, req[c].kind \in Handlers,
           NEW q \in Requests, Becomes(c, q), UNCHANGED <<gw, gop, router>>,
           rec' \in Record, card' \in BOOLEAN, mac' \in {"dhcp", "static"}, proven' \in BOOLEAN,
           left' \in 0..MaxFaults,
           OneWindow' => HeldBy(q)' /\ Network',
           OneWindow' /\ OnPage' => Paged'
    PROVE  IInv'
<1>1. /\ req' \in [Clients -> Requests] /\ req'[c] = q
      /\ \A d \in Clients \ {c} : req'[d] = req[d]
  BY DEF IInv, TypeOK, Requests, Phases, Becomes
<1>2. TypeOK' BY <1>1 DEF IInv, TypeOK, Requests, Phases, Grown
<1>3. Linked'
  <2>1. req[c].kind \notin GatewayOps /\ q.kind \notin GatewayOps
    BY DEF Handlers, GatewayOps, Becomes, NoReq
  <2>2. gop.kind # "none" => gop.by \in Clients \ {c} /\ req'[gop.by].kind = gop.kind
    BY <1>1, <2>1 DEF IInv, Linked, TypeOK
  <2>3. ASSUME NEW d \in Clients
        PROVE  /\ req'[d].kind = "none" => req'[d] = NoReq
               /\ req'[d].kind \in GatewayOps => req'[d].phase = "work" /\ gop.kind # "none" /\ gop.by = d
               /\ req'[d].phase \in {"restore", "save", "card"} => req'[d].kind \in Handlers
               /\ req'[d].phase = "restore" => req'[d].kind = "abandon"
               /\ req'[d].phase = "card" => req'[d].kind = "prepare"
    <3>1. CASE d = c
      BY <1>1, <2>1, <3>1 DEF Becomes, NoReq, Handlers
    <3>2. CASE d # c BY <1>1, <3>2 DEF IInv, Linked, Busy
    <3>3. QED BY <3>1, <3>2
  <2>4. QED BY <2>2, <2>3 DEF Linked, Busy, IInv
<1>4. ASSUME OneWindow' PROVE Alone' /\ Held' /\ Started'
  <2>1. OneWindow BY <1>4 DEF Grown
  <2>2. gop = NoOp /\ \A d \in Clients \ {c} : req[d] = NoReq BY <2>1, Solo
  <2>3. Alone' BY <1>1, <2>2 DEF Alone, Busy, NoReq
  <2>4. ASSUME NEW d \in Clients PROVE HeldBy(req[d])'
    <3>1. CASE d = c BY <1>1, <1>4, <3>1 DEF HeldBy
    <3>2. CASE d # c BY <1>1, <2>2, <3>2, NoReqHeld DEF HeldBy
    <3>3. QED BY <3>1, <3>2
  <2>5. Started' BY <2>2 DEF Started, NoOp
  <2>6. QED BY <2>3, <2>4, <2>5 DEF Held
<1>5. QED BY <1>2, <1>3, <1>4 DEF IInv

\* What a handler that does its work knows.
LEMMA Knows == ASSUME IInv, OneWindow, NEW c \in Clients PROVE HeldBy(req[c]) /\ Network
BY DEF IInv, Held

LEMMA LeftOK == ASSUME TypeOK, Fine \/ \E k \in FaultKinds : Fault(k) PROVE left' \in 0..MaxFaults
BY RecoveryAssumption DEF TypeOK, Fine, Fault

LEMMA RecordOK == ASSUME IInv, NEW c \in Clients
                  PROVE  /\ req[c] \in Requests /\ req[c].seen \in Record /\ rec \in Record
                         /\ Empty \in Record /\ rec.stage \in Stages
                         /\ \A s \in Stages : At(req[c].seen, s) \in Record
BY DEF IInv, TypeOK, Requests, Phases, Record, Empty, At, Stages

LEMMA NoReqOK == NoReq \in Requests
BY DEF NoReq, Requests, Phases, Empty, Record, Stages

LEMMA Same == ASSUME IInv, Grown, UNCHANGED <<rec, mac, gw, proven>>
              PROVE  (OneWindow' => Network') /\ (OneWindow' /\ OnPage' => Paged')
BY DEF IInv, Grown, Network, Paged

\* Progress when nothing but the request has changed.
LEMMA Onward ==
    ASSUME IInv, Grown, NEW c \in Clients, req[c].kind \in Handlers,
           NEW q \in Requests, Becomes(c, q), UNCHANGED <<rec, card, net, gop, proven>>,
           left' \in 0..MaxFaults, OneWindow' => HeldBy(q)'
    PROVE  IInv'
<1>1. /\ rec' \in Record /\ card' \in BOOLEAN /\ mac' \in {"dhcp", "static"}
      /\ proven' \in BOOLEAN /\ UNCHANGED <<gw, gop, router>>
  BY DEF IInv, TypeOK, net
<1>2. (OneWindow' => Network') /\ (OneWindow' /\ OnPage' => Paged') BY Same DEF net
<1>3. QED BY <1>1, <1>2, Progress

\* A request is given up and nothing else has changed.
LEMMA GivenUp ==
    ASSUME IInv, Grown, NEW c \in Clients, req[c].kind \in Handlers, Answer(c),
           UNCHANGED <<rec, card, net, gop, proven>>, left' \in 0..MaxFaults
    PROVE  IInv'
<1>1. Becomes(c, NoReq) BY Answered
<1>2. QED BY <1>1, NoReqOK, NoReqHeld, Onward

LEMMA CallFailsStep == ASSUME IInv, Grown, NEW c \in Clients, CallFails(c) PROVE IInv'
<1>1. req[c].kind \in Handlers
  BY RecordOK DEF CallFails, IInv, Linked, Busy, NoReq, Requests
<1>2. left' \in 0..MaxFaults BY LeftOK DEF CallFails, IInv, FaultKinds
<1>3. QED BY <1>1, <1>2, GivenUp DEF CallFails

LEMMA DiscoverStep == ASSUME IInv, Grown, NEW c \in Clients, Discover(c) PROVE IInv'
<1>1. req[c].kind = "prepare" /\ req[c].phase = "work" /\ "prepare" \in Handlers
  BY DEF Discover, Working, Handlers
<1>2. left' \in 0..MaxFaults BY LeftOK DEF Discover, IInv
<1>3. mac \in {"dhcp", "static"} BY DEF IInv, TypeOK
<1>4. PICK s \in Record : s = [stage |-> "prepared", snap |-> mac]
  BY <1>3 DEF Record, Stages, Setup
<1>5. Reach(c, "save", s) BY <1>4 DEF Discover
<1>6. PICK q \in Requests : q.kind = "prepare" /\ q.phase = "save" /\ q.seen = s /\ Becomes(c, q)
  BY <1>1, <1>5, Reached
<1>7. ASSUME OneWindow' PROVE HeldBy(q)'
  <2>1. HeldBy(req[c]) /\ UNCHANGED rec BY <1>7, Knows DEF Grown, Discover
  <2>2. OnPage' => rec.stage \in {"idle"} \cup Ended BY <1>1, <2>1 DEF HeldBy, Grown
  <2>3. rec.stage \in AcceptedAt("prepare") /\ Leads("prepare", rec.stage) = "prepared"
    BY RecordOK DEF AcceptedAt, Leads
  <2>4. "prepare" \notin NeedsSnapshot /\ s.stage = "prepared" /\ s.snap # "none"
    BY <1>3, <1>4 DEF NeedsSnapshot
  <2>5. QED BY <1>6, <2>1, <2>2, <2>3, <2>4 DEF HeldBy
<1>8. QED BY <1>1, <1>2, <1>6, <1>7, Onward DEF Discover

\* A request that has only to be saved, as it was read.
LEMMA ToSave ==
    ASSUME IInv, Grown, NEW c \in Clients, req[c].kind \in Handlers, req[c].kind # "prepare",
           Reach(c, "save", req[c].seen)
    PROVE  \E q \in Requests : /\ q.kind = req[c].kind /\ q.phase = "save"
                               /\ q.seen = req[c].seen /\ Becomes(c, q)
<1>1. PICK s \in Record : s = req[c].seen BY RecordOK
<1>2. QED BY <1>1, Reached

LEMMA SetManualStep == ASSUME IInv, Grown, NEW c \in Clients, SetManual(c) PROVE IInv'
<1>1. req[c].kind = "static" /\ req[c].phase = "work" /\ "static" \in Handlers
  BY DEF SetManual, Working, Handlers
<1>2. left' \in 0..MaxFaults BY LeftOK DEF SetManual, IInv, FaultKinds
<1>3. /\ rec' \in Record /\ card' \in BOOLEAN /\ mac' \in {"dhcp", "static"}
      /\ proven' \in BOOLEAN /\ UNCHANGED <<gw, gop, router>>
  BY DEF SetManual, IInv, TypeOK
<1>4. ASSUME OneWindow' PROVE rec.stage = "prepared" /\ HeldBy(req[c]) /\ Network
  BY <1>1, <1>4, Knows DEF Grown, HeldBy, AcceptedAt
<1>5. OneWindow' => Network'
  BY <1>4 DEF SetManual, Network, Serving, Undoing
<1>6. OneWindow' /\ OnPage' => Paged'
  BY <1>4 DEF SetManual, IInv, Grown, Paged
<1>7. CASE Answer(c)
  <2>1. Becomes(c, NoReq) BY <1>7, Answered
  <2>2. QED BY <1>1, <1>2, <1>3, <1>5, <1>6, <2>1, NoReqOK, NoReqHeld, Progress
<1>8. CASE Reach(c, "save", req[c].seen)
  <2>1. PICK q \in Requests : /\ q.kind = "static" /\ q.phase = "save"
                              /\ q.seen = req[c].seen /\ Becomes(c, q)
    BY <1>1, <1>8, ToSave
  <2>2. ASSUME OneWindow' PROVE HeldBy(q)'
    BY <1>1, <1>4, <2>1, <2>2 DEF HeldBy, SetManual
  <2>3. QED BY <1>1, <1>2, <1>3, <1>5, <1>6, <2>1, <2>2, Progress
<1>9. QED BY <1>7, <1>8 DEF SetManual

LEMMA ProbeOffStep == ASSUME IInv, Grown, NEW c \in Clients, ProbeOff(c) PROVE IInv'
<1>1. req[c].kind = "probe" /\ req[c].phase = "work" /\ "probe" \in Handlers
  BY DEF ProbeOff, Working, Handlers
<1>2. left' \in 0..MaxFaults BY LeftOK DEF ProbeOff, IInv
<1>3. CASE Answer(c) /\ UNCHANGED proven
  BY <1>1, <1>2, <1>3, GivenUp DEF ProbeOff
<1>4. CASE Reach(c, "save", req[c].seen) /\ proven' = TRUE
  <2>1. PICK q \in Requests : /\ q.kind = "probe" /\ q.phase = "save"
                              /\ q.seen = req[c].seen /\ Becomes(c, q)
    BY <1>1, <1>4, ToSave
  <2>2. ASSUME OneWindow' PROVE HeldBy(q)' /\ Network'
    <3>1. HeldBy(req[c]) /\ Network BY <2>2, Knows DEF Grown
    <3>2. UNCHANGED <<rec, mac, gw>> /\ proven' BY <1>4 DEF ProbeOff, net
    <3>3. Network' BY <3>1, <3>2 DEF Network
    <3>4. HeldBy(q)' BY <1>1, <2>1, <3>1, <3>2 DEF HeldBy
    <3>5. QED BY <3>3, <3>4
  <2>3. OneWindow' /\ OnPage' => Paged' BY DEF ProbeOff, net, IInv, Grown, Paged
  <2>4. /\ rec' \in Record /\ card' \in BOOLEAN /\ mac' \in {"dhcp", "static"}
        /\ proven' \in BOOLEAN /\ UNCHANGED <<gw, gop, router>>
    BY <1>4 DEF ProbeOff, IInv, TypeOK, net
  <2>5. QED BY <1>1, <1>2, <2>1, <2>2, <2>3, <2>4, Progress
<1>5. QED BY <1>3, <1>4 DEF ProbeOff

LEMMA ProbeRestoredStep == ASSUME IInv, Grown, NEW c \in Clients, ProbeRestored(c) PROVE IInv'
<1>1. req[c].kind = "restored" /\ req[c].phase = "work" /\ "restored" \in Handlers
  BY DEF ProbeRestored, Working, Handlers
<1>2. left' \in 0..MaxFaults BY LeftOK DEF ProbeRestored, IInv
<1>3. CASE Answer(c) BY <1>1, <1>2, <1>3, GivenUp DEF ProbeRestored
<1>4. CASE Reach(c, "save", req[c].seen)
  <2>1. PICK q \in Requests : /\ q.kind = "restored" /\ q.phase = "save"
                              /\ q.seen = req[c].seen /\ Becomes(c, q)
    BY <1>1, <1>4, ToSave
  <2>2. ASSUME OneWindow' PROVE HeldBy(q)'
    <3>1. HeldBy(req[c]) /\ UNCHANGED <<rec, mac, gw, proven>>
      BY <2>2, Knows DEF Grown, ProbeRestored, net
    <3>2. QED BY <1>1, <2>1, <3>1 DEF HeldBy
  <2>3. QED BY <1>1, <1>2, <2>1, <2>2, Onward DEF ProbeRestored
<1>5. QED BY <1>3, <1>4 DEF ProbeRestored

LEMMA ProbeAbandonStep == ASSUME IInv, Grown, NEW c \in Clients, ProbeAbandon(c) PROVE IInv'
<1>1. req[c].kind = "abandon" /\ req[c].phase = "work" /\ "abandon" \in Handlers
  BY DEF ProbeAbandon, Working, Handlers
<1>2. left' \in 0..MaxFaults BY LeftOK DEF ProbeAbandon, IInv
<1>3. UNCHANGED <<rec, mac, gw, proven>> BY DEF ProbeAbandon, net
<1>4. CASE Reach(c, "restore", req[c].seen)
  <2>1. PICK s \in Record : s = req[c].seen BY RecordOK
  <2>2. PICK q \in Requests : q.kind = "abandon" /\ q.phase = "restore" /\ q.seen = s /\ Becomes(c, q)
    BY <1>1, <1>4, <2>1, Reached
  <2>3. ASSUME OneWindow' PROVE HeldBy(q)'
    <3>1. HeldBy(req[c]) BY <2>3, Knows DEF Grown
    <3>2. QED BY <1>1, <1>3, <2>1, <2>2, <3>1 DEF HeldBy
  <2>4. QED BY <1>1, <1>2, <2>2, <2>3, Onward DEF ProbeAbandon
<1>5. CASE Reach(c, "save", At(req[c].seen, "complete_static"))
  <2>1. "complete_static" \in Stages BY DEF Stages, Ended
  <2>2. PICK s \in Record : s = At(req[c].seen, "complete_static") BY <2>1, RecordOK
  <2>3. s.stage = "complete_static" /\ s.snap = req[c].seen.snap
    BY <2>2, RecordOK DEF At, Record
  <2>4. PICK q \in Requests : q.kind = "abandon" /\ q.phase = "save" /\ q.seen = s /\ Becomes(c, q)
    BY <1>1, <1>5, <2>2, Reached
  <2>5. ASSUME OneWindow' PROVE HeldBy(q)'
    <3>1. HeldBy(req[c]) BY <2>5, Knows DEF Grown
    <3>2. QED BY <1>1, <1>3, <2>3, <2>4, <3>1 DEF HeldBy
  <2>6. QED BY <1>1, <1>2, <2>4, <2>5, Onward DEF ProbeAbandon
<1>6. QED BY <1>4, <1>5 DEF ProbeAbandon

LEMMA SetDHCPStep == ASSUME IInv, Grown, NEW c \in Clients, SetDHCP(c) PROVE IInv'
<1>1. /\ req[c].kind \in {"manual", "dhcp", "abandon"} /\ req[c].kind \in Handlers
      /\ req[c].phase \in {"work", "restore"}
      /\ req[c].kind = "abandon" => req[c].phase = "restore"
  BY DEF SetDHCP, Working, Handlers, IInv, Linked
<1>2. left' \in 0..MaxFaults BY LeftOK DEF SetDHCP, IInv, FaultKinds
<1>3. /\ rec' \in Record /\ card' \in BOOLEAN /\ mac' \in {"dhcp", "static"}
      /\ proven' \in BOOLEAN /\ UNCHANGED <<gw, gop, router>>
  BY DEF SetDHCP, IInv, TypeOK
<1>4. PICK q \in Requests :
         /\ Becomes(c, q)
         /\ q = NoReq \/ (q.kind = req[c].kind /\ q.phase = "save" /\ q.seen = req[c].seen)
  <2>1. CASE Answer(c)
    <3>1. Becomes(c, NoReq) BY <2>1, Answered
    <3>2. NoReq \in Requests BY DEF NoReq, Requests, Phases, Empty, Record, Stages
    <3>3. QED BY <3>1, <3>2
  <2>2. CASE Reach(c, "save", req[c].seen)
    <3>1. req[c].kind # "prepare" BY <1>1
    <3>2. PICK q \in Requests : /\ q.kind = req[c].kind /\ q.phase = "save"
                                /\ q.seen = req[c].seen /\ Becomes(c, q)
      BY <1>1, <2>2, <3>1, ToSave
    <3>3. QED BY <3>2
  <2>3. QED BY <2>1, <2>2 DEF SetDHCP
<1>5. ASSUME OneWindow' PROVE HeldBy(q)' /\ Network'
  <2>1. HeldBy(req[c]) /\ Network BY <1>5, Knows DEF Grown
  <2>2. gw # "running"
    <3>1. CASE req[c].kind = "abandon" BY <1>1, <2>1, <3>1 DEF HeldBy
    <3>2. CASE req[c].kind = "manual" BY <1>1, <2>1, <3>2 DEF HeldBy, AcceptedAt, Network, Undoing
    <3>3. CASE req[c].kind = "dhcp" BY <1>1, <2>1, <3>3 DEF HeldBy, AcceptedAt, Network, Undoing
    <3>4. QED BY <1>1, <3>1, <3>2, <3>3
  <2>3. mac' = "dhcp" /\ UNCHANGED <<rec, gw>> BY DEF SetDHCP
  <2>4. HeldBy(q)'
    <3>1. CASE q = NoReq BY <3>1 DEF HeldBy, NoReq, Handlers
    <3>2. CASE q.kind = req[c].kind /\ q.phase = "save" /\ q.seen = req[c].seen
      BY <1>1, <2>1, <2>3, <3>2 DEF HeldBy
    <3>3. QED BY <1>4, <3>1, <3>2
  <2>5. Network' BY <2>1, <2>2, <2>3 DEF Network
  <2>6. QED BY <2>4, <2>5
<1>6. OneWindow' /\ OnPage' => Paged' BY DEF SetDHCP, IInv, Grown, Paged
<1>7. QED BY <1>1, <1>2, <1>3, <1>4, <1>5, <1>6, Progress

LEMMA ApplyConfigStep == ASSUME IInv, Grown, NEW c \in Clients, ApplyConfig(c) PROVE IInv'
<1>1. req[c].kind = "config" /\ req[c].phase = "work" /\ "config" \in Handlers
  BY DEF ApplyConfig, Working, Handlers
<1>2. left' \in 0..MaxFaults BY LeftOK DEF ApplyConfig, IInv
<1>3. CASE Answer(c) BY <1>1, <1>2, <1>3, GivenUp DEF ApplyConfig
<1>4. CASE Reach(c, "save", req[c].seen)
  <2>1. PICK q \in Requests : /\ q.kind = "config" /\ q.phase = "save"
                              /\ q.seen = req[c].seen /\ Becomes(c, q)
    BY <1>1, <1>4, ToSave
  <2>2. ASSUME OneWindow' PROVE HeldBy(q)'
    <3>1. HeldBy(req[c]) /\ UNCHANGED <<rec, mac, gw, proven>>
      BY <2>2, Knows DEF Grown, ApplyConfig, net
    <3>2. QED BY <1>1, <2>1, <3>1 DEF HeldBy
  <2>3. QED BY <1>1, <1>2, <2>1, <2>2, Onward DEF ApplyConfig
<1>5. QED BY <1>3, <1>4 DEF ApplyConfig

-----------------------------------------------------------------------------
(***************************************************************************)
(* Saving.                                                                 *)
(***************************************************************************)
\* The record becomes what a handler alone has found.
LEMMA Saved ==
    ASSUME IInv, OneWindow, NEW c \in Clients, req[c].kind \in Handlers \ {"config"},
           req[c].phase = "save", rec' = req[c].seen, UNCHANGED <<mac, gw, proven>>
    PROVE  Network' /\ (OnPage => Paged')
<1> DEFINE k == req[c].kind
<1>1. HeldBy(req[c]) /\ Network /\ (OnPage => Paged) BY Knows DEF IInv
<1>2. /\ rec.stage \in AcceptedAt(k) /\ (k \in NeedsSnapshot => rec.snap # "none")
      /\ k = "abandon" => gw = "stopped"
      /\ k # "prepare" => rec'.snap = rec.snap
      /\ rec'.stage = Leads(k, rec.stage) \/ (k = "abandon" /\ rec'.stage = "complete_static")
  BY <1>1 DEF HeldBy
<1>3. /\ k = "prepare" => rec'.snap # "none"
      /\ k \in {"manual", "dhcp", "abandon"} /\ rec'.stage = "complete" => mac = "dhcp"
      /\ k = "probe" => proven
      /\ OnPage /\ k = "prepare" => rec.stage \in {"idle"} \cup Ended
  BY <1>1 DEF HeldBy
<1>4. CASE k = "prepare"
  <2>1. rec'.stage = "prepared" BY <1>2, <1>4 DEF Leads
  <2>2. Network' BY <1>1, <2>1 DEF Network, Serving, Undoing
  <2>3. OnPage => gw = "stopped" BY <1>1, <1>3, <1>4 DEF Paged, Serving, Ended
  <2>4. QED BY <1>3, <1>4, <2>1, <2>2, <2>3 DEF Paged
<1>5. CASE k = "notes"
  <2>1. rec'.stage = rec.stage /\ rec'.snap = rec.snap BY <1>2, <1>5 DEF Leads
  <2>2. QED BY <1>1, <2>1 DEF Network, Paged
<1>6. CASE k \in {"validated", "skip"}
  <2>1. rec.stage = "active" BY <1>2, <1>6 DEF AcceptedAt
  <2>2. rec'.stage \in {"validated", "skipped"} BY <1>2, <1>6 DEF Leads
  <2>3. Network' BY <1>1, <2>1, <2>2 DEF Network, Serving, Undoing
  <2>4. OnPage => Paged' BY <1>1, <1>2, <1>6, <2>1, <2>2 DEF Paged, Serving
  <2>5. QED BY <2>3, <2>4
<1>7. CASE k \in {"static", "probe"}
  <2>1. rec.stage \in {"prepared", "mac_static"} BY <1>2, <1>7 DEF AcceptedAt
  <2>2. /\ k = "static" => rec'.stage = "mac_static"
        /\ k = "probe" => rec'.stage = "confirmed"
    BY <1>2 DEF Leads
  <2>3. Network' BY <1>1, <1>3, <1>7, <2>2 DEF Network, Serving, Undoing
  <2>4. OnPage => gw = "stopped" /\ rec'.snap # "none"
    BY <1>1, <1>2, <1>7, <2>1 DEF Paged, Serving
  <2>5. QED BY <1>7, <2>2, <2>3, <2>4 DEF Paged
<1>8. CASE k \in {"restored", "manual", "keep", "dhcp", "abandon"}
  <2>1. gw # "running"
    <3>1. CASE k = "abandon" BY <1>2, <3>1
    <3>2. CASE k # "abandon"
      <4>1. rec.stage \in Undoing BY <1>2, <1>8, <3>2 DEF AcceptedAt, Undoing
      <4>2. QED BY <1>1, <4>1 DEF Network
    <3>3. QED BY <3>1, <3>2
  <2>2. OnPage => gw = "stopped"
    <3>1. CASE k = "abandon" BY <1>2, <3>1
    <3>2. CASE k # "abandon"
      <4>1. rec.stage \in Undoing BY <1>2, <1>8, <3>2 DEF AcceptedAt, Undoing
      <4>2. QED BY <1>1, <4>1 DEF Paged, Undoing, Serving
    <3>3. QED BY <3>1, <3>2
  <2>3. rec'.stage \in {"restored", "complete", "complete_static"}
    BY <1>2, <1>8 DEF Leads
  <2>4. rec'.stage = "complete" => k \in {"manual", "dhcp", "abandon"}
    BY <1>2, <1>8 DEF Leads
  <2>5. rec'.snap # "none" BY <1>2, <1>8 DEF NeedsSnapshot
  <2>6. Network' BY <2>1, <2>3 DEF Network, Serving
  <2>7. OnPage => Paged' BY <1>3, <2>2, <2>3, <2>4, <2>5 DEF Paged
  <2>8. QED BY <2>6, <2>7
<1>9. QED BY <1>4, <1>5, <1>6, <1>7, <1>8 DEF Handlers

LEMMA SaveStep == ASSUME IInv, Grown, NEW c \in Clients, Save(c) PROVE IInv'
<1>1. /\ req[c].kind \in Handlers \ {"config"} /\ req[c].phase = "save"
      /\ UNCHANGED <<card, mac, router, gw, gop, proven>>
  BY DEF Save, IInv, Linked, net
<1>2. left' \in 0..MaxFaults BY LeftOK DEF Save, IInv, FaultKinds
<1>3. CASE UNCHANGED rec /\ Answer(c)
  BY <1>1, <1>2, <1>3, GivenUp DEF net
<1>4. CASE rec' = req[c].seen
  <2>1. /\ rec' \in Record /\ card' \in BOOLEAN /\ mac' \in {"dhcp", "static"}
        /\ proven' \in BOOLEAN
    BY <1>1, <1>4, RecordOK DEF IInv, TypeOK
  <2>2. (OneWindow' => Network') /\ (OneWindow' /\ OnPage' => Paged')
    BY <1>1, <1>4, Saved DEF Grown
  <2>3. CASE Answer(c)
    <3>1. Becomes(c, NoReq) BY <2>3, Answered
    <3>2. QED BY <1>1, <1>2, <2>1, <2>2, <3>1, NoReqOK, NoReqHeld, Progress
  <2>4. CASE req[c].kind = "prepare" /\ Reach(c, "card", req[c].seen)
    <3>1. PICK s \in Record : s = req[c].seen BY RecordOK
    <3>2. PICK q \in Requests : q.kind = "prepare" /\ q.phase = "card" /\ q.seen = s /\ Becomes(c, q)
      BY <2>4, <3>1, Reached
    <3>3. ASSUME OneWindow' PROVE HeldBy(q)'
      <4>1. HeldBy(req[c]) BY <3>3, Knows DEF Grown
      <4>2. rec'.stage = "prepared" BY <1>1, <1>4, <2>4, <4>1 DEF HeldBy, Leads
      <4>3. QED BY <3>2, <4>2 DEF HeldBy
    <3>4. QED BY <1>1, <1>2, <2>1, <2>2, <3>2, <3>3, Progress
  <2>5. QED BY <1>4, <2>3, <2>4 DEF Save
<1>5. QED BY <1>3, <1>4 DEF Save

LEMMA EmptyRecord == Empty \in Record /\ Empty.stage = "idle"
BY DEF Empty, Record, Stages

LEMMA SaveCardStep == ASSUME IInv, Grown, NEW c \in Clients, SaveCard(c) PROVE IInv'
<1>1. /\ req[c].kind = "prepare" /\ req[c].phase = "card" /\ "prepare" \in Handlers
      /\ UNCHANGED <<mac, router, gw, gop, proven>>
  BY DEF SaveCard, IInv, Linked, Handlers, net
<1>2. left' \in 0..MaxFaults BY LeftOK DEF SaveCard, IInv, FaultKinds
<1>3. Becomes(c, NoReq) BY Answered DEF SaveCard
<1>4. /\ rec' \in Record /\ card' \in BOOLEAN /\ mac' \in {"dhcp", "static"}
      /\ proven' \in BOOLEAN
  BY <1>1, EmptyRecord DEF SaveCard, IInv, TypeOK
<1>5. ASSUME OneWindow' PROVE Network' /\ (OnPage' => Paged')
  <2>1. CASE UNCHANGED rec BY <1>1, <1>5, <2>1, Same
  <2>2. CASE rec' = Empty
    <3>1. rec.stage = "prepared" /\ Network /\ (OnPage' => Paged)
      BY <1>1, <1>5, Knows DEF Grown, HeldBy, IInv
    <3>2. Network' BY <1>1, <2>2, <3>1, EmptyRecord DEF Network, Serving, Undoing
    <3>3. OnPage' => Paged' BY <1>1, <2>2, <3>1, EmptyRecord DEF Paged, Serving
    <3>4. QED BY <3>2, <3>3
  <2>3. QED BY <2>1, <2>2 DEF SaveCard
<1>6. QED BY <1>1, <1>2, <1>3, <1>4, <1>5, NoReqOK, NoReqHeld, Progress

LEMMA SaveConfigStep == ASSUME IInv, Grown, NEW c \in Clients, SaveConfig(c) PROVE IInv'
<1>1. /\ req[c].kind = "config" /\ req[c].phase = "save" /\ "config" \in Handlers
      /\ UNCHANGED <<mac, router, gw, gop, proven>>
  BY DEF SaveConfig, Handlers, net
<1>2. left' \in 0..MaxFaults BY LeftOK DEF SaveConfig, IInv, FaultKinds
<1>3. Becomes(c, NoReq) BY Answered DEF SaveConfig
<1>4. /\ rec' \in Record /\ card' \in BOOLEAN /\ mac' \in {"dhcp", "static"}
      /\ proven' \in BOOLEAN
  BY <1>1, EmptyRecord DEF SaveConfig, IInv, TypeOK
<1>5. ASSUME OneWindow' PROVE Network' /\ (OnPage' => Paged')
  <2>1. CASE UNCHANGED rec BY <1>1, <1>5, <2>1, Same
  <2>2. CASE rec' = Empty
    <3>1. /\ rec.stage \in {"idle", "prepared"} \cup Ended
          /\ Network /\ (OnPage' => Paged)
      BY <1>1, <1>5, Knows DEF Grown, HeldBy, IInv, AcceptedAt
    <3>2. Network' BY <1>1, <2>2, <3>1, EmptyRecord DEF Network, Serving, Undoing
    <3>3. OnPage' => Paged' BY <1>1, <2>2, <3>1, EmptyRecord DEF Paged, Serving, Ended
    <3>4. QED BY <3>2, <3>3
  <2>3. QED BY <2>1, <2>2 DEF SaveConfig
<1>6. QED BY <1>1, <1>2, <1>3, <1>4, <1>5, NoReqOK, NoReqHeld, Progress

-----------------------------------------------------------------------------
(***************************************************************************)
(* New requests.                                                           *)
(***************************************************************************)
\* A request that begins without overlap is the only one.
LEMMA First ==
    ASSUME IInv, Grown, OneWindow', NEW c \in Clients, req[c] = NoReq,
           NEW q \in Requests, q.kind # "none", req' = [req EXCEPT ![c] = q]
    PROVE  gop = NoOp /\ \A d \in Clients \ {c} : req[d] = NoReq
<1>1. /\ req'[c] = q /\ q # NoReq
      /\ \A d \in Clients \ {c} : req'[d] = req[d]
  BY DEF IInv, TypeOK, NoReq
<1>2. \A d \in Clients \ {c} : req[d] = NoReq BY <1>1 DEF Grown, Overlaps
<1>3. gop.kind = "none"
  <2>1. SUFFICES ASSUME gop.kind # "none" PROVE FALSE OBVIOUS
  <2>2. gop.by \in Clients /\ req[gop.by].kind = gop.kind BY <2>1 DEF IInv, Linked
  <2>3. req[gop.by] = NoReq BY <1>2, <2>2
  <2>4. QED BY <2>1, <2>2, <2>3 DEF NoReq
<1>4. QED BY <1>2, <1>3 DEF IInv, Linked

LEMMA BeginStep ==
    ASSUME IInv, Grown, NEW c \in Clients, NEW k \in Handlers, Begin(c, k) PROVE IInv'
<1>1. Leads(k, rec.stage) \in Stages
  BY RecordOK DEF Leads, Handlers, Stages, Setup, Serving, Undoing, Ended
<1>2. At(rec, Leads(k, rec.stage)) \in Record BY <1>1, RecordOK DEF Record, At
<1>3. PICK s \in Record : s = At(rec, Leads(k, rec.stage)) BY <1>2
<1>4. s.stage = Leads(k, rec.stage) /\ s.snap = rec.snap BY <1>3, RecordOK DEF At, Record
<1>ph. PICK ph \in {"save", "work"} : ph = IF k \in OnlySaves THEN "save" ELSE "work"
  OBVIOUS
<1>5. PICK q \in Requests : q = [kind |-> k, phase |-> ph, seen |-> s]
  BY DEF Requests, Phases
<1>6. /\ q.kind = k /\ q.seen = s /\ q.phase \in {"save", "work"} /\ k # "none"
      /\ q.phase = "save" => k \in OnlySaves /\ k \in Handlers /\ k \notin GatewayOps
  BY <1>5, <1>ph DEF Handlers, GatewayOps
<1>7. /\ req[c] = NoReq /\ req' = [req EXCEPT ![c] = q] /\ Accepted(k)
      /\ UNCHANGED <<rec, card, mac, router, gw, gop, proven, left>>
  BY <1>3, <1>5, <1>ph DEF Begin, net, Fine
<1>8. req'[c] = q /\ \A d \in Clients \ {c} : req'[d] = req[d]
  BY <1>7 DEF IInv, TypeOK
<1>9. TypeOK'
  <2>1. req' \in [Clients -> Requests] BY <1>7 DEF IInv, TypeOK, Requests, Phases
  <2>2. QED BY <1>7, <2>1 DEF IInv, TypeOK, Requests, Phases, Grown
<1>10. Linked'
  <2>1. k \notin GatewayOps /\ q.phase \notin {"restore", "card"}
    BY <1>6 DEF Handlers, GatewayOps
  <2>2. gop.kind # "none" => gop.by \in Clients \ {c} /\ req'[gop.by].kind = gop.kind
    BY <1>7, <1>8 DEF IInv, Linked, NoReq
  <2>3. ASSUME NEW d \in Clients
        PROVE  /\ req'[d].kind = "none" => req'[d] = NoReq
               /\ req'[d].kind \in GatewayOps => req'[d].phase = "work" /\ gop.kind # "none" /\ gop.by = d
               /\ req'[d].phase \in {"restore", "save", "card"} => req'[d].kind \in Handlers
               /\ req'[d].phase = "restore" => req'[d].kind = "abandon"
               /\ req'[d].phase = "card" => req'[d].kind = "prepare"
    <3>1. CASE d = c BY <1>6, <1>8, <2>1, <3>1
    <3>2. CASE d # c BY <1>8, <3>2 DEF IInv, Linked, Busy
    <3>3. QED BY <3>1, <3>2
  <2>4. QED BY <1>7, <2>2, <2>3 DEF Linked, Busy, IInv
<1>11. ASSUME OneWindow' PROVE Alone' /\ Held' /\ Started'
  <2>1. gop = NoOp /\ \A d \in Clients \ {c} : req[d] = NoReq
    BY <1>6, <1>7, <1>11, First
  <2>2. Alone' BY <1>8, <2>1 DEF Alone, Busy, NoReq
  <2>3. Started' BY <1>7, <2>1 DEF Started, NoOp
  <2>4. OnPage' /\ k = "prepare" => rec.stage \in {"idle"} \cup Ended
    <3>1. req'[c] # NoReq /\ req'[c].kind = k BY <1>6, <1>8 DEF NoReq
    <3>2. QED BY <1>7, <3>1 DEF Grown, OffPage, Offered
  <2>5. HeldBy(q)'
    BY <1>4, <1>6, <1>7, <2>4 DEF HeldBy, Accepted, OnlySaves
  <2>6. ASSUME NEW d \in Clients PROVE HeldBy(req[d])'
    <3>1. CASE d = c BY <1>8, <2>5, <3>1 DEF HeldBy
    <3>2. CASE d # c BY <1>8, <2>1, <3>2, NoReqHeld DEF HeldBy
    <3>3. QED BY <3>1, <3>2
  <2>7. QED BY <2>2, <2>3, <2>6 DEF Held
<1>12. (OneWindow' => Network') /\ (OneWindow' /\ OnPage' => Paged') BY <1>7, Same
<1>13. QED BY <1>9, <1>10, <1>11, <1>12 DEF IInv

LEMMA DiscardStep == ASSUME IInv, Grown, NEW c \in Clients, Discard(c) PROVE IInv'
<1>1. rec.stage = "prepared" /\ UNCHANGED <<mac, router, gw, gop, req, proven>>
  BY DEF Discard, net
<1>2. left' \in 0..MaxFaults BY LeftOK DEF Discard, IInv, FaultKinds
<1>3. TypeOK' BY <1>1, <1>2, EmptyRecord DEF Discard, IInv, TypeOK, Grown
<1>4. Linked' BY <1>1 DEF IInv, Linked, Busy
<1>5. CASE UNCHANGED rec
  <2>1. (OneWindow' => Network') /\ (OneWindow' /\ OnPage' => Paged') BY <1>1, <1>5, Same
  <2>2. OneWindow' => Alone' /\ Held' /\ Started'
    BY <1>1, <1>5 DEF IInv, Grown, Alone, Busy, Held, HeldBy, Started
  <2>3. QED BY <1>3, <1>4, <2>1, <2>2 DEF IInv
<1>6. CASE rec' = Empty
  <2>1. ASSUME OneWindow' PROVE \A d \in Clients : req'[d] = NoReq
    BY <1>1, <1>6, <2>1, EmptyRecord DEF Grown, Overlaps
  <2>2. OneWindow' => Alone' /\ Held'
    BY <2>1, NoReqHeld DEF Alone, Busy, Held, HeldBy, NoReq
  <2>3. OneWindow' => Started'
    <3>1. OneWindow' => gop.kind = "none"
      BY <1>1, <2>1 DEF IInv, Linked, NoReq
    <3>2. QED BY <1>1, <3>1 DEF Started
  <2>4. OneWindow' => Network'
    BY <1>1, <1>6, EmptyRecord DEF IInv, Grown, Network, Serving, Undoing
  <2>5. OneWindow' /\ OnPage' => Paged'
    BY <1>1, <1>6, EmptyRecord DEF IInv, Grown, Paged, Serving
  <2>6. QED BY <1>3, <1>4, <2>2, <2>3, <2>4, <2>5 DEF IInv
<1>7. QED BY <1>5, <1>6 DEF Discard

LEMMA BeginGatewayStep ==
    ASSUME IInv, Grown, NEW c \in Clients, NEW k \in GatewayOps, BeginGateway(c, k) PROVE IInv'
<1>1. PICK s \in Record : s = rec BY RecordOK
<1>2. PICK q \in Requests : q = [kind |-> k, phase |-> "work", seen |-> s]
  BY DEF Requests, Phases
<1>3. q.kind = k /\ q.phase = "work" /\ k # "none" /\ k \notin Handlers
  BY <1>2 DEF GatewayOps, Handlers
<1>4. /\ req[c] = NoReq /\ gop = NoOp /\ req' = [req EXCEPT ![c] = q]
      /\ gop' = [kind |-> k, before |-> s, by |-> c]
      /\ UNCHANGED <<rec, card, mac, router, gw, proven, left>>
      /\ (k = "start" => MayStart) /\ (k = "reload" => MayReload)
  BY <1>1, <1>2 DEF BeginGateway, net, Fine
<1>5. req'[c] = q /\ \A d \in Clients \ {c} : req'[d] = req[d]
  BY <1>4 DEF IInv, TypeOK
<1>6. TypeOK'
  <2>1. req' \in [Clients -> Requests] BY <1>4 DEF IInv, TypeOK, Requests, Phases
  <2>2. gop' \in [kind : GatewayOps \cup {"none"}, before : Record, by : Clients \cup {"nobody"}]
    BY <1>4
  <2>3. QED BY <1>4, <2>1, <2>2 DEF IInv, TypeOK, Requests, Phases, Grown
<1>7. Linked'
  <2>1. gop'.kind = k /\ gop'.by = c BY <1>4
  <2>2. \A d \in Clients \ {c} : req[d].kind \notin GatewayOps
    BY <1>4 DEF IInv, Linked, NoOp
  <2>3. ASSUME NEW d \in Clients
        PROVE  /\ req'[d].kind = "none" => req'[d] = NoReq
               /\ req'[d].kind \in GatewayOps => req'[d].phase = "work" /\ gop'.kind # "none" /\ gop'.by = d
               /\ req'[d].phase \in {"restore", "save", "card"} => req'[d].kind \in Handlers
               /\ req'[d].phase = "restore" => req'[d].kind = "abandon"
               /\ req'[d].phase = "card" => req'[d].kind = "prepare"
    <3>1. CASE d = c BY <1>3, <1>5, <2>1, <3>1
    <3>2. CASE d # c BY <1>5, <2>2, <3>2 DEF IInv, Linked, Busy
    <3>3. QED BY <3>1, <3>2
  <2>4. QED BY <1>3, <1>5, <2>1, <2>3 DEF Linked, Busy
<1>8. ASSUME OneWindow' PROVE Alone' /\ Held' /\ Started'
  <2>1. \A d \in Clients \ {c} : req[d] = NoReq
    BY <1>3, <1>4, <1>8, First
  <2>2. Alone' BY <1>5, <2>1 DEF Alone, Busy, NoReq
  <2>3. HeldBy(q)' BY <1>3 DEF HeldBy, Handlers
  <2>4. ASSUME NEW d \in Clients PROVE HeldBy(req[d])'
    <3>1. CASE d = c BY <1>5, <2>3, <3>1 DEF HeldBy
    <3>2. CASE d # c BY <1>5, <2>1, <3>2, NoReqHeld DEF HeldBy
    <3>3. QED BY <3>1, <3>2
  <2>5. Started'
    <3>1. /\ gop'.kind = k /\ gop'.before = rec'
          /\ k = "start" => rec.stage = "confirmed" /\ gw = "stopped"
          /\ k = "reload" => rec.stage \in Serving /\ gw = "running"
      BY <1>1, <1>4 DEF MayStart, MayReload
    <3>2. ASSUME OnPage', k = "stop" PROVE rec.stage \in Serving \cup {"confirmed"}
      <4>1. req'[c] # NoReq /\ req'[c].kind = k BY <1>3, <1>5 DEF NoReq
      <4>2. rec.stage \in Serving \/ gw # "stopped"
        BY <1>4, <3>2, <4>1 DEF Grown, OffPage, Offered
      <4>3. Paged BY <1>8, <3>2 DEF Grown, IInv
      <4>4. QED BY <4>2, <4>3 DEF Paged
    <3>3. QED BY <1>4, <3>1, <3>2 DEF Started
  <2>6. QED BY <2>2, <2>4, <2>5 DEF Held
<1>9. (OneWindow' => Network') /\ (OneWindow' /\ OnPage' => Paged') BY <1>4, Same
<1>10. QED BY <1>6, <1>7, <1>8, <1>9 DEF IInv

-----------------------------------------------------------------------------
(***************************************************************************)
(* The end of an operation, and of the service.                            *)
(***************************************************************************)
\* The requests that wait for an operation are over with it.
Over == /\ gop' = NoOp
        /\ \/ req' = [c \in Clients |-> IF c = gop.by THEN NoReq ELSE req[c]]
           \/ req' = [c \in Clients |-> NoReq]

LEMMA Closing ==
    ASSUME IInv, Grown, gop.kind # "none" \/ req' = [c \in Clients |-> NoReq], Over,
           rec' \in Record, gw' \in {"stopped", "running", "partial"},
           UNCHANGED <<card, mac, router, proven>>, left' \in 0..MaxFaults,
           OneWindow' => Network', OneWindow' /\ OnPage' => Paged'
    PROVE  IInv'
<1>1. ASSUME NEW c \in Clients
      PROVE  /\ req'[c] \in {NoReq, req[c]}
             /\ req'[c] # NoReq => gop.kind # "none" /\ c # gop.by
  BY DEF Over
<1>2. NoOp \in [kind : GatewayOps \cup {"none"}, before : Record, by : Clients \cup {"nobody"}]
  BY EmptyRecord DEF NoOp
<1>3. TypeOK'
  <2>1. req' \in [Clients -> Requests]
    BY <1>1, NoReqOK DEF Over, IInv, TypeOK, Requests, Phases
  <2>2. QED BY <1>2, <2>1 DEF Over, IInv, TypeOK, Requests, Phases, Grown
<1>4. Linked'
  <2>1. gop'.kind = "none" BY DEF Over, NoOp
  <2>2. ASSUME NEW c \in Clients PROVE req'[c].kind \notin GatewayOps
    <3>1. CASE req'[c] = NoReq BY <3>1 DEF NoReq, GatewayOps
    <3>2. CASE req'[c] # NoReq BY <1>1, <3>2 DEF IInv, Linked
    <3>3. QED BY <3>1, <3>2
  <2>3. ASSUME NEW c \in Clients
        PROVE  /\ req'[c].kind = "none" => req'[c] = NoReq
               /\ req'[c].phase \in {"restore", "save", "card"} => req'[c].kind \in Handlers
               /\ req'[c].phase = "restore" => req'[c].kind = "abandon"
               /\ req'[c].phase = "card" => req'[c].kind = "prepare"
    <3>1. CASE req'[c] = NoReq BY <3>1 DEF NoReq
    <3>2. CASE req'[c] # NoReq BY <1>1, <3>2 DEF IInv, Linked, Busy
    <3>3. QED BY <3>1, <3>2
  <2>4. QED BY <2>1, <2>2, <2>3 DEF Linked, Busy, Over
<1>5. ASSUME OneWindow' PROVE Alone' /\ Held' /\ Started'
  <2>1. ASSUME NEW c \in Clients PROVE req'[c] = NoReq
    <3>1. SUFFICES ASSUME req'[c] # NoReq PROVE FALSE OBVIOUS
    <3>2. gop.kind # "none" /\ c # gop.by /\ req[c] # NoReq BY <1>1, <3>1
    <3>3. gop.by \in Clients /\ req[gop.by].kind # "none" /\ req[c].kind # "none"
      BY <3>2 DEF IInv, Linked, Busy
    <3>4. QED BY <1>5, <3>2, <3>3 DEF IInv, Grown, Alone, Busy
  <2>2. Alone' BY <2>1 DEF Alone, Busy, NoReq
  <2>3. Held' BY <2>1, NoReqHeld DEF Held, HeldBy
  <2>4. Started' BY DEF Over, NoOp, Started
  <2>5. QED BY <2>2, <2>3, <2>4
<1>6. QED BY <1>3, <1>4, <1>5 DEF IInv

\* What an operation that ends may have done to gateway and record.
EndsWell(g, r) ==
    /\ g \in {"stopped", "running", "partial"} /\ r \in Record
    /\ OneWindow =>
          /\ g = "running" => mac = "static"
          /\ r.stage \in Undoing => g # "running"
          /\ r.stage \in {"confirmed"} \cup Serving /\ mac = "static" => proven
          /\ OnPage => /\ g # "stopped" => r.stage \in Serving \cup {"confirmed"}
                       /\ r.stage # "idle" => r.snap # "none"
                       /\ r.stage = "complete" => mac = "dhcp"

LEMMA Ending ==
    ASSUME IInv, Grown, gop.kind # "none", NEW g, NEW r, EndGateway(g, r),
           EndsWell(g, r), EndsWell(g, rec), left' \in 0..MaxFaults
    PROVE  IInv'
<1>1. Over /\ gw' = g /\ rec' \in {r, rec} /\ UNCHANGED <<card, mac, router, proven>>
  BY DEF EndGateway, Over
<1>2. OneWindow' => Network' BY <1>1 DEF Grown, EndsWell, Network
<1>3. OneWindow' /\ OnPage' => Paged' BY <1>1 DEF Grown, EndsWell, Paged
<1>4. rec' \in Record /\ gw' \in {"stopped", "running", "partial"} BY <1>1 DEF EndsWell
<1>5. QED BY <1>1, <1>2, <1>3, <1>4, Closing

LEMMA RecordsOK ==
    ASSUME IInv
    PROVE  /\ rec \in Record /\ gop.before \in Record
           /\ gw \in {"stopped", "running", "partial"} /\ mac \in {"dhcp", "static"}
           /\ \A s \in {"active", "waiting", "confirmed"} :
                 /\ At(rec, s) \in Record /\ At(rec, s).stage = s /\ At(rec, s).snap = rec.snap
                 /\ At(gop.before, s) \in Record /\ At(gop.before, s).stage = s
                 /\ At(gop.before, s).snap = gop.before.snap
BY DEF IInv, TypeOK, Record, At, Stages, Setup, Serving, Undoing

\* The operation under way, when requests do not overlap.
LEMMA Underway ==
    ASSUME IInv
    PROVE  /\ OneWindow => Started /\ Network
           /\ OneWindow /\ OnPage => Paged
BY DEF IInv

LEMMA StartDoneStep == ASSUME IInv, Grown, StartDone PROVE IInv'
<1>1. gop.kind = "start" /\ mac = "static" /\ EndGateway("running", At(rec, "active"))
  BY DEF StartDone
<1>2. left' \in 0..MaxFaults BY LeftOK DEF StartDone, IInv
<1>3. EndsWell("running", rec)
  BY <1>1, RecordsOK, Underway DEF EndsWell, Started, Network, Paged, Undoing
<1>4. EndsWell("running", At(rec, "active"))
  <2>1. At(rec, "active") \in Record /\ At(rec, "active").stage = "active"
        /\ At(rec, "active").snap = rec.snap
    BY RecordsOK
  <2>2. QED BY <1>1, <2>1, Underway DEF EndsWell, Started, Network, Paged, Undoing, Serving
<1>5. QED BY <1>1, <1>2, <1>3, <1>4, Ending

LEMMA StartFailsStep == ASSUME IInv, Grown, StartFails PROVE IInv'
<1>1. /\ gop.kind = "start"
      /\ \/ EndGateway("stopped", gop.before) \/ EndGateway("partial", rec)
         \/ mac = "static" /\ EndGateway("running", rec)
  BY DEF StartFails
<1>2. left' \in 0..MaxFaults BY LeftOK DEF StartFails, IInv, FaultKinds
<1>3. /\ EndsWell("stopped", rec) /\ EndsWell("partial", rec)
      /\ mac = "static" => EndsWell("running", rec)
  BY <1>1, RecordsOK, Underway DEF EndsWell, Started, Network, Paged, Undoing
<1>4. EndsWell("stopped", gop.before)
  BY <1>1, RecordsOK, Underway DEF EndsWell, Started, Network, Paged, Undoing
<1>5. QED BY <1>1, <1>2, <1>3, <1>4, Ending

LEMMA StopDoneStep == ASSUME IInv, Grown, StopDone PROVE IInv'
<1>1. gop.kind = "stop" /\ EndGateway("stopped", At(rec, "waiting")) BY DEF StopDone
<1>2. left' \in 0..MaxFaults BY LeftOK DEF StopDone, IInv
<1>3. EndsWell("stopped", rec)
  BY <1>1, RecordsOK, Underway DEF EndsWell, Started, Network, Paged, Undoing
<1>4. EndsWell("stopped", At(rec, "waiting"))
  <2>1. At(rec, "waiting") \in Record /\ At(rec, "waiting").stage = "waiting"
        /\ At(rec, "waiting").snap = rec.snap
    BY RecordsOK
  <2>2. QED BY <1>1, <2>1, Underway DEF EndsWell, Started, Network, Paged, Undoing, Serving
<1>5. QED BY <1>1, <1>2, <1>3, <1>4, Ending

LEMMA StopFailsStep == ASSUME IInv, Grown, StopFails PROVE IInv'
<1>1. gop.kind = "stop" BY DEF StopFails
<1>2. PICK g \in {gw, "partial", "stopped"} : EndGateway(g, rec) BY DEF StopFails
<1>3. left' \in 0..MaxFaults BY LeftOK DEF StopFails, IInv, FaultKinds
<1>4. EndsWell(gw, rec) /\ EndsWell("partial", rec) /\ EndsWell("stopped", rec)
  BY <1>1, RecordsOK, Underway DEF EndsWell, Started, Network, Paged
<1>5. QED BY <1>1, <1>2, <1>3, <1>4, Ending

LEMMA ReloadDoneStep == ASSUME IInv, Grown, ReloadDone PROVE IInv'
<1>1. gop.kind = "reload" /\ mac = "static" /\ EndGateway("running", rec) BY DEF ReloadDone
<1>2. left' \in 0..MaxFaults BY LeftOK DEF ReloadDone, IInv
<1>3. EndsWell("running", rec)
  BY <1>1, RecordsOK, Underway DEF EndsWell, Started, Network, Paged
<1>4. QED BY <1>1, <1>2, <1>3, Ending

LEMMA ReloadFailsStep == ASSUME IInv, Grown, ReloadFails PROVE IInv'
<1>1. gop.kind = "reload" BY DEF ReloadFails
<1>2. \/ \E g \in {"running", "partial", "stopped"} : EndGateway(g, gop.before)
      \/ EndGateway("stopped", At(gop.before, "confirmed"))
  BY DEF ReloadFails
<1>3. left' \in 0..MaxFaults BY LeftOK DEF ReloadFails, IInv, FaultKinds
<1>4. ASSUME NEW h \in {"running", "partial", "stopped"} PROVE EndsWell(h, rec)
  BY <1>1, RecordsOK, Underway DEF EndsWell, Started, Network, Paged
<1>5. ASSUME NEW h \in {"running", "partial", "stopped"} PROVE EndsWell(h, gop.before)
  BY <1>1, RecordsOK, Underway DEF EndsWell, Started, Network, Paged
<1>6. EndsWell("stopped", At(gop.before, "confirmed"))
  <2>1. /\ At(gop.before, "confirmed") \in Record
        /\ At(gop.before, "confirmed").stage = "confirmed"
        /\ At(gop.before, "confirmed").snap = gop.before.snap
    BY RecordsOK
  <2>2. QED
    BY <1>1, <2>1, RecordsOK, Underway DEF EndsWell, Started, Network, Paged, Undoing, Serving
<1>7. CASE \E g \in {"running", "partial", "stopped"} : EndGateway(g, gop.before)
  BY <1>1, <1>3, <1>4, <1>5, <1>7, Ending
<1>8. CASE EndGateway("stopped", At(gop.before, "confirmed"))
  BY <1>1, <1>3, <1>4, <1>6, <1>8, Ending
<1>9. QED BY <1>2, <1>7, <1>8

\* What a helper operation that nobody waits for may leave behind.
LEMMA OrphanedOK ==
    ASSUME IInv, NEW g \in Orphaned
    PROVE  EndsWell(g, rec) /\ EndsWell(IF g = "stopped" THEN g ELSE "partial", rec)
<1>1. rec \in Record /\ gw \in {"stopped", "running", "partial"} BY RecordsOK
<1>2. CASE gop.kind = "none"
  <2>1. g = gw BY <1>2 DEF Orphaned
  <2>2. QED BY <1>1, <2>1, Underway DEF EndsWell, Network, Paged
<1>3. CASE gop.kind = "start"
  <2>1. g \in {"stopped", "partial", "running"} /\ (g = "running" => mac = "static")
    BY <1>3 DEF Orphaned
  <2>2. QED BY <1>1, <1>3, <2>1, Underway DEF EndsWell, Started, Network, Paged, Undoing
<1>4. CASE gop.kind = "stop"
  <2>1. g \in {"stopped", gw, "partial"} BY <1>4 DEF Orphaned
  <2>2. QED BY <1>1, <1>4, <2>1, Underway DEF EndsWell, Started, Network, Paged
<1>5. CASE gop.kind = "reload"
  <2>1. g \in {"stopped", "running", "partial"} BY <1>5 DEF Orphaned
  <2>2. QED BY <1>1, <1>5, <2>1, Underway DEF EndsWell, Started, Network, Paged, Undoing, Serving
<1>6. QED BY <1>2, <1>3, <1>4, <1>5 DEF IInv, TypeOK, GatewayOps

LEMMA Dying ==
    ASSUME IInv, Grown, Forgotten, UNCHANGED <<rec, card, mac, router, proven>>,
           EndsWell(gw', rec), left' \in 0..MaxFaults
    PROVE  IInv'
<1>1. Over /\ req' = [c \in Clients |-> NoReq] BY DEF Forgotten, Over
<1>2. rec' \in Record /\ gw' \in {"stopped", "running", "partial"} BY DEF EndsWell
<1>3. OneWindow' => Network' BY DEF Grown, EndsWell, Network
<1>4. OneWindow' /\ OnPage' => Paged' BY DEF Grown, EndsWell, Paged
<1>5. QED BY <1>1, <1>2, <1>3, <1>4, Closing

LEMMA ServiceCrashStep == ASSUME IInv, Grown, ServiceCrash PROVE IInv'
<1>1. left' \in 0..MaxFaults BY LeftOK DEF ServiceCrash, IInv, FaultKinds
<1>2. PICK g \in Orphaned : gw' = g BY DEF ServiceCrash
<1>3. QED BY <1>1, <1>2, OrphanedOK, Dying DEF ServiceCrash

LEMMA RebootStep == ASSUME IInv, Grown, Reboot PROVE IInv'
<1>1. left' \in 0..MaxFaults BY LeftOK DEF Reboot, IInv, FaultKinds
<1>2. PICK g \in Orphaned : gw' = IF g = "stopped" THEN g ELSE "partial" BY DEF Reboot
<1>3. QED BY <1>1, <1>2, OrphanedOK, Dying DEF Reboot

\* Nothing that the invariant speaks of changes.
LEMMA Still ==
    ASSUME IInv, Grown, UNCHANGED <<rec, card, mac, gw, gop, req, proven, left>>,
           router' \in BOOLEAN
    PROVE  IInv'
<1>1. TypeOK' BY DEF IInv, TypeOK, Grown
<1>2. Linked' BY DEF IInv, Linked, Busy
<1>3. OneWindow' => Alone' /\ Held' /\ Started'
  BY DEF IInv, Grown, Alone, Busy, Held, HeldBy, Started
<1>4. QED BY <1>1, <1>2, <1>3, Same DEF IInv

-----------------------------------------------------------------------------
LEMMA Inductive == IInv /\ [Next]_vars => IInv'
<1>1. SUFFICES ASSUME IInv, [Next]_vars PROVE IInv' OBVIOUS
<1>2. CASE UNCHANGED vars
  BY <1>1, <1>2 DEF vars, net, IInv, TypeOK, Linked, Busy, Alone, Held, HeldBy, Started, Network,
              Paged, OneWindow, OnPage
<1>3. CASE Next
  <2>1. Grown BY <1>1, <1>3, Growth DEF IInv
  <2>2. CASE \E c \in Clients : Handle(c)
    <3>1. PICK c \in Clients : Handle(c) BY <2>2
    <3>2. CASE \E k \in Handlers : Begin(c, k) BY <1>1, <2>1, <3>2, BeginStep
    <3>3. CASE \E k \in GatewayOps : BeginGateway(c, k) BY <1>1, <2>1, <3>3, BeginGatewayStep
    <3>4. CASE CallFails(c) BY <1>1, <2>1, <3>4, CallFailsStep
    <3>5. CASE Discover(c) BY <1>1, <2>1, <3>5, DiscoverStep
    <3>6. CASE SetManual(c) BY <1>1, <2>1, <3>6, SetManualStep
    <3>7. CASE ProbeOff(c) BY <1>1, <2>1, <3>7, ProbeOffStep
    <3>8. CASE ProbeRestored(c) BY <1>1, <2>1, <3>8, ProbeRestoredStep
    <3>9. CASE ProbeAbandon(c) BY <1>1, <2>1, <3>9, ProbeAbandonStep
    <3>10. CASE SetDHCP(c) BY <1>1, <2>1, <3>10, SetDHCPStep
    <3>11. CASE ApplyConfig(c) BY <1>1, <2>1, <3>11, ApplyConfigStep
    <3>12. CASE Save(c) BY <1>1, <2>1, <3>12, SaveStep
    <3>13. CASE SaveCard(c) BY <1>1, <2>1, <3>13, SaveCardStep
    <3>14. CASE Discard(c) BY <1>1, <2>1, <3>14, DiscardStep
    <3>15. CASE SaveConfig(c) BY <1>1, <2>1, <3>15, SaveConfigStep
    <3>16. QED
      BY <3>1, <3>2, <3>3, <3>4, <3>5, <3>6, <3>7, <3>8, <3>9, <3>10, <3>11, <3>12, <3>13,
         <3>14, <3>15 DEF Handle
  <2>3. CASE Operate
    <3>1. CASE StartDone BY <1>1, <2>1, <3>1, StartDoneStep
    <3>2. CASE StartFails BY <1>1, <2>1, <3>2, StartFailsStep
    <3>3. CASE StopDone BY <1>1, <2>1, <3>3, StopDoneStep
    <3>4. CASE StopFails BY <1>1, <2>1, <3>4, StopFailsStep
    <3>5. CASE ReloadDone BY <1>1, <2>1, <3>5, ReloadDoneStep
    <3>6. CASE ReloadFails BY <1>1, <2>1, <3>6, ReloadFailsStep
    <3>7. QED BY <2>3, <3>1, <3>2, <3>3, <3>4, <3>5, <3>6 DEF Operate
  <2>4. CASE ServiceCrash BY <1>1, <2>1, <2>4, ServiceCrashStep
  <2>5. CASE Reboot BY <1>1, <2>1, <2>5, RebootStep
  <2>6. CASE UserTogglesRouter
    <3>1. router' \in BOOLEAN /\ UNCHANGED <<rec, card, mac, gw, gop, req, proven, left>>
      BY <1>1, <2>6 DEF UserTogglesRouter, Fine, IInv, TypeOK
    <3>2. QED BY <1>1, <2>1, <3>1, Still
  <2>7. QED BY <1>3, <2>2, <2>3, <2>4, <2>5, <2>6 DEF Next, Step
<1>4. QED BY <1>1, <1>2, <1>3

THEOREM Invariance == Spec => []IInv
BY InitIInv, Inductive, PTL DEF Spec

\* Whatever failed, died or was asked for, a running gateway has a fixed
\* address and is on record, a recovery that ended has ended, and every stage
\* has the snapshot to leave it by.
THEOREM RecordIsTrueAlways == Spec => []RecordIsTrue
<1>1. IInv => RecordIsTrue
  BY DEF IInv, Network, Paged, RecordIsTrue, GatewayNeedsStatic, EndedMeansEnded,
         EndedIsStopped, RunningIsRecorded, WayOutKept, EveryStageHasSnapshot, Ended, Serving
<1>2. QED BY <1>1, Invariance, PTL

-----------------------------------------------------------------------------
(***************************************************************************)
(* What no step does.                                                      *)
(***************************************************************************)
\* A start that ends well, for the client or for nobody, began when the record
\* was confirmed, and a probe has found no DHCP server since.
THEOREM EvidenceBeforeStart == Spec => StartHasEvidence
<1>1. IInv /\ [Next]_vars => [OneWindow /\ gw = "stopped" /\ gw' = "running" => proven]_vars
  <2>1. SUFFICES ASSUME IInv, Next, OneWindow, gw = "stopped", gw' = "running" PROVE proven
    BY DEF vars, net
  <2>2. SUFFICES gop.kind = "start" /\ mac = "static"
    BY <2>1 DEF IInv, Started, Network
  <2>3. gop.kind \notin {"reload"} BY <2>1 DEF IInv, Started
  <2>4. CASE ServiceCrash
    BY <2>1, <2>3, <2>4 DEF ServiceCrash, Orphaned, IInv, TypeOK, GatewayOps
  <2>5. CASE Reboot BY <2>1, <2>5 DEF Reboot
  <2>6. CASE UserTogglesRouter BY <2>1, <2>6 DEF UserTogglesRouter
  <2>7. CASE Operate
    BY <2>1, <2>3, <2>7 DEF Operate, StartDone, StartFails, StopDone, StopFails, ReloadDone,
                            ReloadFails, EndGateway
  <2>8. CASE \E c \in Clients : Handle(c)
    BY <2>1, <2>8 DEF Handle, Begin, BeginGateway, CallFails, Discover, SetManual, ProbeOff,
         ProbeRestored, ProbeAbandon, SetDHCP, ApplyConfig, Save, SaveCard, Discard, SaveConfig, net
  <2>9. QED BY <2>1, <2>4, <2>5, <2>6, <2>7, <2>8 DEF Next, Step
<1>2. QED BY <1>1, Invariance, PTL DEF Spec, StartHasEvidence

\* The card goes only while the record says "prepared", however many windows
\* there are: the two steps that remove it look at the record they remove.
THEOREM CardIsKept == Spec => CardKept
<1>1. [Next]_vars => [card /\ ~card' => rec.stage = "prepared"]_vars
  <2>1. SUFFICES ASSUME Next, card, ~card' PROVE rec.stage = "prepared"
    BY DEF vars
  <2>2. CASE \E c \in Clients : Handle(c)
    BY <2>1, <2>2 DEF Handle, Begin, BeginGateway, CallFails, Discover, SetManual, ProbeOff,
         ProbeRestored, ProbeAbandon, SetDHCP, ApplyConfig, Save, SaveCard, Discard, SaveConfig
  <2>3. CASE Operate \/ ServiceCrash \/ Reboot \/ UserTogglesRouter
    BY <2>1, <2>3 DEF Operate, StartDone, StartFails, StopDone, StopFails, ReloadDone,
         ReloadFails, EndGateway, ServiceCrash, Reboot, UserTogglesRouter
  <2>4. QED BY <2>1, <2>2, <2>3 DEF Next, Step
<1>2. QED BY <1>1, PTL DEF Spec, CardKept

-----------------------------------------------------------------------------
Moved(s, t) == t = s \/ <<s, t>> \in Documented

LEMMA SavedMoves ==
    ASSUME IInv, OneWindow, OnPage, NEW c \in Clients, req[c].kind \in Handlers \ {"config"},
           req[c].phase = "save", rec' = req[c].seen
    PROVE  Moved(rec.stage, rec'.stage)
<1> DEFINE k == req[c].kind
<1>1. HeldBy(req[c]) BY Knows
<1>2. /\ rec.stage \in AcceptedAt(k)
      /\ rec'.stage = Leads(k, rec.stage) \/ (k = "abandon" /\ rec'.stage = "complete_static")
      /\ k = "prepare" => rec.stage \in {"idle"} \cup Ended
  BY <1>1 DEF HeldBy
<1>3. CASE k = "prepare"
  <2>1. rec'.stage = "prepared" /\ rec.stage \in {"idle"} \cup Ended BY <1>2, <1>3 DEF Leads
  <2>2. QED BY <2>1 DEF Moved, Documented
<1>4. CASE k = "notes" BY <1>2, <1>4 DEF Leads, Moved
<1>5. CASE k = "static"
  <2>1. rec.stage = "prepared" /\ rec'.stage = "mac_static" BY <1>2, <1>5 DEF AcceptedAt, Leads
  <2>2. QED BY <2>1 DEF Moved, Documented
<1>6. CASE k = "probe"
  <2>1. rec.stage = "mac_static" /\ rec'.stage = "confirmed" BY <1>2, <1>6 DEF AcceptedAt, Leads
  <2>2. QED BY <2>1 DEF Moved, Documented
<1>7. CASE k = "abandon"
  <2>1. rec.stage \in {"mac_static", "confirmed"} /\ rec'.stage \in Ended
    BY <1>2, <1>7 DEF AcceptedAt, Leads, Ended
  <2>2. QED BY <2>1 DEF Moved, Documented
<1>8. CASE k \in {"validated", "skip"}
  <2>1. rec.stage = "active" /\ rec'.stage \in {"validated", "skipped"}
    BY <1>2, <1>8 DEF AcceptedAt, Leads
  <2>2. QED BY <2>1 DEF Moved, Documented
<1>9. CASE k \in {"restored", "manual"}
  <2>1. rec.stage = "waiting" /\ rec'.stage \in {"restored", "complete"}
    BY <1>2, <1>9 DEF AcceptedAt, Leads
  <2>2. QED BY <2>1 DEF Moved, Documented
<1>10. CASE k \in {"keep", "dhcp"}
  <2>1. rec.stage \in Undoing /\ rec'.stage \in Ended
    BY <1>2, <1>10 DEF AcceptedAt, Leads, Ended, Undoing
  <2>2. QED BY <2>1 DEF Moved, Documented
<1>11. QED BY <1>3, <1>4, <1>5, <1>6, <1>7, <1>8, <1>9, <1>10 DEF Handlers

LEMMA EndingMoves ==
    ASSUME IInv, OneWindow, OnPage, Operate
    PROVE  Moved(rec.stage, rec'.stage)
<1>1. Started /\ Moved(rec.stage, rec.stage) BY DEF IInv, Moved
<1>2. CASE StartDone
  <2>1. rec.stage = "confirmed" /\ rec'.stage \in {"active", rec.stage}
    BY <1>1, <1>2, RecordsOK DEF StartDone, EndGateway, Started
  <2>2. QED BY <2>1 DEF Moved, Documented
<1>3. CASE StartFails BY <1>1, <1>3 DEF StartFails, EndGateway, Started, Moved
<1>4. CASE StopDone
  <2>1. rec.stage \in Serving \cup {"confirmed"} /\ rec'.stage \in {"waiting", rec.stage}
    BY <1>1, <1>4, RecordsOK DEF StopDone, EndGateway, Started
  <2>2. QED BY <2>1 DEF Moved, Documented
<1>5. CASE StopFails BY <1>5 DEF StopFails, EndGateway, Moved
<1>6. CASE ReloadDone BY <1>6 DEF ReloadDone, EndGateway, Moved
<1>7. CASE ReloadFails
  <2>1. gop.before = rec /\ rec.stage \in Serving BY <1>1, <1>7 DEF ReloadFails, Started
  <2>2. rec'.stage \in {"confirmed", rec.stage}
    BY <1>7, <2>1, RecordsOK DEF ReloadFails, EndGateway
  <2>3. QED BY <2>1, <2>2 DEF Moved, Documented
<1>8. QED BY <1>2, <1>3, <1>4, <1>5, <1>6, <1>7 DEF Operate

\* One window at a time, calling what the page offers: no failure, crash or
\* reboot takes recovery.json off the stages of dhcp-recovery.md.
THEOREM StagesAsDocumented == Spec => StagesFollowDoc
<1>1. IInv /\ [Next]_vars =>
        [course' = {} /\ rec'.stage # rec.stage => <<rec.stage, rec'.stage>> \in Documented]_vars
  <2>1. SUFFICES ASSUME IInv, Next, course' = {} PROVE Moved(rec.stage, rec'.stage)
    BY DEF vars, Moved
  <2>2. Grown BY <2>1, Growth DEF IInv
  <2>3. OneWindow /\ OnPage BY <2>1, <2>2 DEF Grown, OneWindow, OnPage
  <2>4. CASE UNCHANGED rec BY <2>4 DEF Moved
  <2>5. CASE Operate BY <2>1, <2>3, <2>5, EndingMoves
  <2>6. CASE ServiceCrash \/ Reboot \/ UserTogglesRouter
    BY <2>4, <2>6 DEF ServiceCrash, Reboot, UserTogglesRouter
  <2>7. CASE \E c \in Clients : Handle(c)
    <3>1. PICK c \in Clients : Handle(c) BY <2>7
    <3>2. CASE Save(c) /\ rec' = req[c].seen
      <4>1. req[c].kind \in Handlers \ {"config"} /\ req[c].phase = "save"
        BY <2>1, <3>2 DEF Save, IInv, Linked
      <4>2. QED BY <2>1, <2>3, <3>2, <4>1, SavedMoves
    <3>3. CASE SaveCard(c) /\ rec' = Empty
      <4>1. req[c].phase = "card" BY <3>3 DEF SaveCard
      <4>2. rec.stage = "prepared" BY <2>1, <2>3, <4>1, Knows DEF HeldBy
      <4>3. QED BY <3>3, <4>2, EmptyRecord DEF Moved, Documented
    <3>4. CASE Discard(c) /\ rec' = Empty
      BY <3>4, EmptyRecord DEF Discard, Moved, Documented
    <3>5. CASE SaveConfig(c) /\ rec' = Empty
      <4>1. req[c].kind = "config" /\ req[c].phase = "save" /\ "config" \in Handlers
        BY <3>5 DEF SaveConfig, Handlers
      <4>2. rec.stage \in {"idle", "prepared"} \cup Ended
        BY <2>1, <2>3, <4>1, Knows DEF HeldBy, AcceptedAt
      <4>3. QED BY <3>5, <4>2, EmptyRecord DEF Moved, Documented
    <3>6. QED
      BY <2>4, <3>1, <3>2, <3>3, <3>4, <3>5 DEF Handle, Begin, BeginGateway, CallFails, Discover,
         SetManual, ProbeOff, ProbeRestored, ProbeAbandon, SetDHCP, ApplyConfig, Save, SaveCard,
         Discard, SaveConfig
  <2>8. QED BY <2>1, <2>5, <2>6, <2>7 DEF Next, Step
<1>2. QED BY <1>1, Invariance, PTL DEF Spec, StagesFollowDoc
=============================================================================
