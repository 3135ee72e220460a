------------------------ MODULE PreparedEngineProofs ------------------------
(***************************************************************************)
(* Two parts.  The engine: one at a time, each on record, none taken from  *)
(* a page that has a lease, and none forgotten when the last page goes:    *)
(* proved for any number of connections, processes, failures, crashes and  *)
(* reboots.  And the document it is given: the layers a profile is made of *)
(* (ProfilePipeline), proved for any sources, drafts and networks.         *)
(***************************************************************************)
EXTENDS PreparedEngine, ProfilePipeline, FiniteSetTheorems, SequenceTheorems,
        WellFoundedInduction, TLAPS


(***************************************************************************)
(* The inductive invariant.                                                *)
(***************************************************************************)
Stages == {None, "lock", "check", "stop", "kill", "gone", "forget",
           "intent", "fork", "save", "ready", "gateway"}
Ops == [kind : Kinds \cup {None}, pc : Stages, child : Pids \cup {None},
        by : Conns \cup {None}, starts : Nat, failed : BOOLEAN]

Shapes ==
    /\ proc \in [Pids -> {"free", "prepared", "gateway", "dying"}]
    /\ journal \in [state : {None, "intent", "owned"}, pid : Pids \cup {None}, boot : BOOLEAN]
    /\ gateway \in [exists : BOOLEAN, pid : Pids \cup {None}, boot : BOOLEAN]
    /\ op \in [Actors -> Ops]
    /\ conn \in [Conns -> {"free", "held", "closed", "retry"}]

\* Whoever is past taking the lock has it.
Waiting(r) == r.pc \in {None, "lock"}
Exclusive  == \A a \in Actors : Waiting(op[a]) \/ lock = a

\* What is so of the world at each stage of the operation that has the lock.
StagedFor(r) ==
    /\ r.pc \in {"lock", "check"} => r.kind # "undo"
    /\ r.pc \in {"kill", "gone"} => journal.state = "owned"
    /\ r.pc = "intent" => journal.state = None
    /\ r.pc \in {"fork", "save"} => journal.state = "intent" /\ journal.boot
    /\ r.pc = "fork" => Prepared = {}
    /\ r.pc = "save" => Prepared \subseteq {r.child}
    /\ r.pc = "forget" => /\ journal.state # None
                          /\ journal.boot => journal.state = "owned" /\ ~Alive(journal.pid)
    /\ r.pc \in {"intent", "fork", "save", "ready"} => r.kind = "prepare"
    /\ r.kind \in {"prepare", "undo", "start"} /\ r.pc \notin {None, "lock", "check"} =>
           ~gateway.exists
    /\ r.kind = "start" /\ r.pc = "gateway" => Prepared = {}
Staged == \A a \in Actors : StagedFor(op[a])

\* Which processes there can be.
Named   == journal.state = "owned" => Prepared \subseteq {journal.pid}
Gateway == \A p \in Pids : proc[p] = "gateway" =>
               gateway.exists /\ gateway.boot /\ gateway.pid = p
Slow    == "slow" \in happened \/ \A p \in Pids : proc[p] # "dying"
Single  == "slow" \in happened \/ \A p, q \in Running : p = q
World   == EngineIsJournaled /\ Named /\ Gateway /\ Slow /\ Single

\* While a release is under way nobody can take a lease.
ReleaseAlone == op["helper"].kind = "release" => Holders = {}

IInv == Shapes /\ Exclusive /\ Staged /\ World /\ ReleaseAlone

-----------------------------------------------------------------------------
LEMMA InitIInv == Init => IInv
BY DEF Init, IInv, Shapes, Exclusive, Staged, StagedFor, World, ReleaseAlone, Waiting, Idle, Ops,
       Kinds, Stages, Actors, NoJournal, NoGateway, EngineIsJournaled, Named, Gateway, Slow, Single,
       Prepared, Running, Holders, None

-----------------------------------------------------------------------------
(***************************************************************************)
(* How an operation goes on or ends.                                       *)
(***************************************************************************)
ConnType == [Conns -> {"free", "held", "closed", "retry"}]

\* The operation of a becomes r; the lock is kept, or given back with it.
Turn(a, r) ==
    /\ r \in Ops /\ op' = [op EXCEPT ![a] = r]
    /\ lock' = lock \/ (r.pc = None /\ lock = a /\ lock' = None)
    /\ conn' \in ConnType /\ Holders' \subseteq Holders
    /\ r.kind = "release" => op[a].kind = "release"

GoesTo(a, pc, kind) ==
    \E r \in Ops : /\ r.pc = pc /\ r.kind = kind /\ r.child = op[a].child
                   /\ Turn(a, r)

LEMMA IdleIsOp == Idle \in Ops /\ Idle.pc = None /\ Idle.kind = None
BY DEF Idle, Ops, Kinds, Stages

LEMMA Moved == ASSUME IInv, NEW a \in Actors, NEW pc \in Stages \ {None}, Step(a, pc)
               PROVE  GoesTo(a, pc, op[a].kind)
<1> DEFINE r == [op[a] EXCEPT !.pc = pc]
<1>1. op[a] \in Ops /\ r \in Ops /\ r.pc = pc /\ r.kind = op[a].kind /\ r.child = op[a].child
  BY DEF IInv, Shapes, Ops
<1>2. op' = [op EXCEPT ![a] = r] /\ UNCHANGED <<lock, conn>>
  BY DEF Step, leases
<1>3. Turn(a, r)
  BY <1>1, <1>2 DEF Turn, IInv, Shapes, Holders, ConnType
<1>4. QED BY <1>1, <1>3 DEF GoesTo

LEMMA Dropped == ASSUME Shapes, DropLease PROVE conn' \in ConnType /\ Holders' = Holders
BY DEF Shapes, DropLease, Holders, ConnType

LEMMA Failed == ASSUME IInv, NEW a \in Actors, Fail(a) PROVE Turn(a, Idle)
<1>1. op' = [op EXCEPT ![a] = Idle] /\ lock' = IF lock = a THEN None ELSE lock
  BY DEF Fail, Unlock
<1>2. conn' \in ConnType /\ Holders' \subseteq Holders
  <2>1. CASE op[a].kind \in {"prepare", "undo"}
    BY <2>1, Dropped DEF Fail, IInv
  <2>2. CASE op[a].kind = "release"
    BY <2>2 DEF Fail, IInv, Shapes, Holders, ConnType
  <2>3. CASE op[a].kind \notin {"prepare", "undo", "release"}
    BY <2>3 DEF Fail, IInv, Shapes, Holders, leases, ConnType
  <2>4. QED BY <2>1, <2>2, <2>3
<1>3. QED BY <1>1, <1>2, IdleIsOp DEF Turn, None

LEMMA Succeeded == ASSUME IInv, NEW a \in Actors, Succeed(a) PROVE Turn(a, Idle)
<1>1. op' = [op EXCEPT ![a] = Idle] /\ lock' = IF lock = a THEN None ELSE lock
  BY DEF Succeed, Unlock
<1>2. conn' \in ConnType /\ Holders' \subseteq Holders
  BY DEF Succeed, IInv, Shapes, Holders, leases, service, ConnType
<1>3. QED BY <1>1, <1>2, IdleIsOp DEF Turn, None

\* Giving up is the end, of a stop the way to the gateway, or a second try.
LEMMA GivenUp == ASSUME IInv, NEW a \in Actors, GiveUp(a)
                 PROVE  \/ Turn(a, Idle)
                        \/ op[a].kind = "stop" /\ GoesTo(a, "gateway", "stop")
                        \/ op[a].kind = "undo" /\ GoesTo(a, "stop", "undo")
<1>0. op[a] \in Ops /\ {"gateway", "stop"} \subseteq Stages
  BY DEF IInv, Shapes, Stages
<1>1. CASE op[a].kind # "stop" /\ Fail(a)
  BY <1>1, Failed
<1>2. ASSUME NEW pc \in {"gateway", "stop"}, UNCHANGED <<lock, leases, service>>,
             op' = [op EXCEPT ![a].pc = pc, ![a].failed = TRUE]
      PROVE  GoesTo(a, pc, op[a].kind)
  <2> DEFINE r == [op[a] EXCEPT !.pc = pc, !.failed = TRUE]
  <2>1. r \in Ops /\ r.pc = pc /\ r.kind = op[a].kind /\ r.child = op[a].child
    BY <1>0 DEF Ops
  <2>2. op' = [op EXCEPT ![a] = r] /\ UNCHANGED <<lock, conn>>
    BY <1>2 DEF leases, IInv, Shapes, Ops
  <2>3. Turn(a, r)
    BY <2>1, <2>2 DEF Turn, IInv, Shapes, Holders, ConnType
  <2>4. QED BY <2>1, <2>3 DEF GoesTo
<1>3. CASE /\ op[a].kind = "stop" /\ UNCHANGED <<lock, leases, service>>
           /\ op' = [op EXCEPT ![a].pc = "gateway", ![a].failed = TRUE]
  BY <1>2, <1>3
<1>4. CASE /\ op[a].kind = "undo" /\ UNCHANGED <<lock, leases, service>>
           /\ op' = [op EXCEPT ![a].pc = "stop", ![a].failed = TRUE]
  BY <1>2, <1>4
<1>5. QED BY <1>1, <1>3, <1>4 DEF GiveUp

\* Onward leads to an end, to a new engine, or to the gateway.
LEMMA Continued ==
    ASSUME IInv, NEW a \in Actors, Onward(a)
    PROVE  \/ Turn(a, Idle)
           \/ op[a].kind \in {"prepare", "undo"} /\ GoesTo(a, "intent", "prepare")
           \/ op[a].kind \in {"start", "stop"} /\ GoesTo(a, "gateway", op[a].kind)
<1>0. {"intent", "gateway"} \subseteq Stages \ {None}
  BY DEF Stages, None
<1>1. CASE op[a].kind = "prepare"
  BY <1>0, <1>1, Moved DEF Onward
<1>2. CASE op[a].kind \in {"start", "stop"}
  BY <1>0, <1>2, Moved DEF Onward
<1>3. CASE op[a].kind = "undo"
  <2>1. CASE Fail(a) BY <2>1, Failed
  <2>2. CASE ~Fail(a)
    <3> DEFINE r == [op[a] EXCEPT !.pc = "intent", !.kind = "prepare", !.failed = FALSE]
    <3>0. op[a] \in Ops /\ "intent" \in Stages /\ "prepare" \in Kinds
      BY DEF IInv, Shapes, Stages, Kinds
    <3>1. r \in Ops /\ r.pc = "intent" /\ r.kind = "prepare" /\ r.child = op[a].child
      BY <3>0 DEF Ops
    <3>2. op' = [op EXCEPT ![a] = r] /\ UNCHANGED <<lock, conn>>
      BY <1>3, <2>2 DEF Onward, leases, IInv, Shapes, Ops
    <3>3. Turn(a, r)
      BY <3>1, <3>2 DEF Turn, IInv, Shapes, Holders, ConnType
    <3>4. QED BY <1>3, <3>1, <3>3 DEF GoesTo
  <2>3. QED BY <2>1, <2>2
<1>4. CASE op[a].kind \notin {"prepare", "undo", "start", "stop"}
  BY <1>4, Succeeded DEF Onward
<1>5. QED BY <1>1, <1>2, <1>3, <1>4

\* The parts of the invariant about operations.
OfOps == /\ Exclusive /\ Staged /\ ReleaseAlone
         /\ op \in [Actors -> Ops] /\ conn \in ConnType

\* A turn of whoever has the lock keeps them, if its new stage fits the world.
LEMMA Turned ==
    ASSUME IInv, NEW a \in Actors, NEW r \in Ops, Turn(a, r), StagedFor(r)',
           r.pc = None \/ ~Waiting(op[a]),
           Waiting(op[a]) => UNCHANGED <<proc, journal, gateway>>
    PROVE  OfOps'
<1>1. op' \in [Actors -> Ops] /\ op'[a] = r /\ \A b \in Actors \ {a} : op'[b] = op[b]
  BY DEF IInv, Shapes, Turn
<1>2. Exclusive'
  BY <1>1 DEF IInv, Exclusive, Turn, Waiting
<1>3. ASSUME NEW b \in Actors PROVE StagedFor(op[b])'
  <2>0. StagedFor(op[b]) BY DEF IInv, Staged
  <2>1. CASE b = a BY <2>1, <1>1 DEF StagedFor
  <2>2. CASE b # a /\ Waiting(op[b])
    BY <2>0, <2>2, <1>1 DEF StagedFor, Waiting, None
  <2>3. CASE b # a /\ ~Waiting(op[b])
    <3>1. Waiting(op[a]) BY <2>3 DEF IInv, Exclusive
    <3>2. UNCHANGED <<proc, journal, gateway>> BY <3>1
    <3>3. QED BY <2>0, <1>1, <2>3, <3>2 DEF StagedFor, Prepared, Alive, Running
  <2>4. QED BY <2>1, <2>2, <2>3
<1>4. ReleaseAlone'
  <2>1. CASE a = "helper" BY <2>1, <1>1 DEF Turn, IInv, ReleaseAlone
  <2>2. CASE a # "helper" BY <2>2, <1>1 DEF Turn, IInv, ReleaseAlone, Actors
  <2>3. QED BY <2>1, <2>2
<1>5. QED BY <1>1, <1>2, <1>3, <1>4 DEF Staged, Turn, OfOps

LEMMA Ended ==
    ASSUME IInv, NEW a \in Actors, Turn(a, Idle),
           Waiting(op[a]) => UNCHANGED <<proc, journal, gateway>>
    PROVE  OfOps'
<1>1. StagedFor(Idle)' BY DEF StagedFor, Idle, None
<1>2. QED BY <1>1, IdleIsOp, Turned

LEMMA Together == ASSUME OfOps', World',
                         proc' \in [Pids -> {"free", "prepared", "gateway", "dying"}],
                         journal' \in [state : {None, "intent", "owned"}, pid : Pids \cup {None},
                                       boot : BOOLEAN],
                         gateway' \in [exists : BOOLEAN, pid : Pids \cup {None}, boot : BOOLEAN]
                  PROVE  IInv'
BY DEF OfOps, IInv, Shapes, ConnType

-----------------------------------------------------------------------------
(***************************************************************************)
(* Processes that only end.                                                *)
(***************************************************************************)
Shrinks ==
    /\ proc' \in [Pids -> {"free", "prepared", "gateway", "dying"}]
    /\ \A p \in Pids : \/ proc'[p] \in {proc[p], "free"}
                       \/ proc'[p] = "dying" /\ "slow" \in happened'
    /\ happened \subseteq happened'

LEMMA Fewer == ASSUME IInv, Shrinks, UNCHANGED <<journal, gateway>> PROVE World'
<1>1. Prepared' \subseteq Prepared BY DEF Shrinks, Prepared
<1>2. "slow" \notin happened' => Running' \subseteq Running BY DEF Shrinks, Running
<1>3. EngineIsJournaled' /\ Named'
  BY <1>1 DEF IInv, World, EngineIsJournaled, Named
<1>4. Gateway' /\ Slow' BY DEF IInv, World, Gateway, Slow, Shrinks
<1>5. Single' BY <1>2 DEF IInv, World, Single, Shrinks
<1>6. QED BY <1>3, <1>4, <1>5 DEF World

LEMMA Kinder == ASSUME NEW a \in Actors, NEW k
                PROVE  /\ Fine => happened' = happened
                       /\ Fault(k) => happened' = happened \cup {k}
                       /\ Fails(a, k) => happened \subseteq happened'
BY DEF Fine, Fault, Faulty, Fails

\* A step that ends no process and writes no record keeps the rest.
LEMMA SameWorld == ASSUME IInv, OfOps', UNCHANGED <<proc, disk>>, happened \subseteq happened'
                   PROVE  IInv'
<1>1. Shrinks BY DEF IInv, Shapes, Shrinks
<1>2. World' BY <1>1, Fewer DEF disk
<1>3. QED BY <1>2, Together DEF IInv, Shapes, disk

-----------------------------------------------------------------------------
(***************************************************************************)
(* The steps of an operation.                                              *)
(***************************************************************************)
LEMMA TakeLockKeeps == ASSUME IInv, NEW a \in Actors, TakeLock(a) PROVE IInv'
<1>1. UNCHANGED <<proc, disk>> /\ happened \subseteq happened' /\ op[a].pc = "lock"
  BY DEF TakeLock, At, Fine, Fault, Faulty
<1>2. OfOps'
  <2>1. CASE op' = [op EXCEPT ![a].pc = "check"] /\ lock = None /\ lock' = a /\ UNCHANGED conn
    <3> DEFINE r == [op[a] EXCEPT !.pc = "check"]
    <3>1. /\ op' \in [Actors -> Ops] /\ op'[a].pc = "check" /\ op'[a].kind = op[a].kind
          /\ \A b \in Actors \ {a} : op'[b] = op[b]
      BY <2>1 DEF IInv, Shapes, Ops, Stages
    <3>2. \A b \in Actors : Waiting(op[b])
      BY <2>1 DEF IInv, Exclusive, Actors, None
    <3>3. Exclusive' BY <3>1, <3>2, <2>1 DEF Exclusive, Waiting
    <3>4. StagedFor(op[a])' BY <1>1, <3>1 DEF IInv, Staged, StagedFor, None
    <3>5. \A b \in Actors \ {a} : StagedFor(op[b])'
      BY <3>1, <3>2 DEF IInv, Staged, StagedFor, Waiting, None
    <3>6. ReleaseAlone' BY <2>1, <3>1 DEF IInv, ReleaseAlone, Holders, Actors
    <3>7. QED BY <2>1, <3>1, <3>3, <3>4, <3>5, <3>6 DEF OfOps, Staged, IInv, Shapes, ConnType
  <2>2. CASE Fail(a)
    BY <1>1, <2>2, Failed, Ended DEF disk
  <2>3. CASE /\ op' = [op EXCEPT ![a] = Idle] /\ UNCHANGED lock
             /\ conn' = [conn EXCEPT ![op[a].by] = "retry"]
    <3>1. conn' \in ConnType /\ Holders' \subseteq Holders
      BY <2>3 DEF IInv, Shapes, ConnType, Holders
    <3>2. Turn(a, Idle) BY <2>3, <3>1, IdleIsOp DEF Turn, None
    <3>3. QED BY <1>1, <3>2, Ended DEF disk
  <2>4. QED BY <2>1, <2>2, <2>3 DEF TakeLock, leases
<1>3. QED BY <1>1, <1>2, SameWorld

LEMMA CheckKeeps == ASSUME IInv, NEW a \in Actors, Check(a) PROVE IInv'
<1>1. UNCHANGED <<proc, disk>> /\ op[a].pc = "check" BY DEF Check, At
<1>2. happened \subseteq happened'
  BY DEF Check, Fine, Fails, Fault, Faulty
<1>3. ~Waiting(op[a]) /\ op[a].kind # "undo"
  BY <1>1 DEF Waiting, None, IInv, Staged, StagedFor
<1>4. \/ Succeed(a) \/ Fail(a)
      \/ Step(a, "stop") /\ (op[a].kind \in {"prepare", "start"} => ~gateway.exists)
  BY DEF Check
<1>5. OfOps'
  <2>1. CASE Succeed(a) BY <1>1, <2>1, Succeeded, Ended DEF disk
  <2>2. CASE Fail(a) BY <1>1, <2>2, Failed, Ended DEF disk
  <2>3. CASE Step(a, "stop") /\ (op[a].kind \in {"prepare", "start"} => ~gateway.exists)
    <3>1. GoesTo(a, "stop", op[a].kind) BY <2>3, Moved DEF Stages, None
    <3>2. PICK r \in Ops : r.pc = "stop" /\ r.kind = op[a].kind /\ Turn(a, r)
      BY <3>1 DEF GoesTo
    <3>3. StagedFor(r)' BY <1>1, <1>3, <2>3, <3>2 DEF StagedFor, disk
    <3>4. QED BY <1>3, <3>2, <3>3, Turned
  <2>4. QED BY <1>4, <2>1, <2>2, <2>3
<1>6. QED BY <1>1, <1>2, <1>5, SameWorld

\* Where the prepared engine has gone, the operation goes on; the record has
\* gone with it.
LEMMA ContinuedKeeps ==
    ASSUME IInv, NEW a \in Actors, Onward(a), op[a].pc \in {"stop", "forget"},
           Prepared' = {}, UNCHANGED <<proc, gateway>>, journal' = NoJournal \/ journal'.state = None
    PROVE  OfOps'
<1>1. ~Waiting(op[a]) BY DEF Waiting, None
<1>2. op[a].kind \in {"prepare", "undo", "start"} => ~gateway.exists
  BY DEF IInv, Staged, StagedFor, None
<1>3. journal'.state = None BY DEF NoJournal
<1>4. CASE Turn(a, Idle) BY <1>1, <1>4, Ended
<1>5. CASE op[a].kind \in {"prepare", "undo"} /\ GoesTo(a, "intent", "prepare")
  <2>1. PICK r \in Ops : r.pc = "intent" /\ r.kind = "prepare" /\ Turn(a, r)
    BY <1>5 DEF GoesTo
  <2>2. StagedFor(r)' BY <1>2, <1>3, <1>5, <2>1 DEF StagedFor
  <2>3. QED BY <1>1, <2>1, <2>2, Turned
<1>6. CASE op[a].kind \in {"start", "stop"} /\ GoesTo(a, "gateway", op[a].kind)
  <2>1. PICK r \in Ops : r.pc = "gateway" /\ r.kind = op[a].kind /\ Turn(a, r)
    BY <1>6 DEF GoesTo
  <2>2. StagedFor(r)' BY <1>2, <1>6, <2>1 DEF StagedFor
  <2>3. QED BY <1>1, <2>1, <2>2, Turned
<1>7. QED BY <1>4, <1>5, <1>6, Continued

LEMMA GivenUpKeeps ==
    ASSUME IInv, NEW a \in Actors, GiveUp(a), UNCHANGED gateway,
           op[a].pc \in {"stop", "kill", "gone", "forget"}
    PROVE  OfOps'
<1>0. ~Waiting(op[a]) /\ (op[a].kind = "undo" => ~gateway.exists)
  BY DEF Waiting, None, IInv, Staged, StagedFor
<1>1. CASE Turn(a, Idle) BY <1>0, <1>1, Ended
<1>2. CASE op[a].kind = "stop" /\ GoesTo(a, "gateway", "stop")
  <2>1. PICK r \in Ops : r.pc = "gateway" /\ r.kind = "stop" /\ Turn(a, r)
    BY <1>2 DEF GoesTo
  <2>2. StagedFor(r)' BY <2>1 DEF StagedFor
  <2>3. QED BY <1>0, <2>1, <2>2, Turned
<1>3. CASE op[a].kind = "undo" /\ GoesTo(a, "stop", "undo")
  <2>1. PICK r \in Ops : r.pc = "stop" /\ r.kind = "undo" /\ Turn(a, r)
    BY <1>3 DEF GoesTo
  <2>2. StagedFor(r)' BY <1>0, <1>3, <2>1 DEF StagedFor
  <2>3. QED BY <1>0, <2>1, <2>2, Turned
<1>4. QED BY <1>1, <1>2, <1>3, GivenUp

LEMMA StopCheckKeeps == ASSUME IInv, NEW a \in Actors, StopCheck(a) PROVE IInv'
<1>1. UNCHANGED <<proc, disk>> /\ op[a].pc = "stop" /\ happened' = happened
  BY DEF StopCheck, At, Fine
<1>2. /\ ~Waiting(op[a])
      /\ op[a].kind \in {"prepare", "undo", "start"} => ~gateway.exists
  BY <1>1 DEF Waiting, None, IInv, Staged, StagedFor
<1>3. OfOps'
  <2>1. CASE journal.state = None
    <3>1. Onward(a) BY <2>1 DEF StopCheck, None
    <3>2. Prepared' = {} BY <1>1, <2>1 DEF IInv, World, EngineIsJournaled, Prepared
    <3>3. QED BY <1>1, <2>1, <3>1, <3>2, ContinuedKeeps DEF disk
  <2>2. CASE journal.state = "intent" /\ journal.boot
    BY <1>1, <2>2, GivenUpKeeps DEF StopCheck, None, disk
  <2>3. CASE journal.state # None /\ ~journal.boot
    <3>1. Step(a, "forget") BY <2>3 DEF StopCheck, None
    <3>2. GoesTo(a, "forget", op[a].kind) BY <3>1, Moved DEF Stages, None
    <3>3. PICK r \in Ops : r.pc = "forget" /\ r.kind = op[a].kind /\ Turn(a, r)
      BY <3>2 DEF GoesTo
    <3>4. StagedFor(r)' BY <1>1, <1>2, <2>3, <3>3 DEF StagedFor, disk
    <3>5. QED BY <1>2, <3>3, <3>4, Turned
  <2>4. CASE journal.state = "owned" /\ journal.boot
    <3>1. PICK pc \in {"kill", "forget"} :
             Step(a, pc) /\ (pc = "forget" => ~Alive(journal.pid))
      BY <2>4 DEF StopCheck, None
    <3>2. GoesTo(a, pc, op[a].kind) BY <3>1, Moved DEF Stages, None
    <3>3. PICK r \in Ops : r.pc = pc /\ r.kind = op[a].kind /\ Turn(a, r)
      BY <3>2 DEF GoesTo
    <3>4. StagedFor(r)'
      BY <1>1, <1>2, <2>4, <3>1, <3>3 DEF StagedFor, disk, None, Alive, Running
    <3>5. QED BY <1>2, <3>3, <3>4, Turned
  <2>5. QED BY <2>1, <2>2, <2>3, <2>4 DEF IInv, Shapes
<1>4. QED BY <1>1, <1>3, SameWorld

LEMMA StopPIDShrinks == ASSUME IInv, NEW p, StopPID(p) PROVE Shrinks
BY DEF StopPID, Shrinks, IInv, Shapes, Fine, Fault, Faulty

LEMMA KillKeeps == ASSUME IInv, NEW a \in Actors, Kill(a) PROVE IInv'
<1>1. UNCHANGED <<disk, journal, gateway>> /\ op[a].pc = "kill" BY DEF Kill, At, disk
<1>2. /\ ~Waiting(op[a]) /\ journal.state = "owned"
      /\ op[a].kind \in {"prepare", "undo", "start"} => ~gateway.exists
  BY <1>1 DEF Waiting, None, IInv, Staged, StagedFor
<1>3. CASE StopPID(journal.pid) /\ Step(a, "gone")
  <2>1. Shrinks BY <1>3, StopPIDShrinks
  <2>2. GoesTo(a, "gone", op[a].kind) BY <1>3, Moved DEF Stages, None
  <2>3. PICK r \in Ops : r.pc = "gone" /\ r.kind = op[a].kind /\ Turn(a, r)
    BY <2>2 DEF GoesTo
  <2>4. StagedFor(r)' BY <1>1, <1>2, <2>3 DEF StagedFor
  <2>5. OfOps' BY <1>2, <2>3, <2>4, Turned
  <2>6. World' BY <1>1, <2>1, Fewer
  <2>7. QED BY <1>1, <2>1, <2>5, <2>6, Together DEF IInv, Shapes, Shrinks
<1>4. CASE UNCHANGED proc /\ GiveUp(a) /\ Fails(a, "cmd")
  <2>1. OfOps' BY <1>1, <1>4, GivenUpKeeps
  <2>2. QED BY <1>1, <1>4, <2>1, SameWorld, Kinder
<1>5. QED BY <1>3, <1>4 DEF Kill

LEMMA AwaitExitKeeps == ASSUME IInv, NEW a \in Actors, AwaitExit(a) PROVE IInv'
<1>1. UNCHANGED <<proc, disk>> /\ op[a].pc = "gone" /\ happened' = happened
  BY DEF AwaitExit, At, Fine
<1>2. /\ ~Waiting(op[a]) /\ journal.state = "owned"
      /\ op[a].kind \in {"prepare", "undo", "start"} => ~gateway.exists
  BY <1>1 DEF Waiting, None, IInv, Staged, StagedFor
<1>3. CASE Alive(journal.pid)
  <2>1. OfOps' BY <1>1, <1>3, GivenUpKeeps DEF AwaitExit, disk
  <2>2. QED BY <1>1, <2>1, SameWorld
<1>4. CASE ~Alive(journal.pid)
  <2>1. Step(a, "forget") BY <1>4 DEF AwaitExit
  <2>2. GoesTo(a, "forget", op[a].kind) BY <2>1, Moved DEF Stages, None
  <2>3. PICK r \in Ops : r.pc = "forget" /\ r.kind = op[a].kind /\ Turn(a, r)
    BY <2>2 DEF GoesTo
  <2>4. StagedFor(r)'
    BY <1>1, <1>2, <1>4, <2>3 DEF StagedFor, disk, None, Alive, Running
  <2>5. OfOps' BY <1>2, <2>3, <2>4, Turned
  <2>6. QED BY <1>1, <2>5, SameWorld
<1>5. QED BY <1>3, <1>4

LEMMA ForgetKeeps == ASSUME IInv, NEW a \in Actors, Forget(a) PROVE IInv'
<1>1. UNCHANGED <<proc, gateway>> /\ op[a].pc = "forget" BY DEF Forget, At
<1>2. ~Waiting(op[a]) BY <1>1 DEF Waiting, None
<1>3. Prepared = {} /\ Prepared' = {}
  <2>1. /\ journal.state # None
        /\ journal.boot => journal.state = "owned" /\ ~Alive(journal.pid)
    BY <1>1 DEF IInv, Staged, StagedFor
  <2>2. CASE ~journal.boot
    BY <1>1, <2>2 DEF IInv, World, EngineIsJournaled, Prepared
  <2>3. CASE journal.boot
    BY <1>1, <2>1, <2>3 DEF IInv, World, Named, Prepared, Alive, Running
  <2>4. QED BY <2>2, <2>3
<1>4. CASE journal' = NoJournal /\ Fine /\ Onward(a)
  <2>1. OfOps' BY <1>1, <1>3, <1>4, ContinuedKeeps
  <2>2. World'
    BY <1>1, <1>3, <1>4 DEF IInv, World, EngineIsJournaled, Named, Gateway, Slow, Single,
                            NoJournal, Fine, Running, None
  <2>3. QED BY <1>1, <1>4, <2>1, <2>2, Together DEF IInv, Shapes, NoJournal
<1>5. CASE UNCHANGED journal /\ GiveUp(a) /\ Fails(a, "save")
  <2>1. OfOps' BY <1>1, <1>5, GivenUpKeeps
  <2>2. QED BY <1>1, <1>5, <2>1, SameWorld, Kinder DEF disk
<1>6. QED BY <1>4, <1>5 DEF Forget

LEMMA WriteIntentKeeps == ASSUME IInv, NEW a \in Actors, WriteIntent(a) PROVE IInv'
<1>1. UNCHANGED <<proc, gateway>> /\ op[a].pc = "intent" BY DEF WriteIntent, At
<1>2. /\ ~Waiting(op[a]) /\ journal.state = None /\ op[a].kind = "prepare" /\ ~gateway.exists
  BY <1>1 DEF Waiting, None, IInv, Staged, StagedFor
<1>3. Prepared = {} /\ Prepared' = {}
  BY <1>1, <1>2 DEF IInv, World, EngineIsJournaled, Prepared
<1>4. CASE /\ journal' = [state |-> "intent", pid |-> None, boot |-> TRUE] /\ Fine
           /\ op' = [op EXCEPT ![a].pc = "fork", ![a].starts = @ + 1]
           /\ UNCHANGED <<lock, leases, service>>
  <2> DEFINE r == [op[a] EXCEPT !.pc = "fork", !.starts = @ + 1]
  <2>01. op[a] \in Ops /\ "fork" \in Stages
    BY DEF IInv, Shapes, Stages
  <2>0. op[a] \in Ops /\ "fork" \in Stages /\ op[a].starts + 1 \in Nat
    BY <2>01 DEF Ops
  <2>1. r \in Ops /\ r.pc = "fork" /\ r.kind = "prepare"
    BY <1>2, <2>0 DEF Ops
  <2>2. op' = [op EXCEPT ![a] = r] BY <1>4 DEF IInv, Shapes, Ops
  <2>3. Turn(a, r)
    BY <1>4, <2>1, <2>2 DEF Turn, IInv, Shapes, Holders, ConnType, leases
  <2>4. PICK x \in Ops : x = r BY <2>1
  <2>5. StagedFor(x)'
    BY <1>1, <1>2, <1>3, <1>4, <2>1, <2>4 DEF StagedFor, None
  <2>6. OfOps' BY <1>2, <2>3, <2>4, <2>5, Turned
  <2>7. World'
    BY <1>1, <1>3, <1>4 DEF IInv, World, EngineIsJournaled, Named, Gateway, Slow, Single,
                            Fine, Running, None
  <2>8. QED BY <1>1, <1>4, <2>6, <2>7, Together DEF IInv, Shapes
<1>5. CASE UNCHANGED journal /\ Fail(a) /\ Fails(a, "save")
  <2>1. OfOps' BY <1>2, <1>5, Failed, Ended
  <2>2. QED BY <1>1, <1>5, <2>1, SameWorld, Kinder DEF disk
<1>6. QED BY <1>4, <1>5 DEF WriteIntent

\* Removing the record is right where no prepared engine is left.
LEMMA Cleared == ASSUME IInv, Shrinks, RemoveRecord, Prepared' = {}, UNCHANGED gateway
                 PROVE  /\ World'
                        /\ journal' \in [state : {None, "intent", "owned"}, pid : Pids \cup {None},
                                         boot : BOOLEAN]
<1>1. CASE UNCHANGED journal BY <1>1, Fewer DEF IInv, Shapes
<1>2. CASE journal' = NoJournal
  <2>1. EngineIsJournaled' /\ Named' BY DEF EngineIsJournaled, Named
  <2>2. Gateway' /\ Slow' BY DEF IInv, World, Gateway, Slow, Shrinks
  <2>3. Single' BY DEF IInv, World, Single, Shrinks, Running
  <2>4. QED BY <1>2, <2>1, <2>2, <2>3 DEF World, NoJournal
<1>3. QED BY <1>1, <1>2 DEF RemoveRecord

LEMMA ForkKeeps == ASSUME IInv, NEW a \in Actors, Fork(a) PROVE IInv'
<1>1. UNCHANGED gateway /\ op[a].pc = "fork" BY DEF Fork, At
<1>2. /\ ~Waiting(op[a]) /\ journal.state = "intent" /\ journal.boot /\ Prepared = {}
      /\ op[a].kind = "prepare" /\ ~gateway.exists
  BY <1>1 DEF Waiting, None, IInv, Staged, StagedFor
<1>3. ASSUME NEW p \in Unused, proc' = [proc EXCEPT ![p] = "prepared"],
             op' = [op EXCEPT ![a].pc = "save", ![a].child = p],
             UNCHANGED <<journal, lock, leases, service>>, Fine
      PROVE  IInv'
  <2> DEFINE r == [op[a] EXCEPT !.pc = "save", !.child = p]
  <2>0. p \in Pids /\ op[a] \in Ops /\ "save" \in Stages
    BY DEF Unused, IInv, Shapes, Stages
  <2>1. r \in Ops /\ r.pc = "save" /\ r.kind = "prepare" /\ r.child = p
    BY <1>2, <2>0 DEF Ops
  <2>2. op' = [op EXCEPT ![a] = r] BY <1>3 DEF IInv, Shapes, Ops
  <2>3. Turn(a, r)
    BY <1>3, <2>1, <2>2 DEF Turn, IInv, Shapes, Holders, ConnType, leases
  <2>4. PICK x \in Ops : x = r BY <2>1
  <2>5. Prepared' = {p} BY <1>2, <1>3, <2>0 DEF IInv, Shapes, Prepared
  <2>6. StagedFor(x)'
    BY <1>1, <1>2, <1>3, <2>1, <2>4, <2>5 DEF StagedFor, None
  <2>7. OfOps' BY <1>2, <2>3, <2>4, <2>6, Turned
  <2>8. EngineIsJournaled' /\ Named' BY <1>2, <1>3 DEF EngineIsJournaled, Named, None
  <2>9. Gateway' /\ Slow' BY <1>1, <1>3, <2>0 DEF IInv, Shapes, World, Gateway, Slow, Fine
  <2>10. Single'
    <3>1. CASE "slow" \in happened BY <1>3, <3>1 DEF Single, Fine
    <3>2. CASE "slow" \notin happened
      <4>1. \A q \in Pids : proc[q] = "free"
        BY <1>2, <3>2 DEF IInv, Shapes, World, Gateway, Slow, Prepared
      <4>2. Running' = {p} BY <1>3, <2>0, <4>1 DEF Running, IInv, Shapes
      <4>3. QED BY <4>2 DEF Single
    <3>3. QED BY <3>1, <3>2
  <2>11. QED BY <1>1, <1>3, <2>0, <2>7, <2>8, <2>9, <2>10, Together DEF World, IInv, Shapes
<1>4. CASE UNCHANGED proc /\ RemoveRecord /\ Fail(a) /\ Fails(a, "cmd")
  <2>1. Shrinks BY <1>4, Kinder DEF IInv, Shapes, Shrinks
  <2>2. Prepared' = {} BY <1>2, <1>4 DEF Prepared
  <2>3. OfOps' BY <1>2, <1>4, Failed, Ended
  <2>4. QED BY <1>1, <1>4, <2>1, <2>2, <2>3, Cleared, Together DEF IInv, Shapes
<1>5. QED BY <1>3, <1>4 DEF Fork

LEMMA SaveIdentityKeeps == ASSUME IInv, NEW a \in Actors, SaveIdentity(a) PROVE IInv'
<1> DEFINE child == op[a].child
<1>1. UNCHANGED gateway /\ op[a].pc = "save" BY DEF SaveIdentity, At
<1>2. /\ ~Waiting(op[a]) /\ journal.state = "intent" /\ journal.boot /\ Prepared \subseteq {child}
      /\ op[a].kind = "prepare" /\ ~gateway.exists /\ child \in Pids \cup {None}
  BY <1>1 DEF Waiting, None, IInv, Staged, StagedFor, Shapes, Ops
<1>3. CASE /\ journal' = [state |-> "owned", pid |-> child, boot |-> TRUE]
           /\ UNCHANGED proc /\ Step(a, "ready") /\ Fine
  <2>1. GoesTo(a, "ready", "prepare") BY <1>2, <1>3, Moved DEF Stages, None
  <2>2. PICK r \in Ops : r.pc = "ready" /\ r.kind = "prepare" /\ Turn(a, r)
    BY <2>1 DEF GoesTo
  <2>3. StagedFor(r)' BY <1>1, <1>2, <2>2 DEF StagedFor
  <2>4. OfOps' BY <1>2, <2>2, <2>3, Turned
  <2>5. World'
    BY <1>1, <1>2, <1>3 DEF IInv, World, EngineIsJournaled, Named, Gateway, Slow, Single,
                            Fine, Running, Prepared, None
  <2>6. QED BY <1>1, <1>2, <1>3, <2>4, <2>5, Together DEF IInv, Shapes
<1>4. CASE /\ proc' = [proc EXCEPT ![child] = "free"] /\ RemoveRecord
           /\ Fail(a) /\ Fails(a, "save")
  <2>1. Shrinks BY <1>4, Kinder DEF IInv, Shapes, Shrinks
  <2>2. Prepared' = {} BY <1>2, <1>4 DEF IInv, Shapes, Prepared
  <2>3. OfOps' BY <1>2, <1>4, Failed, Ended
  <2>4. QED BY <1>1, <2>1, <2>2, <2>3, <1>4, Cleared, Together DEF IInv, Shapes, Shrinks
<1>5. CASE /\ proc' = [proc EXCEPT ![child] = "dying"] /\ RemoveRecord
           /\ Fail(a) /\ Faulty({"slow", Then(a, "save")})
  <2>1. Shrinks BY <1>5 DEF IInv, Shapes, Shrinks, Faulty
  <2>2. Prepared' = {} BY <1>2, <1>5 DEF IInv, Shapes, Prepared
  <2>3. OfOps' BY <1>2, <1>5, Failed, Ended
  <2>4. QED BY <1>1, <2>1, <2>2, <2>3, <1>5, Cleared, Together DEF IInv, Shapes, Shrinks
<1>6. CASE UNCHANGED <<proc, journal>> /\ Fail(a) /\ Fails(a, "lost")
  <2>1. OfOps' BY <1>2, <1>6, Failed, Ended
  <2>2. QED BY <1>1, <1>6, <2>1, SameWorld, Kinder DEF disk
<1>7. QED BY <1>3, <1>4, <1>5, <1>6 DEF SaveIdentity

LEMMA AwaitReadyKeeps == ASSUME IInv, NEW a \in Actors, AwaitReady(a) PROVE IInv'
<1>1. UNCHANGED <<proc, disk, gateway>> /\ op[a].pc = "ready" BY DEF AwaitReady, At, disk
<1>2. ~Waiting(op[a]) /\ op[a].kind = "prepare" /\ ~gateway.exists
  BY <1>1 DEF Waiting, None, IInv, Staged, StagedFor
<1>3. happened \subseteq happened' BY Kinder DEF AwaitReady
<1>4. OfOps'
  <2>1. CASE Succeed(a) BY <1>2, <2>1, Succeeded, Ended
  <2>2. CASE Fail(a) BY <1>2, <2>2, Failed, Ended
  <2>3. CASE /\ op' = [op EXCEPT ![a].kind = "undo", ![a].pc = "stop"]
             /\ UNCHANGED <<lock, leases, service>>
    <3> DEFINE r == [op[a] EXCEPT !.kind = "undo", !.pc = "stop"]
    <3>0. op[a] \in Ops /\ "stop" \in Stages /\ "undo" \in Kinds
      BY DEF IInv, Shapes, Stages, Kinds
    <3>1. r \in Ops /\ r.pc = "stop" /\ r.kind = "undo"
      BY <3>0 DEF Ops
    <3>2. op' = [op EXCEPT ![a] = r] BY <2>3 DEF IInv, Shapes, Ops
    <3>3. Turn(a, r)
      BY <2>3, <3>1, <3>2 DEF Turn, IInv, Shapes, Holders, ConnType, leases
    <3>4. PICK x \in Ops : x = r BY <3>1
    <3>5. StagedFor(x)' BY <1>1, <1>2, <3>1, <3>4 DEF StagedFor
    <3>6. QED BY <1>2, <3>3, <3>4, <3>5, Turned
  <2>4. QED BY <2>1, <2>2, <2>3 DEF AwaitReady
<1>5. QED BY <1>1, <1>3, <1>4, SameWorld

LEMMA StartGatewayKeeps == ASSUME IInv, NEW a \in Actors, StartGateway(a) PROVE IInv'
<1>1. UNCHANGED journal /\ op[a].pc = "gateway" /\ op[a].kind = "start"
  BY DEF StartGateway, At
<1>2. ~Waiting(op[a]) /\ Prepared = {} /\ ~gateway.exists
  BY <1>1 DEF Waiting, None, IInv, Staged, StagedFor
<1>3. ASSUME NEW p \in Unused, proc' = [proc EXCEPT ![p] = "gateway"],
             gateway' = [exists |-> TRUE, pid |-> p, boot |-> TRUE], Succeed(a), Fine
      PROVE  IInv'
  <2>1. p \in Pids BY DEF Unused
  <2>2. OfOps' BY <1>2, <1>3, Succeeded, Ended
  <2>3. Prepared' = {} BY <1>2, <1>3 DEF IInv, Shapes, Prepared
  <2>4. EngineIsJournaled' /\ Named' BY <2>3 DEF EngineIsJournaled, Named
  <2>5. Gateway' /\ Slow'
    BY <1>2, <1>3, <2>1 DEF IInv, Shapes, World, Gateway, Slow, Fine
  <2>6. Single'
    <3>1. CASE "slow" \in happened BY <1>3, <3>1 DEF Single, Fine
    <3>2. CASE "slow" \notin happened
      <4>1. \A q \in Pids : proc[q] = "free"
        BY <1>2, <3>2 DEF IInv, Shapes, World, Gateway, Slow, Prepared
      <4>2. Running' = {p} BY <1>3, <2>1, <4>1 DEF Running, IInv, Shapes
      <4>3. QED BY <4>2 DEF Single
    <3>3. QED BY <3>1, <3>2
  <2>7. QED BY <1>1, <1>3, <2>1, <2>2, <2>4, <2>5, <2>6, Together DEF World, IInv, Shapes
<1>4. CASE UNCHANGED <<proc, gateway>> /\ Fail(a) /\ Fails(a, "cmd")
  <2>1. OfOps' BY <1>2, <1>4, Failed, Ended
  <2>2. QED BY <1>1, <1>4, <2>1, SameWorld, Kinder DEF disk
<1>5. QED BY <1>3, <1>4 DEF StartGateway

LEMMA StopGatewayKeeps == ASSUME IInv, NEW a \in Actors, StopGateway(a) PROVE IInv'
<1>0. NoGateway \in [exists : BOOLEAN, pid : Pids \cup {None}, boot : BOOLEAN]
  BY DEF NoGateway
<1>1. UNCHANGED journal /\ op[a].pc = "gateway" BY DEF StopGateway, At
<1>2. ~Waiting(op[a]) BY <1>1 DEF Waiting, None
<1>3. OfOps'
  <2>1. Succeed(a) \/ Fail(a) BY DEF StopGateway
  <2>2. QED BY <1>2, <2>1, Succeeded, Failed, Ended
<1>4. CASE UNCHANGED <<proc, gateway>> /\ Fails(a, "cmd")
  BY <1>1, <1>3, <1>4, SameWorld, Kinder DEF disk
<1>5. CASE gateway.exists /\ gateway.boot /\ StopPID(gateway.pid) /\ gateway' \in {gateway, NoGateway}
  <2>1. Shrinks BY <1>5, StopPIDShrinks
  <2>2. Prepared' \subseteq Prepared BY <2>1 DEF Shrinks, Prepared
  <2>3. EngineIsJournaled' /\ Named'
    BY <1>1, <2>2 DEF IInv, World, EngineIsJournaled, Named
  <2>4. Gateway'
    BY <1>5, <2>1 DEF IInv, Shapes, World, Gateway, Shrinks, StopPID, NoGateway
  <2>5. Slow' BY <2>1 DEF IInv, World, Slow, Shrinks
  <2>6. Single' BY <2>1 DEF IInv, World, Single, Shrinks, Running
  <2>7. gateway' \in [exists : BOOLEAN, pid : Pids \cup {None}, boot : BOOLEAN]
    BY <1>0, <1>5 DEF IInv, Shapes
  <2>8. QED BY <1>1, <1>3, <2>1, <2>3, <2>4, <2>5, <2>6, <2>7, Together
            DEF World, IInv, Shapes, Shrinks
<1>6. CASE ~(gateway.exists /\ gateway.boot) /\ UNCHANGED proc /\ Fine /\ gateway' \in {gateway, NoGateway}
  <2>1. World'
    BY <1>1, <1>6 DEF IInv, World, EngineIsJournaled, Named, Gateway, Slow, Single,
                      Fine, Running, Prepared
  <2>2. gateway' \in [exists : BOOLEAN, pid : Pids \cup {None}, boot : BOOLEAN]
    BY <1>0, <1>6 DEF IInv, Shapes
  <2>3. QED BY <1>1, <1>3, <1>6, <2>1, <2>2, Together DEF IInv, Shapes
<1>7. QED BY <1>4, <1>5, <1>6 DEF StopGateway

LEMMA OpStepKeeps == ASSUME IInv, NEW a \in Actors, OpStep(a) PROVE IInv'
BY TakeLockKeeps, CheckKeeps, StopCheckKeeps, KillKeeps, AwaitExitKeeps, ForgetKeeps,
   WriteIntentKeeps, ForkKeeps, SaveIdentityKeeps, AwaitReadyKeeps, StartGatewayKeeps,
   StopGatewayKeeps DEF OpStep

-----------------------------------------------------------------------------
(***************************************************************************)
(* Leases, requests, and what nobody asked for.                            *)
(***************************************************************************)
\* No operation begins or goes on, and no lease is taken under a release.
LEMMA Aside ==
    ASSUME IInv, UNCHANGED <<op, lock, proc, disk>>, happened \subseteq happened', conn' \in ConnType,
           Holders' \subseteq Holders \/ op["helper"] = Idle
    PROVE  IInv'
<1>1. Exclusive' /\ op' \in [Actors -> Ops] BY DEF IInv, Exclusive, Waiting, Shapes
<1>2. Staged' BY DEF IInv, Staged, StagedFor, Prepared, Alive, Running, disk
<1>3. ReleaseAlone' BY IdleIsOp DEF IInv, ReleaseAlone, None
<1>4. QED BY <1>1, <1>2, <1>3, SameWorld DEF OfOps

LEMMA Begun ==
    ASSUME IInv, NEW a \in Actors, NEW kind \in Kinds \ {"undo"}, NEW c \in Conns \cup {None},
           Begin(a, kind, c), UNCHANGED <<lock, proc, disk>>,
           happened \subseteq happened', conn' \in ConnType, Holders' \subseteq Holders,
           a = "helper" /\ kind = "release" => Holders' = {}
    PROVE  IInv'
<1>1. /\ Op(kind, c) \in Ops /\ Op(kind, c).pc = "lock" /\ Op(kind, c).kind = kind
  BY DEF Op, Idle, Ops, Stages, Kinds
<1>2. /\ op' \in [Actors -> Ops] /\ op'[a] = Op(kind, c)
      /\ \A b \in Actors \ {a} : op'[b] = op[b]
  BY <1>1 DEF IInv, Shapes, Begin
<1>3. Exclusive' BY <1>1, <1>2 DEF IInv, Exclusive, Waiting
<1>4. Staged'
  <2>1. StagedFor(op[a])' BY <1>1, <1>2 DEF StagedFor, None
  <2>2. \A b \in Actors \ {a} : StagedFor(op[b])'
    BY <1>2 DEF IInv, Staged, StagedFor, Prepared, Alive, Running, disk
  <2>3. QED BY <2>1, <2>2 DEF Staged
<1>5. ReleaseAlone' BY <1>1, <1>2 DEF IInv, ReleaseAlone, Actors
<1>6. QED BY <1>2, <1>3, <1>4, <1>5, SameWorld DEF OfOps

LEMMA IdleFree == ASSUME Free PROVE op["helper"] = Idle /\ "helper" \in Actors
BY DEF Free, Actors

LEMMA LeaseKeeps == ASSUME IInv, AcquireLease \/ RequestPolicies \/ RequestOther \/ Quit \/ Restart
                    PROVE  IInv'
<1>1. CASE AcquireLease
  <2>1. /\ UNCHANGED <<op, lock, proc, disk>> /\ op["helper"] = Idle
        /\ happened \subseteq happened' /\ conn' \in ConnType
    BY <1>1 DEF AcquireLease, Free, IInv, Shapes, ConnType, Fine, Fault, Faulty
  <2>2. QED BY <2>1, Aside
<1>2. CASE RequestPolicies
  <2>1. UNCHANGED <<lock, proc, disk>> /\ happened' = happened /\ op["helper"] = Idle
    BY <1>2 DEF RequestPolicies, Free, Fine
  <2>2. CASE DropLease /\ UNCHANGED op
    BY <2>1, <2>2, Dropped, Aside DEF IInv
  <2>3. CASE Begin("helper", "prepare", None) /\ UNCHANGED conn
    <3>1. /\ "helper" \in Actors /\ "prepare" \in Kinds \ {"undo"}
          /\ None \in Conns \cup {None} /\ conn' \in ConnType /\ Holders' \subseteq Holders
      BY <2>3 DEF Actors, Kinds, IInv, Shapes, ConnType, Holders
    <3>2. QED BY <2>1, <2>3, <3>1, Begun
  <2>4. QED BY <1>2, <2>2, <2>3 DEF RequestPolicies
<1>3. CASE RequestOther
  <2>1. PICK kind \in {"start", "stop", "config"} : Begin("helper", kind, None)
    BY <1>3 DEF RequestOther
  <2>2. /\ UNCHANGED <<lock, proc, disk, conn>> /\ happened' = happened /\ op["helper"] = Idle
    BY <1>3 DEF RequestOther, Free, Fine, leases
  <2>3. /\ "helper" \in Actors /\ kind \in Kinds \ {"undo"} /\ kind # "release"
        /\ None \in Conns \cup {None} /\ conn' \in ConnType /\ Holders' \subseteq Holders
    BY <2>1, <2>2 DEF Actors, Kinds, IInv, Shapes, ConnType, Holders
  <2>4. QED BY <2>1, <2>2, <2>3, Begun
<1>4. CASE Quit
  BY <1>4, Dropped, Aside DEF Quit, IInv, Fine
<1>5. CASE Restart
  <2>1. UNCHANGED <<op, lock, proc, disk, conn>> /\ happened' = happened
    BY <1>5 DEF Restart, Fine, leases
  <2>2. conn' \in ConnType /\ Holders' \subseteq Holders
    BY <2>1 DEF IInv, Shapes, ConnType, Holders
  <2>3. QED BY <2>1, <2>2, Aside
<1>6. QED BY <1>1, <1>2, <1>3, <1>4, <1>5

LEMMA ReleaseKeeps == ASSUME IInv, NEW c \in Conns, Release(c) \/ RetryRelease(c) PROVE IInv'
<1>1. /\ UNCHANGED <<lock, proc, disk>> /\ happened' = happened /\ op["helper"] = Idle
  BY DEF Release, RetryRelease, Free, Fine
<1>2. /\ conn' \in ConnType /\ Holders' \subseteq Holders
      /\ op' # op => Begin("helper", "release", c) /\ Holders' = {}
  <2>1. CASE Release(c)
    BY <2>1 DEF Release, IInv, Shapes, ConnType, Holders
  <2>2. CASE RetryRelease(c)
    BY <2>2 DEF RetryRelease, IInv, Shapes, ConnType, Holders, leases
  <2>3. QED BY <2>1, <2>2
<1>3. CASE UNCHANGED op BY <1>1, <1>2, <1>3, Aside
<1>4. CASE op' # op
  <2>1. /\ "helper" \in Actors /\ "release" \in Kinds \ {"undo"} /\ c \in Conns \cup {None}
    BY DEF Actors, Kinds
  <2>2. QED BY <1>1, <1>2, <1>4, <2>1, Begun
<1>5. QED BY <1>3, <1>4

LEMMA CrashKeeps == ASSUME IInv, HelperCrash \/ CliCrash PROVE IInv'
<1>1. UNCHANGED <<proc, disk>> /\ happened \subseteq happened'
  BY DEF HelperCrash, CliCrash, Fault, Faulty
<1>2. PICK a \in Actors : op' = [op EXCEPT ![a] = Idle] /\ Unlock(a)
  BY DEF HelperCrash, CliCrash, Actors
<1>3. conn' \in ConnType /\ Holders' \subseteq Holders
  BY DEF HelperCrash, CliCrash, IInv, Shapes, ConnType, Holders, leases
<1>4. Turn(a, Idle) BY <1>2, <1>3, IdleIsOp DEF Turn, Unlock, None
<1>5. OfOps' BY <1>1, <1>4, Ended DEF disk
<1>6. QED BY <1>1, <1>5, SameWorld

LEMMA BeginningKeeps == ASSUME IInv, HelperStart \/ CliBegin PROVE IInv'
<1>1. /\ UNCHANGED <<lock, proc, disk, conn>> /\ happened \subseteq happened'
  BY DEF HelperStart, CliBegin, Fine, Fault, Faulty, leases
<1>2. conn' \in ConnType /\ Holders' \subseteq Holders /\ None \in Conns \cup {None}
  BY <1>1 DEF IInv, Shapes, ConnType, Holders
<1>3. CASE HelperStart
  <2>1. "helper" \in Actors /\ "reconcile" \in Kinds \ {"undo"} /\ "reconcile" # "release"
    BY DEF Actors, Kinds
  <2>2. QED BY <1>1, <1>2, <1>3, <2>1, Begun DEF HelperStart
<1>4. CASE CliBegin
  <2>1. PICK kind \in Kinds \ {"undo"} : Begin("cli", kind, None)
    BY <1>4, PreparedAssumption DEF CliBegin, Kinds
  <2>2. "cli" \in Actors /\ op["cli"] = Idle /\ "cli" # "helper"
    BY <1>4 DEF CliBegin, Actors
  <2>3. QED BY <1>1, <1>2, <2>1, <2>2, Begun
<1>5. QED BY <1>3, <1>4

LEMMA GoneKeeps == ASSUME IInv, EngineExits \/ KilledIsGone PROVE IInv'
<1>1. /\ UNCHANGED <<disk, lock, op, conn>>
      /\ \E p \in Pids : proc' = [proc EXCEPT ![p] = "free"]
      /\ happened \subseteq happened'
  BY DEF EngineExits, KilledIsGone, Running, Fine, Fault, Faulty, leases
<1>2. Shrinks BY <1>1 DEF IInv, Shapes, Shrinks
<1>3. Prepared' \subseteq Prepared /\ Running' \subseteq Running
  BY <1>1 DEF IInv, Shapes, Prepared, Running
<1>4. Staged'
  BY <1>1, <1>3 DEF IInv, Staged, StagedFor, Alive, disk
<1>5. OfOps'
  BY <1>1, <1>4 DEF IInv, OfOps, Exclusive, ReleaseAlone, Holders, Shapes, ConnType
<1>6. World' BY <1>1, <1>2, Fewer DEF disk
<1>7. QED BY <1>1, <1>2, <1>5, <1>6, Together DEF IInv, Shapes, Shrinks, disk

LEMMA RebootKeeps == ASSUME IInv, Reboot PROVE IInv'
<1>1. /\ proc' = [p \in Pids |-> "free"] /\ op' = [a \in Actors |-> Idle]
      /\ conn' = [c \in Conns |-> "free"]
      /\ journal' = [journal EXCEPT !.boot = journal.state = None]
      /\ gateway' = [gateway EXCEPT !.boot = ~gateway.exists]
  BY DEF Reboot
<1>2. Prepared' = {} /\ Running' = {} BY <1>1 DEF Prepared, Running
<1>3. World'
  BY <1>1, <1>2 DEF World, EngineIsJournaled, Named, Gateway, Slow, Single
<1>4. OfOps'
  BY <1>1, IdleIsOp DEF OfOps, Exclusive, Waiting, Staged, StagedFor, ReleaseAlone, ConnType,
                        Actors, None
<1>5. /\ proc' \in [Pids -> {"free", "prepared", "gateway", "dying"}]
      /\ journal' \in [state : {None, "intent", "owned"}, pid : Pids \cup {None}, boot : BOOLEAN]
      /\ gateway' \in [exists : BOOLEAN, pid : Pids \cup {None}, boot : BOOLEAN]
  BY <1>1 DEF IInv, Shapes
<1>6. QED BY <1>3, <1>4, <1>5, Together

LEMMA StutterKeeps == ASSUME IInv, UNCHANGED vars PROVE IInv'
<1>1. UNCHANGED <<op, lock, proc, disk, conn, happened>> BY DEF vars, leases
<1>2. conn' \in ConnType /\ Holders' \subseteq Holders
  BY <1>1 DEF IInv, Shapes, ConnType, Holders
<1>3. QED BY <1>1, <1>2, Aside

LEMMA Invariance == Spec => []IInv
<1>1. ASSUME IInv, [Next]_vars PROVE IInv'
  BY <1>1, OpStepKeeps, LeaseKeeps, ReleaseKeeps, CrashKeeps, BeginningKeeps, GoneKeeps,
     RebootKeeps, StutterKeeps DEF Next
<1>2. QED BY <1>1, InitIInv, PTL DEF Spec

-----------------------------------------------------------------------------
(***************************************************************************)
(* The theorems.                                                           *)
(***************************************************************************)
LEMMA OneOwner == ASSUME IInv PROVE SingleOwner
<1>1. CASE "slow" \in happened BY <1>1 DEF SingleOwner
<1>2. CASE "slow" \notin happened
  <2>1. \A p, q \in Running : p = q BY <1>2 DEF IInv, World, Single
  <2>2. CASE Running = {} BY <2>2, FS_EmptySet DEF SingleOwner, OneEngine
  <2>3. CASE Running # {}
    <3>1. PICK p : Running = {p} BY <2>1, <2>3
    <3>2. Cardinality(Running) = 1 BY <3>1, FS_Singleton
    <3>3. QED BY <3>2 DEF SingleOwner, OneEngine
  <2>4. QED BY <2>2, <2>3
<1>3. QED BY <1>1, <1>2

\* Prepared and gateway engine together are never more than one, as long as no
\* process outlives the signal that stops it (stopPreparedLocked, prepareEngine).
THEOREM SingleOwnerAlways == Spec => []SingleOwner
<1>1. IInv => SingleOwner BY OneOwner
<1>2. QED BY <1>1, Invariance, PTL

\* A prepared engine that runs has a record of this boot, whatever failed or
\* died (startPreparedAttempt writes the intent before it forks).
THEOREM EngineIsJournaledAlways == Spec => []EngineIsJournaled
<1>1. IInv => EngineIsJournaled BY DEF IInv, World
<1>2. QED BY <1>1, Invariance, PTL

LEMMA Kept == ASSUME IInv, [Next]_vars, journal.state = "owned", journal.boot, journal'.state = None
              PROVE  ~Alive(journal.pid)
<1>0. "owned" # None /\ "intent" # None BY DEF None
<1>1. ASSUME NEW a \in Actors, OpStep(a) PROVE ~Alive(journal.pid)
  <2>1. CASE Forget(a) BY <2>1 DEF Forget, At, IInv, Staged, StagedFor
  <2>2. CASE WriteIntent(a) \/ Fork(a) \/ SaveIdentity(a)
    BY <1>0, <2>2 DEF WriteIntent, Fork, SaveIdentity, At, IInv, Staged, StagedFor
  <2>3. CASE UNCHANGED journal BY <1>0, <2>3
  <2>4. QED
    BY <1>1, <2>1, <2>2, <2>3 DEF OpStep, TakeLock, Check, StopCheck, Kill, AwaitExit, AwaitReady,
                                  StartGateway, StopGateway, disk
<1>2. CASE UNCHANGED journal BY <1>0, <1>2
<1>3. CASE Reboot BY <1>0, <1>3 DEF Reboot, IInv, Shapes
<1>4. CASE UNCHANGED vars BY <1>2, <1>4 DEF vars, disk
<1>5. CASE AcquireLease \/ RequestPolicies \/ RequestOther \/ Quit \/ Restart
           \/ (\E c \in Conns : Release(c) \/ RetryRelease(c))
  BY <1>2, <1>5 DEF AcquireLease, RequestPolicies, RequestOther, Quit, Restart, Release,
                    RetryRelease, disk
<1>6. CASE HelperCrash \/ HelperStart \/ CliBegin \/ CliCrash \/ EngineExits \/ KilledIsGone
  BY <1>2, <1>6 DEF HelperCrash, HelperStart, CliBegin, CliCrash, EngineExits, KilledIsGone, disk
<1>7. QED BY <1>1, <1>3, <1>4, <1>5, <1>6 DEF Next

\* The record of an engine is never dropped before its process is gone, in any
\* order of failures and crashes (stopPreparedLocked's wait).
THEOREM RecordKept == Spec => RecordOutlivesEngine
<1>1. IInv /\ [Next]_vars =>
          [journal.state = "owned" /\ journal.boot /\ journal'.state = None
               => ~Alive(journal.pid)]_vars
  BY Kept
<1>2. QED BY <1>1, Invariance, PTL DEF Spec, RecordOutlivesEngine

\* A release in progress never stops the engine of a page that has a lease:
\* none can be taken before it is over (policyManager.mu).
THEOREM LeasedKept == Spec => LeasedEngineKept
<1>1. IInv => [op["helper"].kind = "release" /\ lock = "helper" /\ op' # op
                   /\ Prepared' # Prepared => Holders = {}]_vars
  BY DEF IInv, ReleaseAlone
<1>2. QED BY <1>1, Invariance, PTL DEF LeasedEngineKept

-----------------------------------------------------------------------------
(***************************************************************************)
(* No engine is forgotten.  An engine that nobody has a lease of waits for *)
(* a release to be tried again, and a release that has not been tried      *)
(* MaxTries times is tried again.  Each failed attempt costs a failure,    *)
(* unless the record names no process: then no engine is left (Stuck).     *)
(***************************************************************************)
Helper == op["helper"]
Few    == MaxFaults - left < MaxTries
Budget == tries \in [Conns -> Nat] /\ left \in 0..MaxFaults

\* A helper that is down does nothing.
Resting == helper \in BOOLEAN /\ (~helper => Helper = Idle)

\* Only the helper prepares an engine, and only for a page.
Parties ==
    /\ op["cli"].kind \in {None, "start", "stop", "other"}
    /\ Helper.kind = "release" => Helper.by \in Conns
    /\ Helper.kind \in {"prepare", "undo"} => Holders # {}

\* An engine has no identity on record only between its fork and that record.
Identified ==
    "lost" \notin happened /\ Prepared # {} => journal.state = "owned" \/ Helper.pc = "save"
Stuck == journal.state = "intent" /\ journal.boot /\ Helper.pc \notin {"fork", "save"}

\* A release whose kill was slow has paid for its next failure.
Owing(c) == /\ Helper.kind = "release" /\ Helper.by = c
            /\ Helper.pc = "gone" /\ Alive(journal.pid)
Insured == \A c \in Conns : /\ tries[c] + left <= MaxFaults
                            /\ Owing(c) => tries[c] + left + 1 <= MaxFaults
Paid == "lost" \in happened \/ Stuck \/ Insured

Expected ==
    happened \cap {"crash", "lost", "boot"} = {} /\ Few /\ Prepared # {} =>
        Holders # {} \/ \E c \in Conns : conn[c] = "retry"

Awaited == Budget /\ Resting /\ Parties /\ Identified /\ Paid /\ Expected

LEMMA AwaitedInit == Init => Awaited
<1> SUFFICES ASSUME Init PROVE Awaited  OBVIOUS
<1>1. Prepared = {} /\ Helper = Idle /\ op["cli"] = Idle /\ journal.state = None
  BY DEF Init, Prepared, Helper, Actors, NoJournal
<1>2. Budget  BY PreparedAssumption DEF Init, Budget
<1>3. Resting /\ Parties  BY <1>1 DEF Init, Resting, Parties, Idle, None
<1>4. Identified /\ Expected  BY <1>1 DEF Identified, Expected
<1>5. Insured  BY <1>1, PreparedAssumption DEF Init, Insured, Owing, Idle, None
<1> QED  BY <1>2, <1>3, <1>4, <1>5 DEF Awaited, Paid

-----------------------------------------------------------------------------
(* How an operation goes on or ends, for leases and attempts.               *)

\* It goes on, for the same page.
Proceeds(a) ==
    /\ \A b \in Actors \ {a} : op'[b] = op[b]
    /\ op'[a].by = op[a].by /\ UNCHANGED <<conn, tries>>
    /\ op'[a].kind = op[a].kind \/ {op'[a].kind, op[a].kind} \subseteq {"prepare", "undo"}

\* It ends; a failed request closes the page's lease.
Over(a) == op'[a] = Idle /\ \A b \in Actors \ {a} : op'[b] = op[b]
Quits(a) ==
    /\ Over(a) /\ op[a].kind # "release" /\ UNCHANGED tries
    /\ \A c \in Conns : \/ conn'[c] = conn[c]
                        \/ /\ op[a].kind \in {"prepare", "undo"}
                           /\ conn[c] = "held" /\ conn'[c] = "closed"

\* A release ends well, meets a busy lock, or fails.
Releases(a) ==
    /\ Over(a) /\ op[a].kind = "release"
    /\ conn' = [conn EXCEPT ![op[a].by] = "free"] /\ tries' = [tries EXCEPT ![op[a].by] = 0]
Postpones(a) ==
    /\ Over(a) /\ op[a].kind = "release"
    /\ conn' = [conn EXCEPT ![op[a].by] = "retry"] /\ UNCHANGED tries
Retries(a) ==
    LET c == op[a].by
        last == tries[c] + 1 = MaxTries
    IN  /\ Over(a) /\ op[a].kind = "release"
        /\ conn' = [conn EXCEPT ![c] = IF last THEN "free" ELSE "retry"]
        /\ tries' = [tries EXCEPT ![c] = IF last THEN 0 ELSE @ + 1]

LEMMA StepIs == ASSUME Shapes, NEW a \in Actors, NEW pc, Step(a, pc)
                PROVE  Proceeds(a) /\ op'[a].pc = pc /\ op'[a].kind = op[a].kind
BY DEF Shapes, Ops, Step, Proceeds, leases

LEMMA SucceedIs == ASSUME Shapes, NEW a \in Actors, Succeed(a)
                   PROVE  Quits(a) \/ Releases(a)
BY DEF Shapes, Ops, Succeed, Over, Quits, Releases, leases

LEMMA FailIs == ASSUME Shapes, NEW a \in Actors, Fail(a)
                PROVE  Quits(a) \/ Retries(a)
<1>1. Over(a)  BY DEF Shapes, Fail, Over
<1>2. CASE op[a].kind \in {"prepare", "undo"}
  BY <1>1, <1>2 DEF Shapes, Fail, DropLease, Quits
<1>3. CASE op[a].kind = "release"
  BY <1>1, <1>3 DEF Fail, Retries
<1>4. CASE op[a].kind \notin {"prepare", "undo", "release"}
  BY <1>1, <1>4 DEF Shapes, Fail, Quits, leases
<1> QED  BY <1>2, <1>3, <1>4

LEMMA GiveUpIs == ASSUME Shapes, NEW a \in Actors, GiveUp(a)
                  PROVE  \/ Quits(a) \/ Retries(a)
                         \/ /\ Proceeds(a) /\ op[a].kind \in {"stop", "undo"}
                            /\ op'[a].pc \in {"gateway", "stop"}
<1>1. CASE Fail(a)
  BY <1>1, FailIs
<1>2. CASE ~Fail(a)
  BY <1>2 DEF GiveUp, Shapes, Ops, Proceeds, leases
<1> QED  BY <1>1, <1>2

LEMMA OnwardIs == ASSUME Shapes, NEW a \in Actors, Onward(a)
                  PROVE  \/ Quits(a) \/ Releases(a)
                         \/ Proceeds(a) /\ op[a].kind # "release" /\ op'[a].pc \in {"intent", "gateway"}
<1>1. CASE op[a].kind = "prepare" \/ op[a].kind \in {"start", "stop"}
  BY <1>1, StepIs DEF Onward
<1>2. CASE op[a].kind = "undo"
  <2>1. CASE Fail(a)
    BY <1>2, <2>1, FailIs DEF Retries
  <2>2. CASE ~Fail(a)
    BY <1>2, <2>2 DEF Onward, Shapes, Ops, Proceeds, leases
  <2> QED  BY <2>1, <2>2
<1>3. CASE op[a].kind \notin {"prepare", "start", "stop", "undo"}
  BY <1>3, SucceedIs DEF Onward
<1> QED  BY <1>1, <1>2, <1>3

\* An operation of another kind than a release.
LEMMA OtherStep ==
    ASSUME Shapes, Staged, NEW a \in Actors, OpStep(a), op[a].kind # "release"
    PROVE  Proceeds(a) \/ Quits(a)
<1>0. Fail(a) \/ Succeed(a) => Quits(a)
  BY FailIs, SucceedIs DEF Retries, Releases
<1>00. GiveUp(a) \/ Onward(a) => Proceeds(a) \/ Quits(a)
  BY GiveUpIs, OnwardIs DEF Retries, Releases
<1>1. CASE TakeLock(a)
  BY <1>0, <1>1 DEF TakeLock, Shapes, Ops, Proceeds, leases
<1>2. CASE Check(a)
  BY <1>0, <1>2, StepIs DEF Check
<1>3. CASE StopCheck(a)
  BY <1>00, <1>3, StepIs DEF StopCheck, Shapes
<1>4. CASE Kill(a) \/ AwaitExit(a) \/ Forget(a)
  BY <1>00, <1>4, StepIs DEF Kill, AwaitExit, Forget
<1>5. CASE WriteIntent(a)
  BY <1>0, <1>5 DEF WriteIntent, Shapes, Ops, Proceeds, leases
<1>6. CASE Fork(a)
  BY <1>0, <1>6 DEF Fork, Shapes, Ops, Proceeds, leases
<1>7. CASE SaveIdentity(a)
  BY <1>0, <1>7, StepIs DEF SaveIdentity
<1>8. CASE AwaitReady(a)
  <2>0. op[a].kind = "prepare"
    BY <1>8 DEF AwaitReady, At, Staged, StagedFor
  <2>1. CASE Fail(a) \/ Succeed(a)  BY <1>0, <2>1
  <2>2. CASE op' = [op EXCEPT ![a].kind = "undo", ![a].pc = "stop"] /\ UNCHANGED leases
    BY <2>0, <2>2 DEF Shapes, Ops, Proceeds, leases
  <2> QED  BY <1>8, <2>1, <2>2 DEF AwaitReady
<1>9. CASE StartGateway(a)
  BY <1>0, <1>9 DEF StartGateway
<1>10. CASE StopGateway(a)
  BY <1>0, <1>10 DEF StopGateway
<1> QED  BY <1>1, <1>2, <1>3, <1>4, <1>5, <1>6, <1>7, <1>8, <1>9, <1>10 DEF OpStep

\* A step uses up one failure of the budget, or none.
Pays     == left' = left - 1 /\ left > 0
Costless == left' = left

\* A release: it goes on; it ends with the journal, and so without an engine;
\* it is put off; or it fails, which is paid for or owed, or no process is on
\* record.
LEMMA ReleaseStep ==
    ASSUME IInv, Budget, NEW a \in Actors, OpStep(a), op[a].kind = "release"
    PROVE  \/ Proceeds(a) /\ op'[a].kind = "release" /\ op'[a].pc # "gone" /\ Costless
           \/ Proceeds(a) /\ op'[a].kind = "release" /\ op'[a].pc = "gone" /\ Pays
           \/ Proceeds(a) /\ op'[a].kind = "release" /\ Costless /\ UNCHANGED disk /\ ~Alive(journal.pid)'
           \/ Releases(a) /\ Costless /\ Prepared' = {}
           \/ Postpones(a) /\ Costless
           \/ Retries(a) /\ Pays
           \/ Retries(a) /\ Costless /\ op[a].pc = "gone" /\ Alive(journal.pid)
           \/ Retries(a) /\ Costless /\ op[a].pc = "stop" /\ UNCHANGED <<proc, disk>>
              /\ journal.state = "intent" /\ journal.boot
<1>0. Shapes /\ (\A pc : Step(a, pc) => Proceeds(a) /\ op'[a].pc = pc /\ op'[a].kind = "release")
  BY StepIs DEF IInv
<1>00. /\ Fail(a) => Retries(a)
       /\ Succeed(a) => Releases(a)
       /\ GiveUp(a) => Retries(a)
       /\ Onward(a) => Releases(a)
  BY FailIs, SucceedIs, GiveUpIs, OnwardIs DEF Quits, IInv
<1>01. /\ Fine => Costless
       /\ \A k : Fails(a, k) => Pays
       /\ \A k : Fault(k) => Pays
  BY DEF Fine, Fails, Fault, Faulty, Pays, Costless
<1>1. CASE TakeLock(a)
  <2>1. CASE lock = None
    <3>1. Proceeds(a) /\ op'[a].kind = "release" /\ op'[a].pc = "check"
      BY <1>0, <1>1, <2>1 DEF TakeLock, Shapes, Ops, Proceeds, leases
    <3>2. Fine  BY <1>1, <2>1 DEF TakeLock
    <3> QED  BY <1>01, <3>1, <3>2
  <2>2. CASE lock # None /\ Fine
    <3>2. CASE Fail(a) /\ Fault("busy")
      BY <1>00, <1>01, <3>2
    <3>3. CASE ~(Fail(a) /\ Fault("busy"))
      <4>1. Postpones(a)
        BY <1>0, <1>1, <2>2, <3>3 DEF TakeLock, Shapes, Ops, Postpones, Over
      <4> QED  BY <1>01, <2>2, <4>1
    <3> QED  BY <3>2, <3>3
  <2>3. CASE lock # None /\ ~Fine
    <3>1. Fail(a) /\ Fault("busy")  BY <1>1, <2>3 DEF TakeLock
    <3> QED  BY <1>00, <1>01, <3>1
  <2> QED  BY <2>1, <2>2, <2>3
<1>2. CASE Check(a)
  <2>1. Step(a, "stop") /\ Fine
    BY <1>2 DEF Check
  <2> QED  BY <1>0, <1>01, <2>1
<1>3. CASE StopCheck(a)
  <2>0. Costless /\ UNCHANGED <<proc, disk>> /\ op[a].pc = "stop"
    BY <1>01, <1>3 DEF StopCheck, At
  <2>1. CASE journal.state = None
    <3>0. Onward(a)  BY <1>3, <2>1 DEF StopCheck, None
    <3>1. Releases(a)  BY <1>00, <3>0
    <3>2. Prepared' = {}
      BY <2>0, <2>1 DEF IInv, World, EngineIsJournaled, Prepared
    <3> QED  BY <2>0, <3>1, <3>2
  <2>2. CASE journal.state # None /\ ~journal.boot
    <3>0. Step(a, "forget")  BY <1>3, <2>2 DEF StopCheck, None
    <3> QED  BY <1>0, <2>0, <3>0
  <2>3. CASE journal.state = "intent" /\ journal.boot
    BY <1>00, <1>3, <2>0, <2>3 DEF StopCheck, None
  <2>4. CASE journal.state = "owned" /\ journal.boot
    BY <1>0, <1>3, <2>0, <2>4 DEF StopCheck, None
  <2> QED  BY <1>0, <2>1, <2>2, <2>3, <2>4 DEF Shapes
<1>4. CASE Kill(a)
  <2>1. CASE StopPID(journal.pid) /\ Step(a, "gone")
    <3>1. CASE Fault("slow")
      BY <1>0, <1>01, <2>1, <3>1
    <3>2. CASE proc' = [proc EXCEPT ![journal.pid] = "free"] /\ Fine
      <4>1. UNCHANGED disk  BY <1>4 DEF Kill
      <4>2. ~Alive(journal.pid)'
        BY <1>0, <3>2, <4>1 DEF Alive, Running, Shapes, disk
      <4> QED  BY <1>0, <1>01, <2>1, <3>2, <4>1, <4>2
    <3> QED  BY <2>1, <3>1, <3>2 DEF StopPID
  <2>2. CASE GiveUp(a) /\ Fails(a, "cmd")
    BY <1>00, <1>01, <2>2
  <2> QED  BY <1>4, <2>1, <2>2 DEF Kill
<1>5. CASE AwaitExit(a)
  <2>0. Costless /\ op[a].pc = "gone"
    BY <1>01, <1>5 DEF AwaitExit, At
  <2>1. CASE Alive(journal.pid)
    BY <1>00, <1>5, <2>0, <2>1 DEF AwaitExit
  <2>2. CASE ~Alive(journal.pid)
    BY <1>0, <1>5, <2>0, <2>2 DEF AwaitExit
  <2> QED  BY <2>1, <2>2
<1>6. CASE Forget(a)
  <2>1. CASE GiveUp(a) /\ Fails(a, "save")
    BY <1>00, <1>01, <2>1
  <2>2. CASE Fine /\ Onward(a)
    <3>1. journal.boot => journal.state = "owned" /\ ~Alive(journal.pid)
      BY <1>6 DEF Forget, At, IInv, Staged, StagedFor
    <3>2. Prepared = {}
      BY <3>1 DEF IInv, World, EngineIsJournaled, Named, Prepared, Alive, Running
    <3>3. Prepared' = {}
      BY <1>6, <3>2 DEF Forget, Prepared
    <3> QED  BY <1>00, <1>01, <2>2, <3>3
  <2> QED  BY <1>6, <2>1, <2>2 DEF Forget
<1>7. CASE \/ WriteIntent(a) \/ Fork(a) \/ SaveIdentity(a) \/ AwaitReady(a)
           \/ StartGateway(a) \/ StopGateway(a)
  BY <1>7 DEF WriteIntent, Fork, SaveIdentity, AwaitReady, StartGateway, StopGateway, At, IInv,
     Staged, StagedFor
<1> QED  BY <1>1, <1>2, <1>3, <1>4, <1>5, <1>6, <1>7 DEF OpStep

\* What no step does to the history and the budget.
LEMMA Onwards ==
    ASSUME IInv, Budget, [Next]_vars
    PROVE  happened \subseteq happened' /\ left' \in 0..MaxFaults /\ left' <= left
<1>1. /\ Fine => UNCHANGED <<left, happened>>
      /\ \A k : Fault(k) => left' = left - 1 /\ left > 0 /\ happened \subseteq happened'
      /\ \A k, a : Fails(a, k) => left' = left - 1 /\ left > 0 /\ happened \subseteq happened'
      /\ \A k : Faulty(k) => left' = left - 1 /\ left > 0 /\ happened \subseteq happened'
  BY DEF Fine, Fault, Fails, Faulty
<1>2. /\ happened \subseteq happened
      /\ left \in Nat /\ MaxFaults \in Nat /\ left <= MaxFaults
      /\ left > 0 => left - 1 \in 0..MaxFaults /\ left - 1 <= left
  BY PreparedAssumption DEF Budget
<1>3. \/ UNCHANGED <<left, happened>>
      \/ left' = left - 1 /\ left > 0 /\ happened \subseteq happened'
  <2>1. ASSUME NEW a \in Actors, OpStep(a) 
      PROVE  \/ UNCHANGED <<left, happened>>
             \/ left' = left - 1 /\ left > 0 /\ happened \subseteq happened'
    BY <1>1, <2>1 DEF OpStep, TakeLock, Check, StopCheck, Kill, StopPID, AwaitExit, Forget,
       WriteIntent, Fork, SaveIdentity, AwaitReady, StartGateway, StopGateway
  <2>2. CASE \/ AcquireLease \/ RequestPolicies \/ RequestOther \/ Quit \/ Restart
             \/ \E c \in Conns : Release(c) \/ RetryRelease(c)
    BY <1>1, <2>2 DEF AcquireLease, RequestPolicies, RequestOther, Quit, Restart, Release,
       RetryRelease
  <2>3. CASE HelperCrash \/ HelperStart \/ CliBegin \/ CliCrash \/ EngineExits \/ KilledIsGone \/ Reboot
    BY <1>1, <2>3 DEF HelperCrash, HelperStart, CliBegin, CliCrash, EngineExits, KilledIsGone, Reboot
  <2>4. CASE UNCHANGED vars
    BY <2>4 DEF vars
  <2> QED  BY <2>1, <2>2, <2>3, <2>4 DEF Next
<1> QED  BY <1>2, <1>3

\* A step of the command line's operation, as the leases see it.
LEMMA CliStep ==
    ASSUME IInv, Parties, OpStep("cli")
    PROVE  /\ UNCHANGED <<conn, tries, Helper>>
           /\ op'["cli"].kind \in {None, "start", "stop", "other"}
<1>1. "cli" \in Actors /\ "helper" \in Actors \ {"cli"}
  BY DEF Actors
<1>2. op["cli"].kind \notin {"release", "prepare", "undo"}
  BY DEF Parties, None
<1>3. Proceeds("cli") \/ Quits("cli")
  BY <1>1, <1>2, OtherStep DEF IInv
<1>4. conn' = conn
  <2>1. CASE Proceeds("cli")  BY <2>1 DEF Proceeds
  <2>2. CASE Quits("cli")
    <3>1. conn \in ConnType /\ conn' \in ConnType
      BY <1>1, OpStepKeeps DEF IInv, Shapes, ConnType
    <3>2. \A c \in Conns : conn'[c] = conn[c]
      BY <1>2, <2>2 DEF Quits
    <3> QED  BY <3>1, <3>2 DEF ConnType
  <2> QED  BY <1>3, <2>1, <2>2
<1> QED  BY <1>1, <1>2, <1>3, <1>4 DEF Proceeds, Quits, Over, Parties, Helper, Idle, None

\* The counts of attempts stay counts.
LEMMA BudgetStep == ASSUME IInv, Budget, Parties, [Next]_vars PROVE Budget'
<1>0. left' \in 0..MaxFaults  BY Onwards DEF Budget
<1>1. ASSUME UNCHANGED tries PROVE Budget'
  BY <1>0, <1>1 DEF Budget
<1>2. CASE OpStep("helper")
  <2>0. "helper" \in Actors /\ IInv  BY DEF Actors
  <2>1. CASE Helper.kind # "release"
    BY <1>1, <1>2, <2>0, <2>1, OtherStep DEF IInv, Proceeds, Quits, Helper
  <2>2. CASE Helper.kind = "release"
    <3>1. \/ UNCHANGED tries
          \/ \E c \in Conns : \/ tries' = [tries EXCEPT ![c] = 0]
                              \/ tries' = [tries EXCEPT ![c] = IF @ + 1 = MaxTries THEN 0 ELSE @ + 1]
      BY <1>2, <2>0, <2>2, ReleaseStep DEF Proceeds, Releases, Postpones, Retries, Parties, Helper, Budget
    <3> QED  BY <1>0, <3>1 DEF Budget
  <2> QED  BY <2>1, <2>2
<1>3. CASE OpStep("cli")
  BY <1>1, <1>3, CliStep
<1>4. CASE AcquireLease \/ RequestPolicies \/ RequestOther \/ Quit \/ Restart
  BY <1>1, <1>4 DEF AcquireLease, RequestPolicies, RequestOther, Quit, Restart, leases
<1>5. ASSUME NEW c \in Conns, Release(c) \/ RetryRelease(c) PROVE Budget'
  BY <1>0, <1>5 DEF Release, RetryRelease, leases, Budget
<1>6. CASE HelperCrash \/ HelperStart \/ CliBegin \/ CliCrash \/ EngineExits \/ KilledIsGone \/ Reboot
  BY <1>0, <1>6 DEF HelperCrash, HelperStart, CliBegin, CliCrash, EngineExits, KilledIsGone, Reboot,
     leases, Budget
<1>7. CASE UNCHANGED vars
  BY <1>1, <1>7 DEF vars, leases
<1> QED  BY <1>2, <1>3, <1>4, <1>5, <1>6, <1>7 DEF Next, Actors

LEMMA PartiesStep == ASSUME IInv, Budget, Parties, [Next]_vars PROVE Parties'
<1>0. /\ "helper" \in Actors /\ "cli" \in Actors /\ "helper" # "cli"
      /\ Shapes /\ Idle.kind = None /\ None \notin Conns
      /\ None \notin {"release", "prepare", "undo"}
  BY PreparedAssumption DEF Actors, IInv, Idle, None
<1>1. ASSUME UNCHANGED op, Holders \subseteq Holders' PROVE Parties'
  BY <1>1 DEF Parties, Helper
<1>2. CASE OpStep("helper")
  <2>1. CASE Over("helper")
    BY <1>0, <2>1 DEF Over, Parties, Helper
  <2>2. CASE Proceeds("helper")
    BY <1>0, <2>2 DEF Proceeds, Parties, Helper, Holders
  <2>3. Over("helper") \/ Proceeds("helper")
    BY <1>0, <1>2, OtherStep, ReleaseStep DEF IInv, Quits, Releases, Postpones, Retries
  <2> QED  BY <2>1, <2>2, <2>3
<1>3. CASE OpStep("cli")
  BY <1>0, <1>3, CliStep DEF Parties, Helper, Holders
<1>4. CASE AcquireLease
  <2>1. UNCHANGED op /\ Holders \subseteq Holders'
    BY <1>0, <1>4 DEF AcquireLease, Shapes, Holders
  <2> QED  BY <1>1, <2>1
<1>5. CASE RequestPolicies
  <2>1. CASE DropLease /\ UNCHANGED op
    BY <1>0, <1>1, <2>1, Dropped
  <2>2. CASE Holders # {} /\ Begin("helper", "prepare", None) /\ UNCHANGED conn
    BY <1>0, <2>2 DEF Begin, Op, Parties, Helper, Holders, Shapes
  <2> QED  BY <1>5, <2>1, <2>2 DEF RequestPolicies
<1>6. CASE RequestOther
  <2>1. PICK kind \in {"start", "stop", "config"} : Begin("helper", kind, None)
    BY <1>6 DEF RequestOther
  <2> QED  BY <1>0, <2>1 DEF Begin, Op, Parties, Helper, Shapes
<1>7. CASE Quit
  BY <1>0, <1>1, <1>7, Dropped DEF Quit
<1>8. CASE Restart
  BY <1>1, <1>8 DEF Restart, leases, Holders
<1>9. ASSUME NEW c \in Conns, Release(c) \/ RetryRelease(c) PROVE Parties'
  <2>0. Helper = Idle  BY <1>9 DEF Release, RetryRelease, Free, Helper
  <2>1. CASE UNCHANGED op
    BY <1>0, <2>0, <2>1 DEF Parties, Helper
  <2>2. CASE Begin("helper", "release", c)
    BY <1>0, <2>2 DEF Begin, Op, Idle, Parties, Helper, Shapes
  <2> QED  BY <1>9, <2>1, <2>2 DEF Release, RetryRelease
<1>10. CASE HelperCrash \/ Reboot
  BY <1>0, <1>10 DEF HelperCrash, Reboot, Parties, Helper, Shapes
<1>11. CASE HelperStart
  BY <1>0, <1>11 DEF HelperStart, Begin, Op, Parties, Helper, Shapes
<1>12. CASE CliBegin
  <2>1. PICK kind \in {"start", "stop", "other"} : Begin("cli", kind, None) /\ UNCHANGED conn
    BY <1>12, PreparedAssumption DEF CliBegin, leases
  <2> QED  BY <1>0, <2>1 DEF Begin, Op, Parties, Helper, Shapes, Holders
<1>13. CASE CliCrash
  BY <1>0, <1>13 DEF CliCrash, Parties, Helper, Shapes, Holders, leases
<1>14. CASE EngineExits \/ KilledIsGone \/ UNCHANGED vars
  BY <1>1, <1>14 DEF EngineExits, KilledIsGone, vars, leases, Holders
<1> QED  BY <1>2, <1>3, <1>4, <1>5, <1>6, <1>7, <1>8, <1>9, <1>10, <1>11, <1>12, <1>13, <1>14
   DEF Next, Actors

LEMMA RestingStep == ASSUME IInv, Parties, Resting, [Next]_vars PROVE Resting'
<1>0. "helper" \in Actors /\ "cli" \in Actors /\ Shapes /\ Idle.pc = None /\ None = "none"
  BY DEF Actors, IInv, Idle, None
<1>1. CASE OpStep("helper")
  <2>1. Helper # Idle
    BY <1>0, <1>1 DEF OpStep, TakeLock, Check, StopCheck, Kill, AwaitExit, Forget, WriteIntent,
       Fork, SaveIdentity, AwaitReady, StartGateway, StopGateway, At, Helper
  <2>2. helper' = helper
    BY <1>1 DEF OpStep, TakeLock, Check, StopCheck, Kill, AwaitExit, Forget, WriteIntent,
       Fork, SaveIdentity, AwaitReady, StartGateway, StopGateway
  <2> QED  BY <2>1, <2>2 DEF Resting
<1>2. CASE OpStep("cli")
  <2>1. helper' = helper
    BY <1>2 DEF OpStep, TakeLock, Check, StopCheck, Kill, AwaitExit, Forget, WriteIntent,
       Fork, SaveIdentity, AwaitReady, StartGateway, StopGateway
  <2> QED  BY <1>2, <2>1, CliStep DEF Resting
<1>3. CASE \/ AcquireLease \/ RequestPolicies \/ RequestOther
           \/ \E c \in Conns : Release(c) \/ RetryRelease(c)
  BY <1>3 DEF AcquireLease, RequestPolicies, RequestOther, Release, RetryRelease, Free, Resting
<1>4. CASE Quit \/ Restart \/ EngineExits \/ KilledIsGone \/ UNCHANGED vars
  BY <1>4 DEF Quit, Restart, EngineExits, KilledIsGone, vars, Helper, Resting
<1>5. CASE HelperCrash \/ HelperStart \/ CliBegin \/ CliCrash
  BY <1>0, <1>5 DEF HelperCrash, HelperStart, CliBegin, CliCrash, Begin, Helper, Resting, Shapes
<1>6. CASE Reboot
  BY <1>0, <1>6 DEF Reboot, Helper, Resting
<1> QED  BY <1>1, <1>2, <1>3, <1>4, <1>5, <1>6 DEF Next, Actors

-----------------------------------------------------------------------------
(* Engines and their record.                                                *)

\* A prepared engine comes from the helper's fork only, and a step that leaves
\* one keeps the record, but for the identity that is added to it.
LEMMA EngineStep ==
    ASSUME IInv, Parties, [Next]_vars
    PROVE  \/ Prepared' = {}
           \/ /\ Prepared' \subseteq Prepared /\ Prepared' # {}
              /\ \/ UNCHANGED journal
                 \/ Helper.pc = "save" /\ journal'.state = "owned"
           \/ /\ Helper.kind = "prepare" /\ Helper'.pc = "save" /\ UNCHANGED <<conn, tries, left, happened>>
<1> SUFFICES ASSUME Prepared' # {}
             PROVE  \/ Prepared' \subseteq Prepared /\ UNCHANGED journal
                    \/ Prepared' \subseteq Prepared /\ Helper.pc = "save" /\ journal'.state = "owned"
                    \/ /\ Helper.kind = "prepare" /\ Helper'.pc = "save"
                       /\ UNCHANGED <<conn, tries, left, happened>>
  OBVIOUS
<1>0. Shapes /\ Prepared # {} => journal.state # None /\ journal.boot
  BY DEF IInv, World, EngineIsJournaled
<1>00. proc \in [Pids -> {"free", "prepared", "gateway", "dying"}]
  BY DEF IInv, Shapes
<1>1. ASSUME NEW p, NEW s \in {"free", "dying", "gateway"}, proc' = [proc EXCEPT ![p] = s]
      PROVE  Prepared' \subseteq Prepared
  BY <1>00, <1>1 DEF Prepared
<1>2. ASSUME NEW a \in Actors, OpStep(a), UNCHANGED journal, ~Fork(a)
      PROVE  Prepared' \subseteq Prepared
  <2>1. UNCHANGED proc \/ \E p, s : s \in {"free", "dying", "gateway"} /\ proc' = [proc EXCEPT ![p] = s]
    BY <1>2 DEF OpStep, TakeLock, Check, StopCheck, Kill, StopPID, AwaitExit, Forget,
       WriteIntent, SaveIdentity, AwaitReady, StartGateway, StopGateway
  <2> QED  BY <1>1, <2>1 DEF Prepared
<1>3. ASSUME NEW a \in Actors, Fork(a) \/ SaveIdentity(a) PROVE a = "helper" /\ op[a].kind = "prepare"
  BY <1>3 DEF Fork, SaveIdentity, At, IInv, Staged, StagedFor, Parties, Actors, None
<1>4. ASSUME NEW a \in Actors, Forget(a)
      PROVE  Prepared' \subseteq Prepared /\ UNCHANGED journal
  <2>1. journal.boot => journal.state = "owned" /\ ~Alive(journal.pid)
    BY <1>4 DEF Forget, At, IInv, Staged, StagedFor
  <2>2. Prepared = {}
    BY <2>1, <1>0 DEF IInv, World, Named, Prepared, Alive, Running
  <2> QED  BY <1>4, <2>2 DEF Forget, Prepared
<1>5. ASSUME NEW a \in Actors, WriteIntent(a)
      PROVE  Prepared' \subseteq Prepared /\ UNCHANGED journal
  <2>1. Prepared = {}
    BY <1>0, <1>5 DEF WriteIntent, At, IInv, Staged, StagedFor
  <2> QED  BY <1>5, <2>1 DEF WriteIntent, Prepared
<1>6. CASE Fork("helper")
  <2>1. Prepared = {} /\ Helper.kind = "prepare"
    BY <1>6 DEF Fork, At, IInv, Staged, StagedFor, Helper, Actors
  <2>2. op["helper"] \in Ops /\ op \in [Actors -> Ops] /\ "helper" \in Actors
    BY DEF IInv, Shapes, Actors
  <2> QED  BY <1>6, <2>1, <2>2 DEF Fork, Fine, Helper, Prepared, leases, Ops
<1>7. CASE SaveIdentity("helper")
  <2>1. Prepared \subseteq {Helper.child} /\ Helper.pc = "save"
    BY <1>7 DEF SaveIdentity, At, IInv, Staged, StagedFor, Helper, Actors
  <2>2. ASSUME NEW s \in {"free", "dying"}, proc' = [proc EXCEPT ![Helper.child] = s]
        PROVE  FALSE
    BY <1>00, <2>1, <2>2 DEF Prepared
  <2> QED  BY <1>7, <2>1, <2>2 DEF SaveIdentity, Helper, Prepared
<1>8. ASSUME NEW a \in Actors, OpStep(a), ~(Fork(a) \/ SaveIdentity(a) \/ Forget(a) \/ WriteIntent(a))
      PROVE  UNCHANGED journal
  BY <1>8 DEF OpStep, TakeLock, Check, StopCheck, Kill, AwaitExit, AwaitReady, StartGateway,
     StopGateway, disk
<1>9. ASSUME NEW a \in Actors, OpStep(a)
      PROVE  \/ Prepared' \subseteq Prepared /\ UNCHANGED journal
             \/ Fork("helper") \/ SaveIdentity("helper")
  BY <1>2, <1>3, <1>4, <1>5, <1>8, <1>9
<1>10. CASE \/ AcquireLease \/ RequestPolicies \/ RequestOther \/ Quit \/ Restart
            \/ \E c \in Conns : Release(c) \/ RetryRelease(c)
  BY <1>10 DEF AcquireLease, RequestPolicies, RequestOther, Quit, Restart, Release, RetryRelease,
     disk, Prepared
<1>11. CASE HelperCrash \/ HelperStart \/ CliBegin \/ CliCrash
  BY <1>11 DEF HelperCrash, HelperStart, CliBegin, CliCrash, disk, Prepared
<1>12. CASE EngineExits \/ KilledIsGone
  BY <1>1, <1>12 DEF EngineExits, KilledIsGone, disk
<1>13. CASE Reboot
  BY <1>13 DEF Reboot, Prepared
<1>14. CASE UNCHANGED vars
  BY <1>14 DEF vars, disk, Prepared
<1> QED  BY <1>6, <1>7, <1>9, <1>10, <1>11, <1>12, <1>13, <1>14 DEF Next

\* Between fork and record the helper records the engine, stops it, or loses it.
LEMMA AtSave ==
    ASSUME IInv, Parties, Resting, [Next]_vars, Helper.pc = "save", Prepared' # {}, UNCHANGED journal,
           journal.state # "owned", "lost" \notin happened'
    PROVE  Helper'.pc = "save"
<1>0. /\ Prepared \subseteq {Helper.child} /\ Helper.kind = "prepare"
      /\ "helper" \in Actors /\ Shapes /\ op["helper"] # Idle
  BY DEF IInv, Staged, StagedFor, Helper, Actors, Idle, None
<1>1. ASSUME Helper' = Helper PROVE Helper'.pc = "save"
  BY <1>1
<1>2. CASE OpStep("helper")
  <2>1. SaveIdentity("helper")
    BY <1>2 DEF OpStep, TakeLock, Check, StopCheck, Kill, AwaitExit, Forget, WriteIntent, Fork,
       AwaitReady, StartGateway, StopGateway, At, Helper
  <2>2. ASSUME NEW s \in {"free", "dying"}, proc' = [proc EXCEPT ![Helper.child] = s]
        PROVE  FALSE
    BY <1>0, <2>2 DEF Prepared, Shapes
  <2>3. ~Fails("helper", "lost")
    BY <1>0 DEF Fails, Fault, Faulty, Then, Helper
  <2> QED  BY <2>1, <2>2, <2>3 DEF SaveIdentity, Helper
<1>3. CASE OpStep("cli")
  BY <1>1, <1>3, CliStep
<1>4. CASE AcquireLease \/ Quit \/ Restart \/ EngineExits \/ KilledIsGone \/ UNCHANGED vars
  BY <1>1, <1>4 DEF AcquireLease, Quit, Restart, EngineExits, KilledIsGone, vars, Helper
<1>5. CASE CliBegin \/ CliCrash
  BY <1>0, <1>1, <1>5 DEF CliBegin, CliCrash, Begin, Helper, Shapes
<1>6. CASE \/ RequestPolicies \/ RequestOther
           \/ \E c \in Conns : Release(c) \/ RetryRelease(c)
  BY <1>0, <1>6 DEF RequestPolicies, RequestOther, Release, RetryRelease, Free, Helper
<1>7. CASE HelperCrash
  BY <1>7 DEF HelperCrash, Fault, Faulty, Helper
<1>8. CASE HelperStart
  BY <1>0, <1>8 DEF HelperStart, Resting, Helper
<1>9. CASE Reboot
  BY <1>9 DEF Reboot, Prepared
<1> QED  BY <1>2, <1>3, <1>4, <1>5, <1>6, <1>7, <1>8, <1>9 DEF Next, Actors

LEMMA IdentifiedStep == ASSUME IInv, Parties, Resting, Identified, [Next]_vars, Budget PROVE Identified'
<1> SUFFICES ASSUME "lost" \notin happened', Prepared' # {}
             PROVE  journal'.state = "owned" \/ Helper'.pc = "save"
  BY DEF Identified
<1>1. "lost" \notin happened  BY Onwards
<1>2. CASE Prepared' \subseteq Prepared /\ UNCHANGED journal
  <2>1. journal.state = "owned" \/ Helper.pc = "save"
    BY <1>1, <1>2 DEF Identified
  <2> QED  BY <1>2, <2>1, AtSave
<1> QED  BY <1>2, EngineStep

LEMMA BeginIs == ASSUME Shapes, NEW a \in Actors, NEW kind, NEW c, Begin(a, kind, c)
                 PROVE  op'[a].pc = "lock" /\ \A b \in Actors \ {a} : op'[b] = op[b]
<1>1. op' = [op EXCEPT ![a] = Op(kind, c)]  BY DEF Begin
<1>2. Op(kind, c).pc = "lock"  BY DEF Op, Idle
<1> QED  BY <1>1, <1>2 DEF Shapes

\* A record without a process stays until the next boot.
LEMMA StuckStep == ASSUME IInv, Parties, Resting, Stuck, [Next]_vars PROVE Stuck' \/ Reboot
<1>0. "helper" \in Actors /\ "cli" \in Actors /\ Shapes /\ Idle.pc = None /\ None = "none"
  BY DEF Actors, IInv, Idle, None
<1>00. /\ \A kind, c : Begin("helper", kind, c) => Helper'.pc = "lock"
       /\ \A kind, c : Begin("cli", kind, c) => Helper' = Helper
  BY <1>0, BeginIs DEF Helper, Actors
<1>1. ASSUME NEW a \in Actors, OpStep(a)
      PROVE  UNCHANGED journal /\ ~Fork(a) /\ ~WriteIntent(a)
  <2>1. ~Forget(a) /\ ~WriteIntent(a)
    BY <1>0 DEF Forget, WriteIntent, At, IInv, Staged, StagedFor, Stuck
  <2>2. ~Fork(a) /\ ~SaveIdentity(a)
    BY <1>0 DEF Fork, SaveIdentity, At, IInv, Staged, StagedFor, Stuck, Parties, Helper, Actors
  <2> QED
    BY <1>1, <2>1, <2>2 DEF OpStep, TakeLock, Check, StopCheck, Kill, AwaitExit, AwaitReady,
       StartGateway, StopGateway, disk
<1>2. CASE OpStep("helper")
  <2>1. Helper'.pc \notin {"fork", "save"}
    <3>0. \A pc : Step("helper", pc) => Helper'.pc = pc
      BY <1>0, StepIs DEF Helper
    <3>00. /\ Fail("helper") \/ Succeed("helper") => Helper'.pc = "none"
           /\ GiveUp("helper") => Helper'.pc \in {"none", "gateway", "stop"}
           /\ Onward("helper") => Helper'.pc \in {"none", "gateway", "intent"}
      BY <1>0, FailIs, SucceedIs, GiveUpIs, OnwardIs DEF Quits, Releases, Retries, Over, Helper
    <3>1. CASE TakeLock("helper")
      BY <1>0, <3>00, <3>1 DEF TakeLock, Shapes, Ops, Helper
    <3>2. CASE Check("helper")
      BY <3>0, <3>00, <3>2 DEF Check
    <3>3. CASE StopCheck("helper")
      BY <1>0, <3>0, <3>00, <3>3 DEF StopCheck, Shapes
    <3>4. CASE Kill("helper") \/ AwaitExit("helper") \/ Forget("helper")
      BY <3>0, <3>00, <3>4 DEF Kill, AwaitExit, Forget
    <3>5. CASE AwaitReady("helper")
      BY <1>0, <3>00, <3>5 DEF AwaitReady, Shapes, Ops, Helper
    <3>6. CASE StartGateway("helper") \/ StopGateway("helper")
      BY <3>00, <3>6 DEF StartGateway, StopGateway
    <3>7. CASE SaveIdentity("helper")
      BY <3>7 DEF SaveIdentity, At, Stuck, Helper
    <3> QED  BY <1>0, <1>1, <1>2, <3>1, <3>2, <3>3, <3>4, <3>5, <3>6, <3>7 DEF OpStep
  <2> QED  BY <1>0, <1>1, <1>2, <2>1 DEF Stuck
<1>3. CASE OpStep("cli")
  BY <1>0, <1>1, <1>3, CliStep DEF Stuck
<1>4. CASE AcquireLease \/ Quit \/ Restart \/ EngineExits \/ KilledIsGone \/ UNCHANGED vars
  BY <1>4 DEF AcquireLease, Quit, Restart, EngineExits, KilledIsGone, vars, disk, Helper, Stuck
<1>5. CASE HelperCrash \/ HelperStart \/ CliBegin \/ CliCrash
  <2>1. HelperCrash \/ CliCrash => Helper'.pc = "none" \/ Helper' = Helper
    BY <1>0 DEF HelperCrash, CliCrash, Helper, Shapes
  <2>2. HelperStart \/ CliBegin => Helper'.pc = "lock" \/ Helper' = Helper
    BY <1>00 DEF HelperStart, CliBegin
  <2>3. UNCHANGED journal
    BY <1>5 DEF HelperCrash, HelperStart, CliBegin, CliCrash, disk
  <2> QED  BY <1>5, <2>1, <2>2, <2>3 DEF Stuck
<1>6. CASE RequestPolicies
  BY <1>00, <1>6 DEF RequestPolicies, disk, Helper, Stuck
<1>7. CASE RequestOther
  BY <1>00, <1>7 DEF RequestOther, disk, Stuck
<1>8. ASSUME NEW c \in Conns, Release(c) \/ RetryRelease(c) PROVE Stuck'
  BY <1>00, <1>8 DEF Release, RetryRelease, disk, Helper, Stuck
<1> QED  BY <1>2, <1>3, <1>4, <1>5, <1>6, <1>7, <1>8 DEF Next, Actors

-----------------------------------------------------------------------------
(* Attempts and what they cost.                                             *)

\* What a step of the helper's release costs.
LEMMA ReleasePaid ==
    ASSUME IInv, Budget, Budget', Parties, Insured, OpStep("helper"), Helper.kind = "release"
    PROVE  Insured' \/ Stuck'
<1>0. /\ "helper" \in Actors /\ Helper.by \in Conns
      /\ tries \in [Conns -> Nat] /\ left \in Nat /\ left' \in Nat /\ MaxFaults \in Nat
      /\ \A c \in Conns : tries[c] \in Nat /\ tries[c] + left <= MaxFaults
      /\ left' <= MaxFaults
  BY PreparedAssumption DEF Actors, Parties, Insured, Budget
<1>1. CASE Proceeds("helper") /\ Helper'.pc # "gone" /\ Costless
  BY <1>0, <1>1 DEF Proceeds, Costless, Insured, Owing
<1>2. CASE Proceeds("helper") /\ Pays
  BY <1>0, <1>2 DEF Proceeds, Pays, Insured
<1>3. CASE Proceeds("helper") /\ Costless /\ ~Alive(journal.pid)'
  BY <1>0, <1>3 DEF Proceeds, Costless, Insured, Owing
<1>4. ASSUME Over("helper") PROVE \A c \in Conns : ~Owing(c)'
  BY <1>4 DEF Over, Owing, Helper, Idle, None
<1>5. CASE Releases("helper") /\ Costless
  BY <1>0, <1>4, <1>5 DEF Releases, Costless, Insured, Helper
<1>6. CASE Postpones("helper") /\ Costless
  BY <1>0, <1>4, <1>6 DEF Postpones, Costless, Insured
<1>7. CASE Retries("helper") /\ Pays
  <2>1. \A c \in Conns : tries'[c] <= tries[c] + 1 \/ tries'[c] = 0
    BY <1>0, <1>7 DEF Retries, Helper
  <2>2. \A c \in Conns : tries'[c] \in Nat
    BY DEF Budget
  <2>3. \A c \in Conns : tries'[c] + left' <= MaxFaults
    BY <1>0, <1>7, <2>1, <2>2 DEF Pays
  <2> QED  BY <1>4, <1>7, <2>3 DEF Retries, Insured
<1>8. CASE Retries("helper") /\ Costless /\ Helper.pc = "gone" /\ Alive(journal.pid)
  <2>1. tries[Helper.by] + left + 1 <= MaxFaults
    BY <1>0, <1>8 DEF Insured, Owing
  <2>2. \A c \in Conns : tries'[c] = tries[c] \/ tries'[c] = 0 \/ (c = Helper.by /\ tries'[c] = tries[c] + 1)
    <3>1. PICK n \in {0, tries[Helper.by] + 1} : tries' = [tries EXCEPT ![Helper.by] = n]
      BY <1>0, <1>8 DEF Retries, Helper
    <3>2. ASSUME NEW c \in Conns PROVE tries'[c] = IF c = Helper.by THEN n ELSE tries[c]
      BY <1>0, <3>1
    <3> QED  BY <3>1, <3>2
  <2>3. \A c \in Conns : tries'[c] + left' <= MaxFaults
    BY <1>0, <1>8, <2>1, <2>2 DEF Costless
  <2> QED  BY <1>4, <1>8, <2>3 DEF Retries, Insured
<1>9. CASE Retries("helper") /\ journal.state = "intent" /\ journal.boot /\ UNCHANGED disk
  BY <1>9 DEF Retries, Over, Stuck, Helper, Idle, None, disk
<1> QED  BY <1>0, <1>1, <1>2, <1>3, <1>5, <1>6, <1>7, <1>8, <1>9, ReleaseStep DEF Helper

LEMMA PaidStep ==
    ASSUME IInv, Budget, Budget', Parties, Resting, Paid, [Next]_vars
    PROVE  Paid'
<1>0. /\ "helper" \in Actors /\ "cli" \in Actors /\ Shapes /\ "lock" # "gone"
      /\ tries \in [Conns -> Nat] /\ left \in Nat /\ left' \in Nat /\ MaxFaults \in Nat
      /\ tries' \in [Conns -> Nat] /\ left' <= MaxFaults /\ left' <= left
      /\ happened \subseteq happened'
  BY PreparedAssumption, Onwards DEF Actors, IInv, Budget
<1>1. CASE "lost" \in happened
  BY <1>0, <1>1 DEF Paid
<1>2. CASE Reboot
  BY <1>0, <1>2 DEF Reboot, Paid, Insured, Owing, Helper, Idle, None
<1>3. CASE Stuck /\ ~Reboot
  BY <1>3, StuckStep DEF Paid
<1>4. CASE Insured /\ ~Reboot
  <2>1. ASSUME \A c \in Conns : tries'[c] <= tries[c],
               \A c \in Conns : Owing(c)' => Owing(c)
        PROVE  Insured'
    <3> SUFFICES ASSUME NEW c \in Conns
                 PROVE  /\ tries'[c] + left' <= MaxFaults
                        /\ Owing(c)' => tries'[c] + left' + 1 <= MaxFaults
      BY DEF Insured
    <3>1. tries[c] \in Nat /\ tries'[c] \in Nat /\ tries'[c] <= tries[c]
      BY <1>0, <2>1
    <3>2. tries[c] + left <= MaxFaults /\ (Owing(c) => tries[c] + left + 1 <= MaxFaults)
      BY <1>4 DEF Insured
    <3> QED  BY <1>0, <2>1, <3>1, <3>2
  <2>2. ASSUME UNCHANGED tries, Helper'.kind # "release" \/ Helper'.pc # "gone" PROVE Insured'
    BY <1>0, <2>1, <2>2 DEF Owing
  <2>3. ASSUME UNCHANGED <<tries, Helper>>, Alive(journal.pid)' => Alive(journal.pid) PROVE Insured'
    BY <1>0, <2>1, <2>3 DEF Owing
  <2>4. CASE OpStep("helper")
    <3>1. CASE Helper.kind = "release"
      BY <1>4, <2>4, <3>1, ReleasePaid DEF Paid
    <3>2. CASE Helper.kind # "release"
      BY <1>0, <2>2, <2>4, <3>2, OtherStep DEF IInv, Proceeds, Quits, Over, Helper, Idle, None, Paid
    <3> QED  BY <3>1, <3>2
  <2>5. CASE OpStep("cli")
    <3>0. UNCHANGED <<tries, Helper>>  BY <2>5, CliStep
    <3>1. CASE Helper.pc # "gone"
      BY <2>2, <3>0, <3>1 DEF Paid
    <3>2. CASE Helper.pc = "gone"
      <4>1. op["cli"].pc \in {None, "lock"}
        BY <1>0, <3>2 DEF IInv, Exclusive, Waiting, Helper, Actors, None
      <4>2. TakeLock("cli")
        BY <2>5, <4>1 DEF OpStep, Check, StopCheck, Kill, AwaitExit, Forget, WriteIntent, Fork,
           SaveIdentity, AwaitReady, StartGateway, StopGateway, At, None
      <4> QED  BY <2>3, <3>0, <4>2 DEF TakeLock, disk, Alive, Running, Paid
    <3> QED  BY <3>1, <3>2
  <2>6. CASE AcquireLease \/ Quit \/ Restart \/ UNCHANGED vars
    BY <2>3, <2>6 DEF AcquireLease, Quit, Restart, vars, leases, disk, Helper, Alive, Running, Paid
  <2>7. CASE EngineExits \/ KilledIsGone
    BY <1>0, <2>3, <2>7 DEF EngineExits, KilledIsGone, leases, disk, Helper, Alive, Running, Shapes, Paid
  <2>8. /\ \A kind, c : Begin("helper", kind, c) => Helper'.pc = "lock"
        /\ \A kind, c : Begin("cli", kind, c) => Helper' = Helper
    BY <1>0, BeginIs DEF Helper, Actors
  <2>9. CASE RequestPolicies \/ RequestOther
    BY <2>2, <2>3, <2>8, <2>9 DEF RequestPolicies, RequestOther, leases, disk, Helper, Alive, Running, Paid
  <2>10. ASSUME NEW c \in Conns, Release(c) \/ RetryRelease(c) PROVE Insured'
    <3>1. Helper = Idle /\ (Helper' = Idle \/ Helper'.pc = "lock")
      BY <2>8, <2>10 DEF Release, RetryRelease, Free, Helper
    <3>2. \A d \in Conns : tries'[d] <= tries[d]
      BY <1>0, <2>10 DEF Release, RetryRelease, leases
    <3>3. \A d \in Conns : ~Owing(d)'
      BY <3>1 DEF Owing, Idle, None
    <3> QED  BY <2>1, <3>2, <3>3
  <2>11. CASE HelperCrash
    <3>1. \A d \in Conns : tries'[d] <= tries[d] /\ ~Owing(d)'
      BY <1>0, <2>11 DEF HelperCrash, Owing, Helper, Idle, None, Shapes
    <3> QED  BY <2>1, <3>1 DEF Paid
  <2>12. CASE HelperStart
    BY <2>2, <2>8, <2>12 DEF HelperStart, leases, Paid
  <2>13. CASE CliBegin \/ CliCrash
    <3>1. UNCHANGED <<tries, Helper, proc, journal>>
      BY <1>0, <2>8, <2>13 DEF CliBegin, CliCrash, leases, disk, Helper, Shapes
    <3> QED  BY <2>3, <3>1 DEF Alive, Running, Paid
  <2> QED
    BY <1>4, <2>4, <2>5, <2>6, <2>7, <2>9, <2>10, <2>11, <2>12, <2>13 DEF Next, Actors, Paid
<1> QED  BY <1>1, <1>2, <1>3, <1>4 DEF Paid

-----------------------------------------------------------------------------
(* The engine that is left waits for somebody.                              *)
LEMMA ExpectedStep == ASSUME IInv, Awaited, [Next]_vars PROVE Expected'
<1> DEFINE Waits == \E c \in Conns : conn[c] = "retry"
<1> SUFFICES ASSUME happened' \cap {"crash", "lost", "boot"} = {}, Few', Prepared' # {}
             PROVE  Holders' # {} \/ Waits'
  BY DEF Expected
<1>0. /\ happened \cap {"crash", "lost", "boot"} = {} /\ left' <= left
      /\ left \in Nat /\ left' \in Nat /\ MaxFaults \in Nat /\ MaxTries \in Nat /\ Few
      /\ "helper" \in Actors /\ Shapes
  BY PreparedAssumption, Onwards DEF Awaited, Budget, Few, Actors, IInv
<1>1. CASE Helper.kind = "prepare" /\ UNCHANGED conn
  BY <1>1 DEF Awaited, Parties, Holders
<1>2. CASE Prepared' \subseteq Prepared
  <2>0. Holders # {} \/ Waits
    BY <1>0, <1>2 DEF Awaited, Expected
  <2>1. ASSUME UNCHANGED conn PROVE Holders' # {} \/ Waits'
    BY <2>0, <2>1 DEF Holders
  <2>2. ASSUME \A c \in Conns : conn'[c] = conn[c] \/ (conn[c] = "held" /\ conn'[c] = "closed")
        PROVE  Holders' # {} \/ Waits'
    BY <2>0, <2>2 DEF Holders
  <2>3. DropLease => Holders' # {} \/ Waits'
    <3>1. DropLease => \A c \in Conns : conn'[c] = conn[c] \/ (conn[c] = "held" /\ conn'[c] = "closed")
      BY DEF DropLease
    <3> QED  BY <2>2, <3>1
  <2>4. CASE OpStep("helper") /\ Helper.kind # "release"
    <3>1. Proceeds("helper") \/ Quits("helper")
      BY <1>0, <2>4, OtherStep DEF IInv, Helper
    <3>2. CASE Proceeds("helper")
      BY <2>1, <3>2 DEF Proceeds
    <3>3. CASE Quits("helper")
      <4>1. \A c \in Conns : conn'[c] = conn[c] \/ (conn[c] = "held" /\ conn'[c] = "closed")
        BY <3>3 DEF Quits
      <4> QED  BY <2>2, <4>1
    <3> QED  BY <3>1, <3>2, <3>3
  <2>5. CASE OpStep("helper") /\ Helper.kind = "release"
    <3> DEFINE c == Helper.by
    <3>0. c \in Conns /\ tries[c] \in Nat
      BY <2>5 DEF Awaited, Parties, Budget
    <3>1. Insured
      BY <1>0, <1>2, <2>5 DEF Awaited, Paid, Identified, Stuck, IInv, Staged, StagedFor, Helper, Actors
    <3>2. CASE Retries("helper") /\ tries[c] + 1 # MaxTries
      BY <1>0, <3>0, <3>2 DEF Retries, Helper, Shapes
    <3>3. CASE Pays
      <4>1. tries[c] + left <= MaxFaults /\ left' = left - 1
        BY <3>0, <3>1, <3>3 DEF Insured, Pays
      <4>2. tries[c] + 1 # MaxTries
        BY <1>0, <3>0, <4>1 DEF Few
      <4> QED  BY <1>0, <2>1, <2>5, <3>2, <3>3, <4>2, ReleaseStep DEF Awaited, Proceeds, Pays, Costless, Helper, Budget
    <3>4. CASE Costless /\ Retries("helper") /\ Helper.pc = "gone" /\ Alive(journal.pid)
      <4>1. tries[c] + left + 1 <= MaxFaults
        BY <2>5, <3>0, <3>1, <3>4 DEF Insured, Owing
      <4>2. tries[c] + 1 # MaxTries
        BY <1>0, <3>0, <4>1 DEF Few
      <4> QED  BY <3>2, <3>4, <4>2
    <3>5. CASE Retries("helper") /\ Helper.pc = "stop" /\ journal.state = "intent"
      BY <1>0, <1>2, <3>5 DEF Awaited, Identified
    <3>6. CASE Postpones("helper")
      BY <1>0, <3>0, <3>6 DEF Postpones, Shapes, Helper
    <3>7. CASE Proceeds("helper")
      BY <2>1, <3>7 DEF Proceeds
    <3> QED  BY <2>5, <3>3, <3>4, <3>5, <3>6, <3>7, <1>0, ReleaseStep DEF Awaited, Helper
  <2>6. CASE OpStep("cli")
    BY <2>1, <2>6, CliStep DEF Awaited
  <2>7. CASE AcquireLease
    <3>1. \A c \in Conns : conn[c] # "free" => conn'[c] = conn[c]
      BY <1>0, <2>7 DEF AcquireLease, Shapes
    <3> QED  BY <2>0, <3>1 DEF Holders
  <2>8. CASE RequestPolicies \/ Quit
    BY <2>1, <2>3, <2>8 DEF RequestPolicies, Quit
  <2>9. CASE RequestOther \/ Restart \/ HelperStart \/ CliBegin \/ CliCrash \/ EngineExits
             \/ KilledIsGone \/ UNCHANGED vars
    BY <2>1, <2>9 DEF RequestOther, Restart, HelperStart, CliBegin, CliCrash, EngineExits,
       KilledIsGone, vars, leases
  <2>10. ASSUME NEW c \in Conns, Release(c) PROVE Holders' # {} \/ Waits'
    <3>1. CASE Holders = {c}
      BY <1>0, <2>10, <3>1 DEF Release, Shapes
    <3>2. CASE Holders # {c}
      <4>1. PICK d \in Holders : d # c
        BY <2>10, <3>2 DEF Release, Holders
      <4> QED  BY <1>0, <2>10, <3>2, <4>1 DEF Release, Holders, Shapes
    <3> QED  BY <3>1, <3>2
  <2>11. ASSUME NEW c \in Conns, RetryRelease(c) PROVE Holders' # {} \/ Waits'
    <3>1. CASE Holders # {}
      BY <1>0, <2>11, <3>1 DEF RetryRelease, Holders, Shapes
    <3>2. CASE Holders = {}
      BY <2>1, <2>11, <3>2 DEF RetryRelease, leases
    <3> QED  BY <3>1, <3>2
  <2>12. CASE HelperCrash
    BY <2>12 DEF HelperCrash, Fault, Faulty
  <2>13. CASE Reboot
    BY <2>13 DEF Reboot, Prepared
  <2> QED
    BY <2>4, <2>5, <2>6, <2>7, <2>8, <2>9, <2>10, <2>11, <2>12, <2>13 DEF Next, Actors
<1> QED  BY <1>1, <1>2, EngineStep DEF Awaited

LEMMA AwaitedAlways == Spec => []Awaited
<1>1. ASSUME IInv, Awaited, [Next]_vars PROVE Awaited'
  <2>1. Budget' /\ Parties' /\ Resting'
    BY <1>1, BudgetStep, PartiesStep, RestingStep DEF Awaited
  <2>2. Identified' /\ Paid' /\ Expected'
    BY <1>1, <2>1, IdentifiedStep, PaidStep, ExpectedStep DEF Awaited
  <2> QED  BY <2>1, <2>2 DEF Awaited
<1> QED  BY <1>1, AwaitedInit, Invariance, PTL DEF Spec

\* A prepared engine is always accounted for, by a record for the next helper
\* and by a lease or a release that is tried again for this one, as long as
\* fewer things have failed than a release is tried (helperPolicyLeases.release
\* gives up after 120 attempts).
THEOREM EngineIsAccountedAlways ==
    Spec => [](MaxFaults - left < MaxTries => EngineIsAccounted)
<1>1. IInv /\ Awaited => (MaxFaults - left < MaxTries => EngineIsAccounted)
  BY DEF IInv, World, Awaited, Expected, Few, EngineIsAccounted, EngineIsWanted
<1> QED  BY <1>1, Invariance, AwaitedAlways, PTL

-----------------------------------------------------------------------------
(***************************************************************************)
(* Documents and what is composed from them.                               *)
(***************************************************************************)
LEMMA ResolversOfSet == ASSUME NEW n, IsNet(n) PROVE Resolvers(n) \in Seq({t \in Target : t.host = "ext"})
<1> DEFINE S == {t \in n.captured : t.host \notin {"loop", "lan", "tun"}}
<1>1. IsFiniteSet(S) /\ S \subseteq {t \in Target : t.host = "ext"}
  BY FS_Subset DEF IsNet
<1>2. Cardinality(S) \in Nat
  BY <1>1, FS_CardinalityType
<1>3. \E f \in [1..Cardinality(S) -> S] : IsInjective(f)
  BY <1>1, FS_CardinalityType DEF ExistsBijection, Bijection, Injection
<1>4. SetToSeq(S) \in [1..Cardinality(S) -> S]
  BY <1>3 DEF SetToSeq
<1>5. SetToSeq(S) \in Seq({t \in Target : t.host = "ext"})
  <2> HIDE DEF S
  <2> QED BY <1>1, <1>2, <1>4
<1> QED BY <1>5 DEF Resolvers

LEMMA FieldUpdated ==
  ASSUME NEW dns, dns \in Fields(dns), NEW a
  PROVE  /\ [dns EXCEPT !.res = a] =
               [res |-> a, respect |-> dns.respect, mode |-> dns.mode,
                filter |-> dns.filter, useHosts |-> dns.useHosts, hosts |-> dns.hosts]
         /\ [dns EXCEPT !.res = a] \in Fields([dns EXCEPT !.res = a])
<1>1. [dns EXCEPT !.res = a] = [res |-> a, respect |-> dns.respect, mode |-> dns.mode,
          filter |-> dns.filter, useHosts |-> dns.useHosts, hosts |-> dns.hosts]
  BY DEF Fields
<1>2. [dns EXCEPT !.res = a] \in Fields([dns EXCEPT !.res = a])
  BY <1>1 DEF Fields
<1> QED BY <1>1, <1>2

\* The update of a coordination.
LEMMA FieldsUpdated ==
  ASSUME NEW dns, dns \in Fields(dns), NEW a, NEW b
  PROVE  [dns EXCEPT !.res = a, !.filter = b] =
               [res |-> a, respect |-> dns.respect, mode |-> dns.mode,
                filter |-> b, useHosts |-> dns.useHosts, hosts |-> dns.hosts]
<1> DEFINE e == [dns EXCEPT !.res = a]
<1>1. e \in Fields(e)
  BY FieldUpdated
<1>2. e = [res |-> a, respect |-> dns.respect, mode |-> dns.mode,
           filter |-> dns.filter, useHosts |-> dns.useHosts, hosts |-> dns.hosts]
  BY FieldUpdated
<1>3. [e EXCEPT !.filter = b] = [res |-> e.res, respect |-> e.respect, mode |-> e.mode,
                filter |-> b, useHosts |-> e.useHosts, hosts |-> e.hosts]
  <2> HIDE DEF e
  <2> QED BY <1>1 DEF Fields
<1>4. /\ e.res = a /\ e.respect = dns.respect /\ e.mode = dns.mode
      /\ e.useHosts = dns.useHosts /\ e.hosts = dns.hosts
  BY <1>2
<1>5. [dns EXCEPT !.res = a, !.filter = b] = [e EXCEPT !.filter = b]
  BY Zenon
<1> QED BY <1>3, <1>4, <1>5, Zenon

LEMMA LiteralIsDns ==
  ASSUME NEW r, IsResolvers(r), NEW a \in Texts, NEW m, NEW f, NEW u \in BOOLEAN, NEW h, NEW d,
         d = [res |-> r, respect |-> a, mode |-> m, filter |-> f, useHosts |-> u, hosts |-> h]
  PROVE  IsDns(d)
BY DEF IsDns, Fields

LEMMA RetainedIsDns == ASSUME NEW dns, IsDns(dns) PROVE IsDns(Retained(dns, Default))
<1> DEFINE res == IF <<"ns">> \in DOMAIN dns.res THEN dns.res
                  ELSE Before([f \in {<<"ns">>} |-> <<Default>>], dns.res)
<1>1. IsResolvers(res)
  <2>1. DOMAIN Probe("formal") \cup DOMAIN Probe("own-probe") \subseteq
           {<<"pol", [kind |-> "exact", labels |-> <<"formal", "invalid">>]>>,
            <<"pol", [kind |-> "exact", labels |-> <<"own-probe", "invalid">>]>>}
    BY DEF Probe
  <2>2. <<"ns">> \notin DOMAIN Probe("formal") \cup DOMAIN Probe("own-probe")
    BY <2>1
  <2>3. <<Default>> \in Seq(Target)
    BY PipelineAssumption
  <2> QED BY <2>2, <2>3 DEF IsDns, IsResolvers, Before
<1>2. Retained(dns, Default) = [dns EXCEPT !.res = res]
  BY Zenon DEF Retained
<1> HIDE DEF res
<1>3. [dns EXCEPT !.res = res] = [res |-> res, respect |-> dns.respect, mode |-> dns.mode,
               filter |-> dns.filter, useHosts |-> dns.useHosts, hosts |-> dns.hosts]
  BY FieldUpdated DEF IsDns
<1> QED BY <1>1, <1>2, <1>3, LiteralIsDns DEF IsDns

LEMMA OverlaidIsDns ==
  ASSUME NEW dns, IsDns(dns), NEW o, IsOverlay(o), OverlayDnsFits(dns, o.dns)
  PROVE  IsDns(OverlaidDns(dns, o.dns))
<1> DEFINE merged == Before(o.dns.res, dns.res)
           add == o.dns.append
           res == [f \in DOMAIN merged \cup DOMAIN add |->
                     IF f \notin DOMAIN add THEN merged[f]
                     ELSE IF f \notin DOMAIN merged THEN add[f] ELSE merged[f] \o add[f]]
           old == IF o.dns.filter = <<>> THEN dns.filter ELSE o.dns.filter[1]
           filter == IF o.dns.more = <<>> THEN old ELSE old \o o.dns.more
           use == IF o.dns.useHosts = "" THEN dns.useHosts ELSE o.dns.useHosts = "true"
           by == Said(o.dns.respect, dns.respect)
<1>1. IsResolvers(merged)
  BY DEF IsDns, IsOverlay, IsResolvers, Before
<1>2. \A f \in DOMAIN add : f \in DOMAIN merged => Listed(merged[f])
  BY DEF OverlayDnsFits
<1>3. OverlaidDns(dns, o.dns) =
         [hosts |-> dns.hosts, respect |-> by, mode |-> Said(o.dns.mode, dns.mode),
          useHosts |-> use, filter |-> filter, res |-> res]
  BY Zenon DEF OverlaidDns
<1>4. /\ IsResolvers(add) /\ \A f \in DOMAIN add : add[f] \in Seq(Target)
      /\ o.dns.respect \in {"", "false", "true"}
  BY DEF IsOverlay
<1>5. by \in Texts
  BY <1>4 DEF Said, IsDns, Texts
<1>6. use \in BOOLEAN
  BY DEF IsDns
<1> HIDE DEF merged, add, filter, use, by
<1>7. \A f \in DOMAIN add : f \in DOMAIN merged => merged[f] \in Seq(Target)
  BY <1>1, <1>2 DEF IsResolvers, Listed
<1>8. \A f \in DOMAIN res : res[f] \in [{0} -> Target] \cup Seq(Target)
  <2> TAKE f \in DOMAIN res
  <2>1. CASE f \notin DOMAIN add
    BY <1>1, <2>1 DEF IsResolvers
  <2>2. CASE f \in DOMAIN add /\ f \notin DOMAIN merged
    BY <1>4, <2>2
  <2>3. CASE f \in DOMAIN add /\ f \in DOMAIN merged
    <3>1. merged[f] \in Seq(Target) /\ add[f] \in Seq(Target)
      BY <1>4, <1>7, <2>3
    <3>2. merged[f] \o add[f] \in Seq(Target)
      BY <3>1, ConcatProperties
    <3> QED BY <2>3, <3>2
  <2> QED BY <2>1, <2>2, <2>3
<1>9. \A f \in DOMAIN res : f \in DOMAIN merged \/ f \in DOMAIN add
  OBVIOUS
<1> HIDE DEF res
<1>10. IsResolvers(res)
  BY <1>1, <1>4, <1>8, <1>9 DEF IsResolvers
<1> QED BY <1>3, <1>5, <1>6, <1>10, LiteralIsDns

LEMMA MergedIsDns == ASSUME NEW dns, IsDns(dns), NEW c, IsDraft(c) PROVE IsDns(CustomMerged(dns, c))
<1> DEFINE res == Before(c.res, dns.res)
           use == IF c.hosts # <<>> THEN TRUE
                  ELSE IF c.useHosts = "" THEN dns.useHosts ELSE c.useHosts = "true"
<1>1. IsResolvers(res)
  BY DEF IsDns, IsDraft, IsResolvers, Before
<1>2. use \in BOOLEAN
  BY DEF IsDns
<1>3. CustomMerged(dns, c) = [res |-> res, respect |-> Said(c.respect, dns.respect), mode |-> NextMode(dns, c),
          filter |-> IF c.filter = <<>> THEN dns.filter ELSE MergedFilter(dns, c),
          useHosts |-> use, hosts |-> Before(c.hosts, dns.hosts)]
  BY DEF CustomMerged
<1>4. Said(c.respect, dns.respect) \in Texts
  BY DEF Said, IsDraft, IsDns, Texts
<1> HIDE DEF res, use
<1> QED BY <1>1, <1>2, <1>3, <1>4, LiteralIsDns, SMTT(30)

LEMMA CoordinatedIsDns == ASSUME NEW dns, IsDns(dns), NEW n, IsNet(n) PROVE IsDns(Coordinated(n, dns))
<1> DEFINE own == [f \in {<<"pol", d>> : d \in PrivateDomains(n)} |-> Resolvers(n)]
           res == Before(dns.res, own)
           filter == PrivateFilter(n, dns) \o dns.filter
<1>1. IsResolvers(own)
  <2>1. ASSUME NEW d \in PrivateDomains(n) PROVE <<"pol", d>> \notin DOMAIN Probe("formal") \cup DOMAIN Probe("own-probe")
    BY DEF PrivateDomains, Probe
  <2>2. Resolvers(n) \in Seq(Target)
    <3>1. Resolvers(n) \in Seq({t \in Target : t.host = "ext"})
      BY ResolversOfSet
    <3> QED BY <3>1
  <2> QED BY <2>1, <2>2 DEF IsResolvers
<1>2. IsResolvers(res)
  BY <1>1 DEF IsDns, IsResolvers, Before
<1>3. CASE ~Uncoordinated(n)
  <2>1. Coordinated(n, dns) = [dns EXCEPT !.res = res, !.filter = filter]
    BY <1>3, Zenon DEF Coordinated
  <2> HIDE DEF res, filter
  <2>2. [dns EXCEPT !.res = res, !.filter = filter] =
               [res |-> res, respect |-> dns.respect, mode |-> dns.mode,
                filter |-> filter, useHosts |-> dns.useHosts, hosts |-> dns.hosts]
    BY FieldsUpdated DEF IsDns
  <2> QED BY <1>2, <2>1, <2>2, LiteralIsDns DEF IsDns
<1>4. CASE Uncoordinated(n)
  BY <1>4 DEF Coordinated
<1> QED BY <1>3, <1>4

\* A profile with DNS fields that are ones.
IsProfile(p) ==
    /\ p = [proxies |-> p.proxies, groups |-> p.groups, providers |-> p.providers, sets |-> p.sets,
            rules |-> p.rules, dns |-> p.dns, meta |-> p.meta]
    /\ p.meta = [stored |-> p.meta.stored, enabled |-> p.meta.enabled, listen |-> p.meta.listen,
                 services |-> p.meta.services, origins |-> p.meta.origins]
    /\ IsDns(p.dns)

LEMMA ReadIsProfile == ASSUME NEW in \in Inputs PROVE IsProfile(Read(in.raw))
BY PipelineAssumption, RetainedIsDns DEF Read, IsProfile, CapturedSource, IsSource

LEMMA OverlaidIsProfile ==
  ASSUME NEW p, IsProfile(p), NEW o, IsOverlay(o), o.enabled => OverlayDnsFits(p.dns, o.dns)
  PROVE  IsProfile(WithOverlay(p, o))
<1>1. o.enabled => IsDns(OverlaidDns(p.dns, o.dns))
  BY OverlaidIsDns DEF IsProfile
<1> QED BY <1>1 DEF IsProfile, WithOverlay, Layered, Overlaid

LEMMA DraftedIsProfile ==
  ASSUME NEW p, IsProfile(p), NEW c, IsDraft(c) PROVE IsProfile(WithCustom(p, c))
<1>1. IsDns(CustomMerged(p.dns, c))
  BY MergedIsDns DEF IsProfile
<1> QED BY <1>1 DEF IsProfile, WithCustom, Layered

(***************************************************************************)
(* Slots and their targets.                                                *)
(***************************************************************************)
LEMMA SlotIsPair ==
  ASSUME NEW d, NEW x
  PROVE  /\ x \in Slots(d) <=> \E f \in DOMAIN d.res : \E i \in DOMAIN d.res[f] : x = <<f, i>>
         /\ x \in Slots(d) => /\ x = <<x[1], x[2]>> /\ x[1] \in DOMAIN d.res
                              /\ x[2] \in DOMAIN d.res[x[1]]
BY DEF Slots

LEMMA SlotsByLists ==
  ASSUME NEW d, NEW e, d.res = e.res
  PROVE  Slots(d) = Slots(e) /\ \A x \in Slots(d) : TargetAt(d, x) = TargetAt(e, x)
BY DEF Slots, TargetAt

\* What the document says goes first, and the rest is left.
LEMMA SlotsBefore ==
  ASSUME NEW d, NEW r, NEW s, d.res = Before(r, s), NEW x
  PROVE  /\ x \in Slots(d) => /\ x = <<x[1], x[2]>>
                              /\ \/ /\ x[1] \in DOMAIN r /\ x[2] \in DOMAIN r[x[1]]
                                    /\ TargetAt(d, x) = r[x[1]][x[2]]
                                 \/ /\ x[1] \in DOMAIN s \ DOMAIN r /\ x[2] \in DOMAIN s[x[1]]
                                    /\ TargetAt(d, x) = s[x[1]][x[2]]
         /\ \A f \in DOMAIN r : \A i \in DOMAIN r[f] :
                <<f, i>> \in Slots(d) /\ TargetAt(d, <<f, i>>) = r[f][i]
         /\ \A f \in DOMAIN s \ DOMAIN r : \A i \in DOMAIN s[f] :
                <<f, i>> \in Slots(d) /\ TargetAt(d, <<f, i>>) = s[f][i]
BY SlotIsPair DEF Before, TargetAt

LEMMA TargetOfSlot ==
  ASSUME NEW d, IsResolvers(d.res), NEW x \in Slots(d)
  PROVE  TargetAt(d, x) \in Target
BY SlotIsPair DEF IsResolvers, TargetAt

LEMMA ReboundSlots ==
  ASSUME NEW d, d \in Fields(d), NEW S, NEW e
  PROVE  /\ Slots(Rebound(d, S, e)) = Slots(d)
         /\ \A x \in Slots(d) :
                TargetAt(Rebound(d, S, e), x) = IF x \in S THEN e ELSE TargetAt(d, x)
         /\ DOMAIN Rebound(d, S, e).res = DOMAIN d.res
         /\ Rebound(d, S, e) = [res |-> Rebound(d, S, e).res, respect |-> d.respect,
                mode |-> d.mode, filter |-> d.filter, useHosts |-> d.useHosts, hosts |-> d.hosts]
<1> DEFINE res == [f \in DOMAIN d.res |-> [i \in DOMAIN d.res[f] |->
                      IF <<f, i>> \in S THEN e ELSE d.res[f][i]]]
           b == Rebound(d, S, e)
<1>1. b = [d EXCEPT !.res = res]
  BY Zenon DEF Rebound
<1>2. b = [res |-> res, respect |-> d.respect, mode |-> d.mode, filter |-> d.filter,
           useHosts |-> d.useHosts, hosts |-> d.hosts]
  <2> HIDE DEF res, b
  <2> QED BY <1>1, FieldUpdated
<1>3. b.res = res
  <2> HIDE DEF res, b
  <2> QED BY <1>2
<1>4. Slots(b) = Slots(d)
  <2> HIDE DEF b
  <2> QED BY <1>3 DEF Slots
<1>5. \A x \in Slots(d) : TargetAt(b, x) = IF x \in S THEN e ELSE TargetAt(d, x)
  <2> HIDE DEF b
  <2> QED BY <1>3, SlotIsPair DEF TargetAt
<1>6. DOMAIN b.res = DOMAIN d.res
  <2> HIDE DEF b
  <2> QED BY <1>3
<1>7. b = [res |-> b.res, respect |-> d.respect, mode |-> d.mode, filter |-> d.filter,
           useHosts |-> d.useHosts, hosts |-> d.hosts]
  <2> HIDE DEF b, res
  <2> QED BY <1>2, <1>3
<1> QED BY <1>4, <1>5, <1>6, <1>7, Zenon

\* The slot of a probe, which is no resolver's, and what it answers with.
Rcode == [host |-> "rcode", port |-> "", scheme |-> "", via |-> "none"]
ProbeSlots(name) == {<<f, 1>> : f \in DOMAIN Probe(name)}

LEMMA WithProbeSlots ==
  ASSUME NEW d, d \in Fields(d), NEW name, DOMAIN Probe(name) \cap DOMAIN d.res = {}
  PROVE  /\ Slots(WithProbe(d, name)) = Slots(d) \cup ProbeSlots(name)
         /\ Slots(d) \cap ProbeSlots(name) = {}
         /\ \A x \in Slots(d) : TargetAt(WithProbe(d, name), x) = TargetAt(d, x)
         /\ \A x \in ProbeSlots(name) : TargetAt(WithProbe(d, name), x) = Rcode
         /\ WithProbe(d, name) = [res |-> Before(Probe(name), d.res), respect |-> d.respect,
                mode |-> d.mode, filter |-> d.filter, useHosts |-> d.useHosts, hosts |-> d.hosts]
<1> DEFINE w == WithProbe(d, name)
           res == Before(Probe(name), d.res)
<1>1. w = [d EXCEPT !.res = res]
  BY Zenon DEF WithProbe
<1>2. w = [res |-> res, respect |-> d.respect, mode |-> d.mode, filter |-> d.filter,
           useHosts |-> d.useHosts, hosts |-> d.hosts]
  <2> HIDE DEF res, w
  <2> QED BY <1>1, FieldUpdated
<1>3. w.res = res
  <2> HIDE DEF res, w
  <2> QED BY <1>2
<1>4. \A f \in DOMAIN Probe(name) : Probe(name)[f] = <<Rcode>>
  BY DEF Probe, Rcode
<1>5. \A x : x \in Slots(w) => x \in Slots(d) \/ x \in ProbeSlots(name)
  <2> HIDE DEF w
  <2> QED BY <1>3, <1>4, SlotsBefore, SlotIsPair DEF ProbeSlots
<1>6. /\ \A x \in Slots(d) : x \in Slots(w) /\ TargetAt(w, x) = TargetAt(d, x)
      /\ \A x \in ProbeSlots(name) : x \in Slots(w) /\ TargetAt(w, x) = Rcode
  <2> HIDE DEF w
  <2>1. ASSUME NEW x \in Slots(d) PROVE x \in Slots(w) /\ TargetAt(w, x) = TargetAt(d, x)
    <3>1. x = <<x[1], x[2]>> /\ x[1] \in DOMAIN d.res \ DOMAIN Probe(name) /\ x[2] \in DOMAIN d.res[x[1]]
      BY SlotIsPair
    <3>2. <<x[1], x[2]>> \in Slots(w) /\ TargetAt(w, <<x[1], x[2]>>) = d.res[x[1]][x[2]]
      BY <1>3, <3>1, SlotsBefore
    <3> QED BY <3>1, <3>2, Zenon DEF TargetAt
  <2>2. ASSUME NEW x \in ProbeSlots(name) PROVE x \in Slots(w) /\ TargetAt(w, x) = Rcode
    <3>1. PICK f \in DOMAIN Probe(name) : x = <<f, 1>>
      BY DEF ProbeSlots
    <3> QED BY <1>3, <1>4, <3>1, SlotsBefore
  <2> QED BY <2>1, <2>2
<1>7. Slots(d) \cap ProbeSlots(name) = {}
  BY SlotIsPair DEF ProbeSlots
<1> QED BY <1>2, <1>5, <1>6, <1>7

LEMMA WithoutProbeSlots ==
  ASSUME NEW d, d \in Fields(d), NEW name
  PROVE  /\ Slots(WithoutProbe(d, name)) = Slots(d) \ {x \in Slots(d) : x[1] \in DOMAIN Probe(name)}
         /\ \A x \in Slots(WithoutProbe(d, name)) : TargetAt(WithoutProbe(d, name), x) = TargetAt(d, x)
         /\ DOMAIN WithoutProbe(d, name).res = DOMAIN d.res \ DOMAIN Probe(name)
         /\ WithoutProbe(d, name) = [res |-> WithoutProbe(d, name).res, respect |-> d.respect,
                mode |-> d.mode, filter |-> d.filter, useHosts |-> d.useHosts, hosts |-> d.hosts]
<1> DEFINE res == [f \in DOMAIN d.res \ DOMAIN Probe(name) |-> d.res[f]]
           w == WithoutProbe(d, name)
<1>1. w = [d EXCEPT !.res = res]
  BY Zenon DEF WithoutProbe
<1>2. w = [res |-> res, respect |-> d.respect, mode |-> d.mode, filter |-> d.filter,
           useHosts |-> d.useHosts, hosts |-> d.hosts]
  <2> HIDE DEF res, w
  <2> QED BY <1>1, FieldUpdated
<1>3. w.res = res
  <2> HIDE DEF res, w
  <2> QED BY <1>2
<1> HIDE DEF w
<1>4. \A x : x \in Slots(w) <=> x \in Slots(d) /\ x[1] \notin DOMAIN Probe(name)
  BY <1>3, SlotIsPair
<1>5. \A x \in Slots(w) : TargetAt(w, x) = TargetAt(d, x)
  BY <1>3, SlotIsPair DEF TargetAt
<1>6. DOMAIN w.res = DOMAIN d.res \ DOMAIN Probe(name)
  BY <1>3
<1> QED BY <1>2, <1>3, <1>4, <1>5, <1>6 DEF w

(***************************************************************************)
(* What an engine runs: its slots are those of the coordinated DNS and at   *)
(* most one of a probe, references to itself are at its own endpoint, and   *)
(* all others are where the coordinated DNS has them.                       *)
(***************************************************************************)
Runnable(n, s) == IsNet(n) /\ IsProfile(s.profile) /\ Renderable(n, s)

Dns(n, s)  == Coordinated(n, s.profile.dns)
Self(n, s) == SelfSlots(Dns(n, s), s.profile.meta)

Copied(n, s) == [PreparedCopy(Rendered(n, s)) EXCEPT !.kind = "prepared"]

Serves(e, n, s, endpoint, name) ==
    LET base == Slots(Dns(n, s))
        self == Self(n, s)
        probe == IF self = {} THEN {} ELSE ProbeSlots(name)
    IN  /\ Slots(e.dns) = base \cup probe /\ base \cap probe = {}
        /\ \A x \in base : TargetAt(e.dns, x) = IF x \in self THEN endpoint
                                               ELSE TargetAt(Dns(n, s), x)
        /\ \A x \in probe : TargetAt(e.dns, x) = Rcode
        /\ e.dns.respect = Dns(n, s).respect /\ e.dns.mode = Dns(n, s).mode
        /\ e.dns.hosts = Dns(n, s).hosts
        /\ e.dns.useHosts = Dns(n, s).useHosts /\ e.dns.filter = Dns(n, s).filter
        /\ e.self = self /\ e.from = s /\ e.under = n /\ e.rules = s.profile.rules
        /\ e.origins = Rendered(n, s).origins

LEMMA DnsOfRun ==
  ASSUME NEW n, NEW s, Runnable(n, s)
  PROVE  IsDns(Dns(n, s)) /\ Dns(n, s) \in Fields(Dns(n, s))
BY CoordinatedIsDns DEF Runnable, IsProfile, Dns, IsDns

LEMMA NoProbeAmongLists ==
  ASSUME NEW d, IsResolvers(d.res), NEW name \in {"formal", "own-probe"}
  PROVE  /\ DOMAIN Probe(name) \cap DOMAIN d.res = {}
         /\ \A x \in Slots(d) : x[1] \notin DOMAIN Probe(name)
         /\ \A x \in ProbeSlots(name) : x[1] \in DOMAIN Probe(name)
BY SlotIsPair DEF IsResolvers, ProbeSlots

LEMMA RenderedFields ==
  ASSUME NEW n, NEW s
  PROVE  LET e == Rendered(n, s)
         IN  /\ e = [kind |-> "gateway", listen |-> "gateway", rules |-> s.profile.rules,
                     self |-> Self(n, s), dns |-> e.dns, origins |-> e.origins,
                     from |-> s, under |-> n]
             /\ e.dns = IF Self(n, s) = {} THEN Bound(Dns(n, s), s.profile.meta)
                        ELSE WithProbe(Bound(Dns(n, s), s.profile.meta), "formal")
BY DEF Rendered, Dns, Self

LEMMA BoundServes ==
  ASSUME NEW n, NEW s, Runnable(n, s)
  PROVE  LET b == Bound(Dns(n, s), s.profile.meta)
         IN  /\ b \in Fields(b) /\ Slots(b) = Slots(Dns(n, s))
             /\ DOMAIN b.res = DOMAIN Dns(n, s).res
             /\ \A x \in Slots(b) : TargetAt(b, x) = IF x \in Self(n, s) THEN Engine
                                                     ELSE TargetAt(Dns(n, s), x)
             /\ b.respect = Dns(n, s).respect /\ b.mode = Dns(n, s).mode /\ b.hosts = Dns(n, s).hosts
             /\ b.useHosts = Dns(n, s).useHosts /\ b.filter = Dns(n, s).filter
<1> DEFINE d == Dns(n, s)
           b == Rebound(d, Self(n, s), Engine)
<1>1. Bound(Dns(n, s), s.profile.meta) = b
  BY Zenon DEF Bound, Self
<1>2. d \in Fields(d)
  BY DnsOfRun
<1> HIDE DEF d
<1>3. b = [res |-> b.res, respect |-> d.respect, mode |-> d.mode, filter |-> d.filter,
           useHosts |-> d.useHosts, hosts |-> d.hosts]
  BY <1>2, ReboundSlots, Zenon
<1>4. Slots(b) = Slots(d) /\ \A x \in Slots(d) : TargetAt(b, x) = IF x \in Self(n, s) THEN Engine
                                                     ELSE TargetAt(d, x)
  BY <1>2, ReboundSlots
<1>5. DOMAIN b.res = DOMAIN d.res
  BY <1>2, ReboundSlots, Zenon
<1> HIDE DEF b
<1>6. b \in Fields(b) /\ b.respect = d.respect /\ b.mode = d.mode /\ b.hosts = d.hosts
      /\ b.useHosts = d.useHosts /\ b.filter = d.filter
  BY <1>3 DEF Fields
<1> QED BY <1>1, <1>4, <1>5, <1>6 DEF d

LEMMA RenderedServes ==
  ASSUME NEW n, NEW s, Runnable(n, s)
  PROVE  LET e == Rendered(n, s)
         IN  Serves(e, n, s, Engine, "formal") /\ e.kind = "gateway" /\ e.dns \in Fields(e.dns)
<1> DEFINE e == Rendered(n, s)
           b == Bound(Dns(n, s), s.profile.meta)
           d == Dns(n, s)
<1>1. e = [kind |-> "gateway", listen |-> "gateway", rules |-> s.profile.rules,
           self |-> Self(n, s), dns |-> e.dns, origins |-> e.origins, from |-> s, under |-> n]
  BY RenderedFields, Zenon
<1>2. e.dns = IF Self(n, s) = {} THEN b ELSE WithProbe(b, "formal")
  BY RenderedFields, Zenon
<1>3. /\ b \in Fields(b) /\ Slots(b) = Slots(d) /\ DOMAIN b.res = DOMAIN d.res
      /\ \A x \in Slots(b) : TargetAt(b, x) = IF x \in Self(n, s) THEN Engine ELSE TargetAt(d, x)
      /\ b.respect = d.respect /\ b.mode = d.mode /\ b.hosts = d.hosts
      /\ b.useHosts = d.useHosts /\ b.filter = d.filter
  BY BoundServes, Zenon
<1>4. IsResolvers(d.res)
  BY DnsOfRun DEF IsDns
<1>5. DOMAIN Probe("formal") \cap DOMAIN b.res = {}
  BY <1>3, <1>4, NoProbeAmongLists
<1> HIDE DEF e, b, d
<1>6. /\ e.kind = "gateway" /\ e.self = Self(n, s) /\ e.from = s /\ e.under = n
      /\ e.rules = s.profile.rules
  BY <1>1
<1>7. CASE Self(n, s) = {}
  BY <1>2, <1>3, <1>6, <1>7 DEF Serves, d, e
<1>8. CASE Self(n, s) # {}
  <2> DEFINE w == WithProbe(b, "formal")
  <2>1. /\ Slots(w) = Slots(b) \cup ProbeSlots("formal")
        /\ Slots(b) \cap ProbeSlots("formal") = {}
        /\ \A x \in Slots(b) : TargetAt(w, x) = TargetAt(b, x)
        /\ \A x \in ProbeSlots("formal") : TargetAt(w, x) = Rcode
    BY <1>3, <1>5, WithProbeSlots, Zenon
  <2>2. w = [res |-> Before(Probe("formal"), b.res), respect |-> b.respect,
             mode |-> b.mode, filter |-> b.filter, useHosts |-> b.useHosts, hosts |-> b.hosts]
    BY <1>3, <1>5, WithProbeSlots, Zenon
  <2> HIDE DEF w
  <2>3. /\ w \in Fields(w) /\ w.respect = b.respect /\ w.mode = b.mode /\ w.hosts = b.hosts
        /\ w.useHosts = b.useHosts /\ w.filter = b.filter
    BY <2>2 DEF Fields
  <2>4. e.dns = w
    BY <1>2, <1>8 DEF w
  <2>5. ASSUME NEW x \in Slots(d)
        PROVE  TargetAt(w, x) = IF x \in Self(n, s) THEN Engine ELSE TargetAt(d, x)
    BY <1>3, <2>1
  <2> QED BY <1>3, <1>6, <1>8, <2>1, <2>3, <2>4, <2>5 DEF Serves, d, e
<1> QED BY <1>7, <1>8 DEF e

\* The updates a prepared copy makes to what it copies.
LEMMA CopyFields ==
  ASSUME NEW e, e = [kind |-> e.kind, listen |-> e.listen, rules |-> e.rules, self |-> e.self,
                     dns |-> e.dns, origins |-> e.origins, from |-> e.from, under |-> e.under],
         NEW listen, NEW dns, NEW kind
  PROVE  /\ [e EXCEPT !.listen = listen] =
              [kind |-> e.kind, listen |-> listen, rules |-> e.rules, self |-> e.self,
               dns |-> e.dns, origins |-> e.origins, from |-> e.from, under |-> e.under]
         /\ [e EXCEPT !.dns = dns] =
              [kind |-> e.kind, listen |-> e.listen, rules |-> e.rules, self |-> e.self,
               dns |-> dns, origins |-> e.origins, from |-> e.from, under |-> e.under]
         /\ [e EXCEPT !.kind = kind] =
              [kind |-> kind, listen |-> e.listen, rules |-> e.rules, self |-> e.self,
               dns |-> e.dns, origins |-> e.origins, from |-> e.from, under |-> e.under]
<1>1. [e EXCEPT !.listen = listen] =
              [kind |-> e.kind, listen |-> listen, rules |-> e.rules, self |-> e.self,
               dns |-> e.dns, origins |-> e.origins, from |-> e.from, under |-> e.under]
  OBVIOUS
<1>2. [e EXCEPT !.dns = dns] =
              [kind |-> e.kind, listen |-> e.listen, rules |-> e.rules, self |-> e.self,
               dns |-> dns, origins |-> e.origins, from |-> e.from, under |-> e.under]
  OBVIOUS
<1>3. [e EXCEPT !.kind = kind] =
              [kind |-> kind, listen |-> e.listen, rules |-> e.rules, self |-> e.self,
               dns |-> e.dns, origins |-> e.origins, from |-> e.from, under |-> e.under]
  OBVIOUS
<1> QED BY <1>1, <1>2, <1>3

LEMMA CopyOfRendered ==
  ASSUME NEW n, NEW s
  PROVE  LET f == Rendered(n, s)
             moved == WithProbe(WithoutProbe(Rebound(f.dns, Self(n, s), Private), "formal"), "own-probe")
         IN  Copied(n, s) =
               [kind |-> "prepared", listen |-> IF Self(n, s) = {} THEN "none" ELSE "private",
                rules |-> s.profile.rules, self |-> Self(n, s),
                dns |-> IF Self(n, s) = {} THEN f.dns ELSE moved,
                origins |-> f.origins, from |-> s, under |-> n]
<1> DEFINE f == Rendered(n, s)
           moved == WithProbe(WithoutProbe(Rebound(f.dns, Self(n, s), Private), "formal"), "own-probe")
           shut == [f EXCEPT !.listen = "none"]
           own == [f EXCEPT !.listen = "private"]
           asked == [own EXCEPT !.dns = moved]
<1>1. f = [kind |-> "gateway", listen |-> "gateway", rules |-> s.profile.rules,
           self |-> Self(n, s), dns |-> f.dns, origins |-> f.origins, from |-> s, under |-> n]
  BY RenderedFields, Zenon
<1>2. PreparedCopy(f) = IF f.self = {} THEN shut ELSE [f EXCEPT !.listen = "private",
                           !.dns = WithProbe(WithoutProbe(Rebound(@, f.self, Private), "formal"), "own-probe")]
  BY Zenon DEF PreparedCopy
<1>3. Copied(n, s) = [PreparedCopy(f) EXCEPT !.kind = "prepared"]
  BY Zenon DEF Copied
<1> HIDE DEF f
<1>4. /\ f.self = Self(n, s) /\ f.rules = s.profile.rules /\ f.from = s /\ f.under = n
      /\ f.kind = "gateway"
  BY <1>1
<1>5. f = [kind |-> f.kind, listen |-> f.listen, rules |-> f.rules, self |-> f.self,
           dns |-> f.dns, origins |-> f.origins, from |-> f.from, under |-> f.under]
  BY <1>1
<1>6. /\ shut = [kind |-> f.kind, listen |-> "none", rules |-> f.rules, self |-> f.self,
                 dns |-> f.dns, origins |-> f.origins, from |-> f.from, under |-> f.under]
      /\ own = [kind |-> f.kind, listen |-> "private", rules |-> f.rules, self |-> f.self,
                dns |-> f.dns, origins |-> f.origins, from |-> f.from, under |-> f.under]
  BY <1>5, CopyFields, Zenon
<1>7. [f EXCEPT !.listen = "private",
                !.dns = WithProbe(WithoutProbe(Rebound(@, f.self, Private), "formal"), "own-probe")] =
      [own EXCEPT !.dns = WithProbe(WithoutProbe(Rebound(@, f.self, Private), "formal"), "own-probe")]
  BY Zenon
<1>8. own.dns = f.dns
  <2> HIDE DEF own
  <2> QED BY <1>6
<1>9. [f EXCEPT !.listen = "private",
                !.dns = WithProbe(WithoutProbe(Rebound(@, f.self, Private), "formal"), "own-probe")] = asked
  BY <1>4, <1>7, <1>8, Zenon
<1>10. asked = [kind |-> f.kind, listen |-> "private", rules |-> f.rules, self |-> f.self,
                dns |-> moved, origins |-> f.origins, from |-> f.from, under |-> f.under]
  <2> HIDE DEF own, moved
  <2>1. own = [kind |-> own.kind, listen |-> own.listen, rules |-> own.rules, self |-> own.self,
               dns |-> own.dns, origins |-> own.origins, from |-> own.from, under |-> own.under]
    BY <1>6
  <2>2. asked = [kind |-> own.kind, listen |-> own.listen, rules |-> own.rules, self |-> own.self,
               dns |-> moved, origins |-> own.origins, from |-> own.from, under |-> own.under]
    BY <2>1, CopyFields, Zenon
  <2> QED BY <1>6, <2>2
<1> HIDE DEF shut, own, asked, moved
<1>11. CASE Self(n, s) = {}
  <2>1. Copied(n, s) = [shut EXCEPT !.kind = "prepared"]
    BY <1>2, <1>3, <1>4, <1>11, Zenon
  <2>2. shut = [kind |-> shut.kind, listen |-> shut.listen, rules |-> shut.rules, self |-> shut.self,
               dns |-> shut.dns, origins |-> shut.origins, from |-> shut.from, under |-> shut.under]
    BY <1>6
  <2>3. Copied(n, s) = [kind |-> "prepared", listen |-> shut.listen, rules |-> shut.rules, self |-> shut.self,
               dns |-> shut.dns, origins |-> shut.origins, from |-> shut.from, under |-> shut.under]
    BY <2>1, <2>2, CopyFields, Zenon
  <2> QED BY <1>4, <1>6, <1>11, <2>3 DEF f, moved
<1>12. CASE Self(n, s) # {}
  <2>1. Copied(n, s) = [asked EXCEPT !.kind = "prepared"]
    BY <1>2, <1>3, <1>4, <1>9, <1>12, Zenon
  <2>2. asked = [kind |-> asked.kind, listen |-> asked.listen, rules |-> asked.rules, self |-> asked.self,
               dns |-> asked.dns, origins |-> asked.origins, from |-> asked.from, under |-> asked.under]
    BY <1>10
  <2>3. Copied(n, s) = [kind |-> "prepared", listen |-> asked.listen, rules |-> asked.rules, self |-> asked.self,
               dns |-> asked.dns, origins |-> asked.origins, from |-> asked.from, under |-> asked.under]
    BY <2>1, <2>2, CopyFields, Zenon
  <2> QED BY <1>4, <1>10, <1>12, <2>3 DEF f, moved
<1> QED BY <1>11, <1>12

LEMMA MovedServes ==
  ASSUME NEW n, NEW s, Runnable(n, s), Self(n, s) # {}
  PROVE  LET d == Dns(n, s)
             w == WithProbe(WithoutProbe(Rebound(Rendered(n, s).dns, Self(n, s), Private), "formal"), "own-probe")
         IN  /\ Slots(w) = Slots(d) \cup ProbeSlots("own-probe")
             /\ Slots(d) \cap ProbeSlots("own-probe") = {}
             /\ \A x \in Slots(d) : TargetAt(w, x) = IF x \in Self(n, s) THEN Private ELSE TargetAt(d, x)
             /\ \A x \in ProbeSlots("own-probe") : TargetAt(w, x) = Rcode
             /\ w.respect = d.respect /\ w.mode = d.mode /\ w.hosts = d.hosts
             /\ w.useHosts = d.useHosts /\ w.filter = d.filter
<1> DEFINE d == Dns(n, s)
           self == Self(n, s)
           f == Rendered(n, s).dns
           r == Rebound(f, self, Private)
           v == WithoutProbe(r, "formal")
           w == WithProbe(v, "own-probe")
<1>1. /\ f \in Fields(f) /\ Slots(f) = Slots(d) \cup ProbeSlots("formal")
      /\ Slots(d) \cap ProbeSlots("formal") = {}
      /\ \A x \in Slots(d) : TargetAt(f, x) = IF x \in self THEN Engine ELSE TargetAt(d, x)
      /\ f.respect = d.respect /\ f.mode = d.mode /\ f.hosts = d.hosts
      /\ f.useHosts = d.useHosts /\ f.filter = d.filter
  BY RenderedServes DEF Serves
<1>2. DOMAIN f.res \subseteq DOMAIN Probe("formal") \cup DOMAIN d.res
  <2> DEFINE b == Bound(d, s.profile.meta)
  <2>1. f = WithProbe(b, "formal")
    BY RenderedFields
  <2>2. b \in Fields(b) /\ DOMAIN b.res = DOMAIN d.res
    BY BoundServes
  <2>3. WithProbe(b, "formal") = [b EXCEPT !.res = Before(Probe("formal"), @)]
    BY Zenon DEF WithProbe
  <2>4. WithProbe(b, "formal").res = Before(Probe("formal"), b.res)
    <3> HIDE DEF b
    <3> QED BY <2>2, <2>3 DEF Fields
  <2> HIDE DEF b, d, f
  <2> QED BY <2>1, <2>2, <2>4 DEF Before
<1>3. IsResolvers(d.res) /\ self \subseteq Slots(d)
  BY DnsOfRun DEF IsDns, Self, SelfSlots
<1> HIDE DEF d, self, f
<1>4. /\ r = [res |-> r.res, respect |-> f.respect, mode |-> f.mode, filter |-> f.filter,
              useHosts |-> f.useHosts, hosts |-> f.hosts]
      /\ Slots(r) = Slots(f) /\ DOMAIN r.res = DOMAIN f.res
  <2>1. f \in Fields(f)
    BY <1>1
  <2>2. r = [res |-> r.res, respect |-> f.respect, mode |-> f.mode, filter |-> f.filter,
             useHosts |-> f.useHosts, hosts |-> f.hosts]
    BY <2>1, ReboundSlots, Zenon
  <2>3. Slots(r) = Slots(f) /\ DOMAIN r.res = DOMAIN f.res
    BY <2>1, ReboundSlots, Zenon
  <2> QED BY <2>2, <2>3, Zenon
<1>5. \A x \in Slots(f) : TargetAt(r, x) = IF x \in self THEN Private ELSE TargetAt(f, x)
  BY <1>1, ReboundSlots
<1> HIDE DEF r
<1>6. /\ r \in Fields(r) /\ r.respect = d.respect /\ r.mode = d.mode /\ r.hosts = d.hosts
      /\ r.useHosts = d.useHosts /\ r.filter = d.filter
  BY <1>1, <1>4 DEF Fields
<1>7. /\ v = [res |-> v.res, respect |-> r.respect, mode |-> r.mode, filter |-> r.filter,
              useHosts |-> r.useHosts, hosts |-> r.hosts]
      /\ DOMAIN v.res = DOMAIN r.res \ DOMAIN Probe("formal")
      /\ Slots(v) = Slots(r) \ {x \in Slots(r) : x[1] \in DOMAIN Probe("formal")}
      /\ \A x \in Slots(v) : TargetAt(v, x) = TargetAt(r, x)
  BY <1>6, WithoutProbeSlots, Zenon
<1> HIDE DEF v
<1>8. /\ v \in Fields(v) /\ v.respect = d.respect /\ v.mode = d.mode /\ v.hosts = d.hosts
      /\ v.useHosts = d.useHosts /\ v.filter = d.filter
  BY <1>6, <1>7 DEF Fields
<1>9. /\ \A x \in Slots(d) : x[1] \notin DOMAIN Probe("formal")
      /\ \A x \in ProbeSlots("formal") : x[1] \in DOMAIN Probe("formal")
      /\ DOMAIN Probe("own-probe") \cap DOMAIN d.res = {}
  BY <1>3, NoProbeAmongLists
<1>10. Slots(v) = Slots(d)
  BY <1>1, <1>4, <1>7, <1>9
<1>11. \A x \in Slots(d) : TargetAt(v, x) = IF x \in self THEN Private ELSE TargetAt(d, x)
  BY <1>1, <1>4, <1>5, <1>7, <1>10
<1>12. DOMAIN Probe("own-probe") \cap DOMAIN v.res = {}
  BY <1>2, <1>4, <1>7, <1>9
<1>13. /\ Slots(w) = Slots(v) \cup ProbeSlots("own-probe")
       /\ Slots(v) \cap ProbeSlots("own-probe") = {}
       /\ \A x \in Slots(v) : TargetAt(w, x) = TargetAt(v, x)
       /\ \A x \in ProbeSlots("own-probe") : TargetAt(w, x) = Rcode
       /\ w = [res |-> Before(Probe("own-probe"), v.res), respect |-> v.respect,
               mode |-> v.mode, filter |-> v.filter, useHosts |-> v.useHosts, hosts |-> v.hosts]
  BY <1>8, <1>12, WithProbeSlots, Zenon
<1> HIDE DEF w
<1>14. w.respect = d.respect /\ w.mode = d.mode
       /\ w.hosts = d.hosts /\ w.useHosts = d.useHosts /\ w.filter = d.filter
  BY <1>8, <1>13
<1>15. \A x \in Slots(d) : TargetAt(w, x) = IF x \in self THEN Private ELSE TargetAt(d, x)
  BY <1>10, <1>11, <1>13
<1>16. /\ Slots(w) = Slots(d) \cup ProbeSlots("own-probe")
       /\ Slots(d) \cap ProbeSlots("own-probe") = {}
       /\ \A x \in ProbeSlots("own-probe") : TargetAt(w, x) = Rcode
  BY <1>10, <1>13
<1> QED BY <1>14, <1>15, <1>16, Zenon DEF w, v, r, f, self, d

LEMMA CopiedServes ==
  ASSUME NEW n, NEW s, Runnable(n, s)
  PROVE  LET e == Copied(n, s)
         IN  /\ Serves(e, n, s, Private, "own-probe") /\ e.kind = "prepared"
             /\ e.listen = IF Self(n, s) = {} THEN "none" ELSE "private"
<1> DEFINE e == Copied(n, s)
           f == Rendered(n, s)
           d == Dns(n, s)
           moved == WithProbe(WithoutProbe(Rebound(f.dns, Self(n, s), Private), "formal"), "own-probe")
<1>1. e = [kind |-> "prepared", listen |-> IF Self(n, s) = {} THEN "none" ELSE "private",
           rules |-> s.profile.rules, self |-> Self(n, s),
           dns |-> IF Self(n, s) = {} THEN f.dns ELSE moved,
           origins |-> f.origins, from |-> s, under |-> n]
  BY CopyOfRendered, Zenon
<1>2. Serves(f, n, s, Engine, "formal")
  BY RenderedServes
<1> HIDE DEF e, moved
<1>3. /\ e.kind = "prepared" /\ e.listen = (IF Self(n, s) = {} THEN "none" ELSE "private")
      /\ e.rules = s.profile.rules /\ e.self = Self(n, s) /\ e.from = s /\ e.under = n
      /\ e.origins = f.origins /\ e.dns = (IF Self(n, s) = {} THEN f.dns ELSE moved)
  BY <1>1
<1>4. CASE Self(n, s) = {}
  <2> HIDE DEF f
  <2> QED BY <1>2, <1>3, <1>4 DEF Serves, e, f
<1>5. CASE Self(n, s) # {}
  <2>1. /\ Slots(moved) = Slots(d) \cup ProbeSlots("own-probe")
        /\ Slots(d) \cap ProbeSlots("own-probe") = {}
        /\ \A x \in ProbeSlots("own-probe") : TargetAt(moved, x) = Rcode
        /\ moved.respect = d.respect /\ moved.mode = d.mode /\ moved.hosts = d.hosts
        /\ moved.useHosts = d.useHosts /\ moved.filter = d.filter
    BY <1>5, MovedServes, Zenon DEF moved
  <2>2. \A x \in Slots(d) : TargetAt(moved, x) = IF x \in Self(n, s) THEN Private ELSE TargetAt(d, x)
    BY <1>5, MovedServes DEF moved
  <2> HIDE DEF f
  <2> QED BY <1>3, <1>5, <2>1, <2>2 DEF Serves, e, f
<1> QED BY <1>4, <1>5

(***************************************************************************)
(* What binding refuses, and what it leaves.                               *)
(***************************************************************************)
Elsewhere(t) == ~(Local(t) /\ t.port = "own" /\ t.scheme = "plain")

LEMMA CoordinatedSlots ==
  ASSUME NEW n, IsNet(n), NEW d, IsDns(d)
  PROVE  /\ \A x \in Slots(Coordinated(n, d)) :
                \/ x \in Slots(d) /\ TargetAt(Coordinated(n, d), x) = TargetAt(d, x)
                \/ TargetAt(Coordinated(n, d), x) \in {t \in Target : t.host = "ext"}
         /\ \A x \in Slots(d) : /\ x \in Slots(Coordinated(n, d))
                                /\ TargetAt(Coordinated(n, d), x) = TargetAt(d, x)
         /\ Coordinated(n, d).hosts = d.hosts /\ Coordinated(n, d).useHosts = d.useHosts
         /\ Coordinated(n, d).respect = d.respect /\ Coordinated(n, d).mode = d.mode
<1> DEFINE own == [f \in {<<"pol", p>> : p \in PrivateDomains(n)} |-> Resolvers(n)]
           res == Before(d.res, own)
           filter == PrivateFilter(n, d) \o d.filter
           c == Coordinated(n, d)
<1>1. CASE ~Uncoordinated(n)
  <2>1. c = [d EXCEPT !.res = res, !.filter = filter]
    BY <1>1, Zenon DEF Coordinated
  <2> HIDE DEF res, filter, c
  <2>2. [d EXCEPT !.res = res, !.filter = filter] =
               [res |-> res, respect |-> d.respect, mode |-> d.mode,
                filter |-> filter, useHosts |-> d.useHosts, hosts |-> d.hosts]
    BY FieldsUpdated DEF IsDns
  <2>3. /\ c.res = res /\ c.hosts = d.hosts /\ c.useHosts = d.useHosts
        /\ c.respect = d.respect /\ c.mode = d.mode
    BY <2>1, <2>2
  <2>4. \A f \in DOMAIN own : \A i \in DOMAIN own[f] : own[f][i] \in {t \in Target : t.host = "ext"}
    <3>1. Resolvers(n) \in Seq({t \in Target : t.host = "ext"})
      BY ResolversOfSet
    <3> QED BY <3>1
  <2> HIDE DEF own
  <2>5. ASSUME NEW x \in Slots(c)
        PROVE  \/ x \in Slots(d) /\ TargetAt(c, x) = TargetAt(d, x)
               \/ TargetAt(c, x) \in {t \in Target : t.host = "ext"}
    <3>1. /\ x = <<x[1], x[2]>>
          /\ \/ /\ x[1] \in DOMAIN d.res /\ x[2] \in DOMAIN d.res[x[1]]
                /\ TargetAt(c, x) = d.res[x[1]][x[2]]
             \/ /\ x[1] \in DOMAIN own \ DOMAIN d.res /\ x[2] \in DOMAIN own[x[1]]
                /\ TargetAt(c, x) = own[x[1]][x[2]]
      BY <2>3, SlotsBefore DEF res
    <3> QED BY <2>4, <3>1, SlotIsPair DEF TargetAt
  <2>6. ASSUME NEW x \in Slots(d)
        PROVE  x \in Slots(c) /\ TargetAt(c, x) = TargetAt(d, x)
    <3>1. x = <<x[1], x[2]>> /\ x[1] \in DOMAIN d.res /\ x[2] \in DOMAIN d.res[x[1]]
      BY SlotIsPair
    <3>2. <<x[1], x[2]>> \in Slots(c) /\ TargetAt(c, <<x[1], x[2]>>) = d.res[x[1]][x[2]]
      BY <2>3, <3>1, SlotsBefore DEF res
    <3> QED BY <3>1, <3>2, Zenon DEF TargetAt
  <2> QED BY <2>3, <2>5, <2>6 DEF c
<1>2. CASE Uncoordinated(n)
  BY <1>2 DEF Coordinated
<1> QED BY <1>1, <1>2

LEMMA OthersLeaveHere ==
  ASSUME NEW n, NEW s, Runnable(n, s)
  PROVE  LET d == Dns(n, s)
         IN  /\ \A x \in Slots(d) \ Self(n, s) :
                   /\ TargetAt(d, x) \in Target /\ Elsewhere(TargetAt(d, x))
                   /\ n.managed => TargetAt(d, x).host # "system"
             /\ \A x \in Self(n, s) : Purpose(x) \in {"psn", "ppol"} /\ x \in Slots(d)
             /\ Self(n, s) # {} => /\ d.respect # "true"
                                   /\ \A x \in Slots(d) \ Self(n, s) : TargetAt(d, x).via # "proxy"
<1> DEFINE d == Dns(n, s)
           meta == s.profile.meta
<1>1. CanBind(d, meta) /\ CanCoordinate(n, s.profile.dns)
  BY DEF Runnable, Renderable, Dns
<1>2. \A x \in Slots(d) : TargetAt(d, x) \in Target
  BY DnsOfRun, TargetOfSlot DEF IsDns
<1>3. \A x \in Self(n, s) : x \in Slots(d) /\ IsSelf(meta, x, TargetAt(d, x))
  BY DEF Self, SelfSlots
<1>4. \A x \in Slots(d) \ Self(n, s) : ~IsSelf(meta, x, TargetAt(d, x))
  BY DEF Self, SelfSlots
<1>5. \A x \in Slots(d) : n.managed => TargetAt(d, x).host # "system"
  BY <1>1, CoordinatedSlots DEF CanCoordinate, Dns, Runnable, IsProfile
<1>6. \A x \in Self(n, s) : Simple(TargetAt(d, x)) /\ Purpose(x) \in {"psn", "ppol"} /\ d.respect # "true"
  BY <1>1, <1>3 DEF CanBind, Bindable
<1>7. \A x \in Slots(d) \ Self(n, s) : Elsewhere(TargetAt(d, x))
  BY <1>1, <1>4 DEF CanBind, Bindable, Elsewhere
<1>8. Self(n, s) # {} => \A x \in Slots(d) \ Self(n, s) : TargetAt(d, x).via # "proxy"
  BY <1>1 DEF CanBind, Self
<1> HIDE DEF d
<1> QED BY <1>2, <1>3, <1>5, <1>6, <1>7, <1>8 DEF d

(***************************************************************************)
(* Self references are bound to the engine that runs, and nothing else is.  *)
(***************************************************************************)
\* The endpoint an engine is asked at.
EndpointOf(e) == IF e.kind = "gateway" THEN Engine ELSE Private

Engines(n, s) == {Rendered(n, s), Copied(n, s)}

LEMMA EnginesServe ==
  ASSUME NEW n, NEW s, Runnable(n, s), NEW e \in Engines(n, s)
  PROVE  /\ e.kind \in {"gateway", "prepared"}
         /\ \E name \in {"formal", "own-probe"} : Serves(e, n, s, EndpointOf(e), name)
BY RenderedServes, CopiedServes DEF Engines, EndpointOf

\* A draft's other resolvers do not ask the gateway's own address.
LEMMA NotForwarded ==
  ASSUME NEW n, NEW s, Runnable(n, s), s.custom.enabled, NEW x \in Slots(Dns(n, s)) \ Self(n, s)
  PROVE  LET t == TargetAt(Dns(n, s), x)
         IN  ~(t.scheme = "plain" /\ t.host = "lan" /\ t.port = "dns")
<1> DEFINE b == Bound(Dns(n, s), s.profile.meta)
<1>1. ~ForwardsToItself(b)
  BY DEF Runnable, Renderable, Dns
<1>2. /\ Slots(b) = Slots(Dns(n, s))
      /\ \A y \in Slots(b) : TargetAt(b, y) = IF y \in Self(n, s) THEN Engine
                                              ELSE TargetAt(Dns(n, s), y)
  BY BoundServes
<1> HIDE DEF b
<1>3. x \in Slots(b) /\ TargetAt(b, x) = TargetAt(Dns(n, s), x)
  BY <1>2
<1> QED BY <1>1, <1>3 DEF ForwardsToItself

LEMMA NoLoopHere ==
  ASSUME NEW n, NEW s, Runnable(n, s), NEW e \in Engines(n, s), ~Overlooked(e)
  PROVE  /\ <<"names", "names">> \notin Asks(e)
         /\ ~({<<"proxies", "names">>, <<"names", "proxies">>} \subseteq Asks(e))
<1> DEFINE d == Dns(n, s)
           self == Self(n, s)
           own(t) == /\ t.scheme = "plain"
                     /\ IF e.kind = "gateway"
                        THEN /\ Local(t) \/ t.host = "lan"
                             /\ (t.port = "own") \/ (t.port = "dns" /\ e.under.upstream)
                        ELSE Local(t) /\ t.port = "private"
           back(t) == own(t) \/ (t.host = "system" /\ e.under.managed)
           by(x) == IF x \in Ordinary(e) THEN "names" ELSE "proxies"
           rules == e.dns.respect \in {"true", "True"}
           first == {<<by(x), "names">> : x \in {y \in Slots(e.dns) : back(TargetAt(e.dns, y))}}
           second == {<<by(x), "proxies">> : x \in {y \in Slots(e.dns) :
                         TargetAt(e.dns, y).via = "proxy"
                         \/ (rules /\ y \in Ordinary(e) /\ ~back(TargetAt(e.dns, y)))}}
<1>1. PICK name \in {"formal", "own-probe"} : Serves(e, n, s, EndpointOf(e), name)
  BY EnginesServe
<1>2. e.kind \in {"gateway", "prepared"}
  BY EnginesServe
<1>3. \A x \in Slots(d) \ self : /\ TargetAt(d, x) \in Target /\ Elsewhere(TargetAt(d, x))
                                 /\ n.managed => TargetAt(d, x).host # "system"
  BY OthersLeaveHere
<1>4. /\ \A x \in self : Purpose(x) \in {"psn", "ppol"} /\ x \in Slots(d)
      /\ self # {} => d.respect # "true" /\ \A x \in Slots(d) \ self : TargetAt(d, x).via # "proxy"
  BY OthersLeaveHere
<1>5. Asks(e) = first \cup second
  BY DEF Asks
<1>0. s.custom.enabled => \A x \in Slots(d) \ self :
          ~(TargetAt(d, x).scheme = "plain" /\ TargetAt(d, x).host = "lan"
              /\ TargetAt(d, x).port = "dns")
  BY NotForwarded
<1> HIDE DEF d, self
<1>6. \A x \in Slots(e.dns) : x \in self \/ x \in Slots(d) \ self \/ TargetAt(e.dns, x) = Rcode
  BY <1>1 DEF Serves, d, self
<1>7. \A x \in Slots(d) \ self : x \in Slots(e.dns) /\ TargetAt(e.dns, x) = TargetAt(d, x)
  BY <1>1 DEF Serves, d, self
<1>8. e.under = n /\ e.dns.respect = d.respect /\ e.from = s /\ e.self = self
  BY <1>1 DEF Serves, d, self
<1>9. \A x \in Slots(d) \ self : ~back(TargetAt(e.dns, x))
  <2> TAKE x \in Slots(d) \ self
  <2> DEFINE t == TargetAt(e.dns, x)
  <2>1. t = TargetAt(d, x) /\ x \in Slots(e.dns)
    BY <1>7
  <2>2. t.port # "private"
    BY <1>3, <2>1 DEF Target
  <2>3. /\ ~(t.host = "lan" /\ t.port = "own")
        /\ ~(t.host = "lan" /\ t.port = "dns" /\ ~s.custom.enabled)
        /\ ~(Local(t) /\ t.port = "dns")
    BY <1>8, <2>1 DEF Overlooked
  <2>4. ~(t.scheme = "plain" /\ t.host = "lan" /\ t.port = "dns" /\ s.custom.enabled)
    BY <1>0, <2>1
  <2>5. Elsewhere(t) /\ (n.managed => t.host # "system")
    BY <1>3, <2>1
  <2> HIDE DEF t
  <2> QED BY <1>2, <1>8, <2>2, <2>3, <2>4, <2>5 DEF Elsewhere, t
<1>10. \A x \in Slots(e.dns) : TargetAt(e.dns, x) = Rcode =>
          ~back(TargetAt(e.dns, x)) /\ TargetAt(e.dns, x).via # "proxy"
  <2>1. Rcode.host = "rcode" /\ Rcode.via = "none"
    BY DEF Rcode
  <2>2. ~back(Rcode)
    BY <2>1 DEF Local
  <2> HIDE DEF back
  <2> QED BY <2>1, <2>2
<1>11. \A x \in Slots(e.dns) : back(TargetAt(e.dns, x)) => x \in self
  BY <1>6, <1>9, <1>10
<1>12. \A x \in self : x \notin Ordinary(e)
  BY <1>4 DEF Ordinary
<1> HIDE DEF back
<1>13. <<"names", "names">> \notin first /\ (first # {} => self # {})
  BY <1>11, <1>12
<1>14. \A a : <<a, "names">> \notin second
  OBVIOUS
<1>15. ASSUME self # {} PROVE <<"names", "proxies">> \notin second
  <2>1. ASSUME NEW x \in Slots(e.dns), x \in Ordinary(e)
        PROVE  TargetAt(e.dns, x).via # "proxy"
    BY <1>4, <1>6, <1>7, <1>10, <1>12, <1>15, <2>1
  <2>2. ~rules
    BY <1>4, <1>8, <1>15 DEF Overlooked
  <2> QED BY <2>1, <2>2
<1>16. \A a : <<a, "proxies">> \notin first
  OBVIOUS
<1> HIDE DEF first, second
<1>17. <<"proxies", "names">> \in first \cup second => self # {}
  BY <1>13, <1>14
<1> QED BY <1>5, <1>13, <1>14, <1>15, <1>16, <1>17

(***************************************************************************)
(* What composing keeps of a source.                                       *)
(***************************************************************************)
Refreshed(meta, dns, layer) ==
    [stored |-> meta.stored, enabled |-> meta.enabled, listen |-> meta.listen,
     services |-> meta.services, origins |-> RefreshedOrigins(meta.origins, dns, layer)]

LEMMA LayeredFields ==
  ASSUME NEW p, IsProfile(p), NEW dns, NEW layer
  PROVE  Layered(p, dns, layer) =
            [proxies |-> p.proxies, groups |-> p.groups, providers |-> p.providers,
             sets |-> p.sets, rules |-> p.rules, dns |-> dns,
             meta |-> Refreshed(p.meta, dns, layer)]
<1> DEFINE q == [p EXCEPT !.dns = dns]
           o == RefreshedOrigins(p.meta.origins, dns, layer)
<1>1. q = [proxies |-> p.proxies, groups |-> p.groups, providers |-> p.providers,
             sets |-> p.sets, rules |-> p.rules, dns |-> dns, meta |-> p.meta]
  BY DEF IsProfile
<1>2. Layered(p, dns, layer) = [q EXCEPT !.meta = [q.meta EXCEPT !.origins = RefreshedOrigins(@, dns, layer)]]
  BY Zenon DEF Layered
<1>3. q.meta = p.meta
  <2> HIDE DEF q
  <2> QED BY <1>1
<1>4. [q.meta EXCEPT !.origins = RefreshedOrigins(@, dns, layer)] = [p.meta EXCEPT !.origins = o]
  BY <1>3, Zenon
<1>5. [p.meta EXCEPT !.origins = o] = [stored |-> p.meta.stored, enabled |-> p.meta.enabled,
          listen |-> p.meta.listen, services |-> p.meta.services, origins |-> o]
  <2> HIDE DEF o
  <2> QED BY DEF IsProfile
<1>6. Layered(p, dns, layer) = [q EXCEPT !.meta = Refreshed(p.meta, dns, layer)]
  BY <1>2, <1>4, <1>5, Zenon DEF Refreshed
<1> HIDE DEF q
<1> QED BY <1>1, <1>6

LEMMA OverlaidFields ==
  ASSUME NEW p, IsProfile(p), NEW o, o.enabled
  PROVE  WithOverlay(p, o) =
            [proxies |-> p.proxies \cup o.addProxies,
             groups |-> Patched(GroupsBefore(p, o), o.patches),
             providers |-> p.providers \cup o.addProviders, sets |-> p.sets \cup o.addSets,
             rules |-> OverlaidRules(p.rules, o), dns |-> OverlaidDns(p.dns, o.dns),
             meta |-> Refreshed(p.meta, OverlaidDns(p.dns, o.dns), "global-overlay")]
<1> DEFINE q == Overlaid(p, o)
<1>1. q = [proxies |-> p.proxies \cup o.addProxies,
           groups |-> Patched(GroupsBefore(p, o), o.patches),
           providers |-> p.providers \cup o.addProviders, sets |-> p.sets \cup o.addSets,
           rules |-> OverlaidRules(p.rules, o), dns |-> p.dns, meta |-> p.meta]
  BY DEF Overlaid
<1>2. WithOverlay(p, o) = Layered(q, OverlaidDns(q.dns, o.dns), "global-overlay")
  BY Zenon DEF WithOverlay
<1> HIDE DEF q
<1>3. IsProfile(q) /\ q.meta = p.meta /\ q.dns = p.dns
  BY <1>1 DEF IsProfile
<1>4. Layered(q, OverlaidDns(q.dns, o.dns), "global-overlay") =
            [proxies |-> q.proxies, groups |-> q.groups, providers |-> q.providers,
             sets |-> q.sets, rules |-> q.rules, dns |-> OverlaidDns(q.dns, o.dns),
             meta |-> Refreshed(q.meta, OverlaidDns(q.dns, o.dns), "global-overlay")]
  BY <1>3, LayeredFields, Zenon
<1>5. /\ q.proxies = p.proxies \cup o.addProxies /\ q.groups = Patched(GroupsBefore(p, o), o.patches)
      /\ q.providers = p.providers \cup o.addProviders /\ q.sets = p.sets \cup o.addSets
      /\ q.rules = OverlaidRules(p.rules, o)
  BY <1>1
<1> QED BY <1>2, <1>3, <1>4, <1>5

LEMMA CustomFields ==
  ASSUME NEW p, IsProfile(p), NEW c, c.enabled
  PROVE  WithCustom(p, c) =
            [proxies |-> p.proxies, groups |-> p.groups, providers |-> p.providers,
             sets |-> p.sets, rules |-> p.rules, dns |-> CustomMerged(p.dns, c),
             meta |-> Refreshed(p.meta, CustomMerged(p.dns, c), "custom-dns")]
BY LayeredFields, Zenon DEF WithCustom

\* The profile after the overlay, and what every candidate keeps.
Middle(in) == WithOverlay(Read(in.raw), in.overlay)

\* What the overlay appends is appended to lists.
Composes(in) == in.overlay.enabled => OverlayDnsFits(Read(in.raw).dns, in.overlay.dns)

LEMMA ComposableComposes ==
  ASSUME NEW in, NEW c, Composable(in.raw, in.overlay, c)
  PROVE  Composes(in)
BY DEF Composable, Composes

LEMMA MiddleIsProfile ==
  ASSUME NEW in \in Inputs, Composes(in)
  PROVE  /\ IsProfile(Read(in.raw)) /\ IsProfile(Middle(in))
         /\ \A c : IsDraft(c) => IsProfile(WithCustom(Middle(in), c))
<1>1. IsProfile(Read(in.raw)) /\ IsOverlay(in.overlay)
  BY ReadIsProfile, PipelineAssumption
<1>2. IsProfile(Middle(in))
  BY <1>1, OverlaidIsProfile DEF Middle, Composes
<1> QED BY <1>1, <1>2, DraftedIsProfile

Fresh(s) == \E in, c : /\ in \in Inputs /\ IsDraft(c) /\ Composable(in.raw, in.overlay, c)
                       /\ s = Composed(in, c)
Candidate(s) == s \in Legacy \/ Fresh(s)

LEMMA FreshFields ==
  ASSUME NEW in \in Inputs, Composes(in), NEW c, IsDraft(c), NEW s, s = Composed(in, c)
  PROVE  /\ s.profile = WithCustom(Middle(in), c) /\ s.in = in /\ s.custom = c
         /\ s.overlaid = in.overlay.enabled /\ IsProfile(s.profile)
         /\ s = [kind |-> "profile", profile |-> s.profile, custom |-> c,
                 overlaid |-> in.overlay.enabled, in |-> in]
BY MiddleIsProfile DEF Composed, Middle

LEMMA LegacyFields ==
  ASSUME NEW s \in Legacy
  PROVE  \E in \in Inputs :
            /\ in.overlay.enabled /\ Composable(in.raw, in.overlay, NoCustom) /\ Composes(in)
            /\ s.profile.meta = NoSource /\ s.profile.dns = Middle(in).dns
            /\ s.profile.rules = Middle(in).rules /\ s.profile.groups = Middle(in).groups
            /\ s.profile.proxies = Middle(in).proxies /\ s.profile.sets = Middle(in).sets
            /\ s.profile.providers = Middle(in).providers
            /\ s.in = in /\ s.custom = NoCustom /\ s.overlaid /\ IsProfile(s.profile)
            /\ s.kind = "profile"
<1>1. PICK in \in Inputs : /\ in.overlay.enabled /\ Composable(in.raw, in.overlay, NoCustom)
                           /\ s = OldVersion(in)
  BY PipelineAssumption
<1>0. Composes(in)
  BY <1>1, ComposableComposes
<1> DEFINE t == Composed(in, NoCustom)
           p == t.profile
           q == [p EXCEPT !.meta = NoSource]
<1>2. ~NoCustom.enabled /\ IsDraft(NoCustom)
  BY PipelineAssumption
<1>3. /\ p = WithCustom(Middle(in), NoCustom)
      /\ t = [kind |-> "profile", profile |-> p, custom |-> NoCustom,
              overlaid |-> in.overlay.enabled, in |-> in]
  BY <1>0, <1>2, FreshFields
<1>4. p = Middle(in)
  BY <1>2, <1>3 DEF WithCustom
<1>5. s = [t EXCEPT !.profile = [t.profile EXCEPT !.meta = NoSource]]
  BY <1>1, Zenon DEF OldVersion
<1> HIDE DEF p, t
<1>6. IsProfile(p)
  BY <1>0, <1>4, MiddleIsProfile
<1>7. q = [proxies |-> p.proxies, groups |-> p.groups, providers |-> p.providers,
           sets |-> p.sets, rules |-> p.rules, dns |-> p.dns, meta |-> NoSource]
  BY <1>6 DEF IsProfile
<1>8. s = [t EXCEPT !.profile = q]
  BY <1>5 DEF p
<1> HIDE DEF q
<1>9. s = [kind |-> "profile", profile |-> q, custom |-> NoCustom,
           overlaid |-> in.overlay.enabled, in |-> in]
  BY <1>3, <1>8
<1>10. IsProfile(q)
  BY <1>6, <1>7 DEF IsProfile, NoSource
<1>11. s.profile = q /\ s.in = in /\ s.custom = NoCustom /\ s.overlaid = in.overlay.enabled
       /\ s.kind = "profile"
  BY <1>9
<1>12. /\ q.meta = NoSource /\ q.dns = p.dns /\ q.rules = p.rules /\ q.groups = p.groups
       /\ q.proxies = p.proxies /\ q.sets = p.sets /\ q.providers = p.providers
  BY <1>7
<1> QED BY <1>0, <1>1, <1>4, <1>10, <1>11, <1>12

\* What a profile remembers of the listener its source had.
LEMMA SourceKept ==
  ASSUME NEW in \in Inputs, Composes(in), NEW c, IsDraft(c)
  PROVE  LET meta == WithCustom(Middle(in), c).meta
             read == CapturedSource(in.raw, Default)
         IN  /\ meta.stored /\ meta.enabled = read.enabled /\ meta.listen = read.listen
             /\ meta.services = read.services
<1> DEFINE p == Read(in.raw)
           q == Middle(in)
           r == WithCustom(q, c)
<1>1. IsProfile(p) /\ IsProfile(q)
  BY MiddleIsProfile
<1>2. p.meta = CapturedSource(in.raw, Default) /\ p.meta.stored
  BY DEF Read, CapturedSource
<1>3. /\ q.meta.stored = p.meta.stored /\ q.meta.enabled = p.meta.enabled
      /\ q.meta.listen = p.meta.listen /\ q.meta.services = p.meta.services
  <2>1. CASE in.overlay.enabled
    <3>1. q.meta = Refreshed(p.meta, OverlaidDns(p.dns, in.overlay.dns), "global-overlay")
      BY <1>1, <2>1, OverlaidFields DEF Middle
    <3> QED BY <3>1 DEF Refreshed
  <2>2. CASE ~in.overlay.enabled
    BY <2>2 DEF Middle, WithOverlay
  <2> QED BY <2>1, <2>2
<1>4. /\ r.meta.stored = q.meta.stored /\ r.meta.enabled = q.meta.enabled
      /\ r.meta.listen = q.meta.listen /\ r.meta.services = q.meta.services
  <2>1. CASE c.enabled
    <3>1. r.meta = Refreshed(q.meta, CustomMerged(q.dns, c), "custom-dns")
      BY <1>1, <2>1, CustomFields
    <3> QED BY <3>1 DEF Refreshed
  <2>2. CASE ~c.enabled
    BY <2>2 DEF WithCustom
  <2> QED BY <2>1, <2>2
<1> HIDE DEF p, q, r
<1> QED BY <1>2, <1>3, <1>4 DEF r, q

LEMMA CandidateRuns ==
  ASSUME NEW s, Candidate(s)
  PROVE  IsProfile(s.profile) /\ s.in \in Inputs /\ s.kind = "profile"
<1>1. CASE s \in Legacy
  BY <1>1, LegacyFields
<1>2. CASE Fresh(s)
  <2>1. PICK in, c : /\ in \in Inputs /\ IsDraft(c) /\ Composes(in)
             /\ s = Composed(in, c)
    BY <1>2, ComposableComposes DEF Fresh
  <2>2. /\ s.in = in /\ IsProfile(s.profile)
        /\ s = [kind |-> "profile", profile |-> s.profile, custom |-> c,
                overlaid |-> in.overlay.enabled, in |-> in]
    BY <2>1, FreshFields
  <2> QED BY <2>1, <2>2
<1> QED BY <1>1, <1>2 DEF Candidate

Leads(e, x) ==
    LET raw == e.from.in.raw
        t == TargetAt(e.dns, x)
    IN  /\ raw.enabled /\ t.host = "loop" /\ t.port = "theirs"
        /\ raw.listen.port = "theirs" /\ raw.listen.host \in {"any", "loop"}
        /\ Declared(CapturedSource(raw, Default), x, t) # "independent"

LEMMA NothingFollowsLegacy ==
  ASSUME NEW n, NEW s \in Legacy, Runnable(n, s), NEW x \in Slots(Dns(n, s))
  PROVE  TargetAt(Dns(n, s), x).host # "loop"
<1>1. s.overlaid /\ s.profile.meta = NoSource /\ IsDns(s.profile.dns)
  BY LegacyFields DEF IsProfile
<1>2. ~NeedsSourceRecovery(s.profile.meta, s.profile.dns)
  BY <1>1 DEF Runnable, Renderable
<1>3. \A y \in Slots(s.profile.dns) : TargetAt(s.profile.dns, y).host # "loop"
  <2>1. ~NoSource.stored
    BY DEF NoSource
  <2> QED BY <1>1, <1>2, <2>1 DEF NeedsSourceRecovery
<1>4. \/ x \in Slots(s.profile.dns) /\ TargetAt(Dns(n, s), x) = TargetAt(s.profile.dns, x)
      \/ TargetAt(Dns(n, s), x) \in {t \in Target : t.host = "ext"}
  BY <1>1, CoordinatedSlots DEF Dns, Runnable
<1> QED BY <1>3, <1>4

LEMMA NothingFollowsFresh ==
  ASSUME NEW n, NEW s, Fresh(s), Runnable(n, s), NEW x \in Slots(Dns(n, s)) \ Self(n, s)
  PROVE  LET raw == s.in.raw
             t == TargetAt(Dns(n, s), x)
         IN  ~ /\ raw.enabled /\ t.host = "loop" /\ t.port = "theirs"
               /\ raw.listen.port = "theirs" /\ raw.listen.host \in {"any", "loop"}
               /\ Declared(CapturedSource(raw, Default), x, t) # "independent"
<1> DEFINE raw == s.in.raw
           t == TargetAt(Dns(n, s), x)
           meta == s.profile.meta
           read == CapturedSource(raw, Default)
<1>1. PICK in, c : /\ in \in Inputs /\ IsDraft(c) /\ Composes(in)
           /\ s = Composed(in, c)
  BY ComposableComposes DEF Fresh
<1>2. s.in = in /\ s.profile = WithCustom(Middle(in), c)
  BY <1>1, FreshFields
<1>3. meta.enabled = read.enabled /\ meta.listen = read.listen /\ meta.services = read.services
  BY <1>1, <1>2, SourceKept
<1>4. read.enabled = raw.enabled /\ read.listen = raw.listen
  BY DEF CapturedSource
<1>5. Declared(meta, x, t) = Declared(read, x, t)
  BY <1>3 DEF Declared
<1>6. ~IsSelf(meta, x, t)
  BY DEF Self, SelfSlots
<1> HIDE DEF t, meta, read
<1>7. ~(Declared(read, x, t) # "independent" /\ SamePort(meta, t) /\ Covered(meta, t))
  BY <1>5, <1>6 DEF IsSelf
<1> QED BY <1>3, <1>4, <1>7 DEF SamePort, Covered, t, read

LEMMA FollowsHere ==
  ASSUME NEW n, NEW s, Candidate(s), Runnable(n, s), NEW e \in Engines(n, s), NEW x \in Slots(e.dns)
  PROVE  ~Leads(e, x)
<1> DEFINE d == Dns(n, s)
<1>1. PICK name \in {"formal", "own-probe"} : Serves(e, n, s, EndpointOf(e), name)
  BY EnginesServe
<1>2. e.from = s
  BY <1>1 DEF Serves
<1>3. CASE x \in Self(n, s)
  <2>1. TargetAt(e.dns, x) = EndpointOf(e)
    BY <1>1, <1>3, OthersLeaveHere DEF Serves
  <2>2. EndpointOf(e).port # "theirs"
    BY DEF EndpointOf, Engine, Private
  <2> QED BY <2>1, <2>2 DEF Leads
<1>4. CASE x \in Slots(d) \ Self(n, s)
  <2>1. TargetAt(e.dns, x) = TargetAt(d, x)
    BY <1>1, <1>4 DEF Serves
  <2>2. CASE s \in Legacy
    BY <1>2, <1>4, <2>1, <2>2, NothingFollowsLegacy DEF Leads
  <2>3. CASE Fresh(s)
    BY <1>2, <1>4, <2>1, <2>3, NothingFollowsFresh DEF Leads
  <2> QED BY <2>2, <2>3 DEF Candidate
<1>5. CASE TargetAt(e.dns, x) = Rcode
  <2>1. Rcode.host = "rcode"
    BY DEF Rcode
  <2> QED BY <1>5, <2>1 DEF Leads
<1>6. x \in Self(n, s) \/ x \in Slots(d) \ Self(n, s) \/ TargetAt(e.dns, x) = Rcode
  BY <1>1 DEF Serves
<1> QED BY <1>3, <1>4, <1>5, <1>6

\* One slot of a probe, whatever is proved by it.
LEMMA OneProbe == ASSUME NEW name PROVE ProbeSlots(name) # {} /\ Cardinality(ProbeSlots(name)) = 1
<1>1. PICK f : DOMAIN Probe(name) = {f}
  BY DEF Probe
<1>2. ProbeSlots(name) = {<<f, 1>>}
  BY <1>1 DEF ProbeSlots
<1> QED BY <1>2, FS_Singleton

LEMMA ApartHere ==
  ASSUME NEW n, NEW s, Runnable(n, s), NEW e, e = Copied(n, s), NEW final, final = Rendered(n, s)
  PROVE  LET own == {x \in Slots(e.dns) : TargetAt(e.dns, x) = Private}
             extra(dns) == {x \in Slots(dns) : TargetAt(dns, x).host = "rcode"}
         IN  /\ \A x \in Slots(e.dns) : Elsewhere(TargetAt(e.dns, x))
             /\ (e.listen = "private") <=> (own # {})
             /\ Cardinality(extra(e.dns)) = IF own = {} THEN 0 ELSE 1
             /\ \A x \in Slots(final.dns) \ (final.self \cup extra(final.dns)) :
                    TargetAt(e.dns, x) = TargetAt(final.dns, x)
<1> DEFINE f == final
           d == Dns(n, s)
           self == Self(n, s)
           own == {x \in Slots(e.dns) : TargetAt(e.dns, x) = Private}
           extra(dns) == {x \in Slots(dns) : TargetAt(dns, x).host = "rcode"}
           probe == IF self = {} THEN {} ELSE ProbeSlots("own-probe")
<1>1. /\ Slots(e.dns) = Slots(d) \cup probe /\ Slots(d) \cap probe = {}
      /\ \A x \in Slots(d) : TargetAt(e.dns, x) = IF x \in self THEN Private ELSE TargetAt(d, x)
      /\ \A x \in probe : TargetAt(e.dns, x) = Rcode
      /\ e.listen = IF self = {} THEN "none" ELSE "private"
  BY CopiedServes DEF Serves
<1>2. /\ Slots(f.dns) = Slots(d) \cup (IF self = {} THEN {} ELSE ProbeSlots("formal"))
      /\ \A x \in Slots(d) : TargetAt(f.dns, x) = IF x \in self THEN Engine ELSE TargetAt(d, x)
      /\ \A x \in (IF self = {} THEN {} ELSE ProbeSlots("formal")) : TargetAt(f.dns, x) = Rcode
      /\ f.self = self
  BY RenderedServes DEF Serves
<1>3. /\ \A x \in Slots(d) \ self : TargetAt(d, x) \in Target /\ Elsewhere(TargetAt(d, x))
      /\ self \subseteq Slots(d)
  BY OthersLeaveHere
<1> HIDE DEF f, d, self
<1>4. /\ Private \notin Target /\ Private # Rcode /\ Private.host = "loop" /\ Rcode.host = "rcode"
      /\ Elsewhere(Private) /\ Elsewhere(Rcode)
  <2>1. Private = [host |-> "loop", port |-> "private", scheme |-> "plain", via |-> "none"]
    BY DEF Private, Engine
  <2>2. Private.host = "loop" /\ Private.port = "private"
    BY <2>1
  <2>3. Rcode.host = "rcode"
    BY DEF Rcode
  <2>4. \A t \in Target : t.port # "private"
    BY DEF Target
  <2> QED BY <2>2, <2>3, <2>4 DEF Elsewhere, Local
<1>5. \A t \in Target : t.host # "rcode"
  BY DEF Target
<1>6. own = self
  BY <1>1, <1>3, <1>4
<1>7. extra(e.dns) = probe
  BY <1>1, <1>3, <1>4, <1>5
<1>8. \A x \in Slots(e.dns) : Elsewhere(TargetAt(e.dns, x))
  BY <1>1, <1>3, <1>4
<1>9. Cardinality(probe) = IF self = {} THEN 0 ELSE 1
  BY OneProbe, FS_EmptySet
<1>10. \A x \in Slots(f.dns) \ (f.self \cup extra(f.dns)) : TargetAt(e.dns, x) = TargetAt(f.dns, x)
  <2>1. \A x \in Slots(f.dns) \ (f.self \cup extra(f.dns)) : x \in Slots(d) /\ x \notin self
    BY <1>2, <1>4
  <2> QED BY <1>1, <1>2, <2>1
<1>11. (e.listen = "private") <=> (self # {})
  BY <1>1
<1> HIDE DEF own, extra, probe
<1>12. Cardinality(extra(e.dns)) = IF own = {} THEN 0 ELSE 1
  BY <1>6, <1>7, <1>9
<1> QED BY <1>6, <1>8, <1>10, <1>11, <1>12 DEF own, extra, f

(***************************************************************************)
(* Lists, and what decides on a connection.                                *)
(***************************************************************************)
\* A set of naturals has a least element.
LEMMA LeastNatural ==
  ASSUME NEW T, T \subseteq Nat, T # {}
  PROVE  \E x \in T : \A y \in T : x <= y
<1>1. \E x \in T : \A y \in T : ~(<<y, x>> \in OpToRel(<, Nat))
  BY NatLessThanWellFounded, WFMin
<1>2. ASSUME NEW x \in Nat, NEW y \in Nat, ~(<<y, x>> \in OpToRel(<, Nat)) PROVE x <= y
  BY <1>2 DEF OpToRel
<1> QED BY <1>1, <1>2

Hits(rules, M) == {i \in DOMAIN rules : rules[i].match \/ rules[i] \in M}
FirstHit(rules, M) == CHOOSE i \in Hits(rules, M) : \A j \in Hits(rules, M) : i <= j

LEMMA FirstIsLeast ==
  ASSUME NEW rules, IsList(rules), NEW M
  PROVE  /\ Hits(rules, M) \subseteq 1..Len(rules) /\ Len(rules) \in Nat
         /\ Hits(rules, M) = {} => Decides(rules, M) = <<>>
         /\ Hits(rules, M) # {} =>
                /\ FirstHit(rules, M) \in Hits(rules, M)
                /\ \A j \in Hits(rules, M) : FirstHit(rules, M) <= j
                /\ Decides(rules, M) = <<rules[FirstHit(rules, M)]>>
         /\ \A i \in Hits(rules, M) : (\A j \in Hits(rules, M) : i <= j) => FirstHit(rules, M) = i
<1> DEFINE H == Hits(rules, M)
<1>1. H \subseteq 1..Len(rules) /\ Len(rules) \in Nat
  BY DEF Hits, IsList
<1>2. Decides(rules, M) = IF H = {} THEN <<>> ELSE <<rules[FirstHit(rules, M)]>>
  BY DEF Decides, Hits, FirstHit
<1>3. FirstHit(rules, M) = CHOOSE i \in H : \A j \in H : i <= j
  BY DEF FirstHit
<1> HIDE DEF H
<1>4. H # {} => \E i \in H : \A j \in H : i <= j
  <2>1. H \subseteq Nat
    BY <1>1
  <2> QED BY <2>1, LeastNatural
<1>5. H # {} => FirstHit(rules, M) \in H /\ \A j \in H : FirstHit(rules, M) <= j
  BY <1>3, <1>4
<1>6. ASSUME NEW i \in H, \A j \in H : i <= j PROVE FirstHit(rules, M) = i
  <2>1. FirstHit(rules, M) \in H /\ FirstHit(rules, M) <= i /\ i <= FirstHit(rules, M)
    BY <1>5, <1>6
  <2>2. H \subseteq Nat
    BY <1>1
  <2>3. FirstHit(rules, M) \in Nat /\ i \in Nat
    BY <2>1, <2>2
  <2> QED BY <2>1, <2>3
<1> QED BY <1>1, <1>2, <1>5, <1>6 DEF H

LEMMA Joined ==
  ASSUME NEW a, IsList(a), NEW b, IsList(b)
  PROVE  /\ IsList(a \o b) /\ Len(a \o b) = Len(a) + Len(b) /\ Len(a) \in Nat /\ Len(b) \in Nat
         /\ \A i \in 1..(Len(a) + Len(b)) :
                (a \o b)[i] = IF i <= Len(a) THEN a[i] ELSE b[i - Len(a)]
         /\ Range(a \o b) = Range(a) \cup Range(b)
<1>1. a \in Seq(Range(a) \cup Range(b)) /\ b \in Seq(Range(a) \cup Range(b))
  BY DEF IsList
<1>2. /\ a \o b \in Seq(Range(a) \cup Range(b)) /\ Len(a \o b) = Len(a) + Len(b)
      /\ Len(a) \in Nat /\ Len(b) \in Nat
      /\ DOMAIN (a \o b) = 1..(Len(a) + Len(b)) /\ DOMAIN a = 1..Len(a) /\ DOMAIN b = 1..Len(b)
      /\ \A i \in 1..(Len(a) + Len(b)) :
                (a \o b)[i] = IF i <= Len(a) THEN a[i] ELSE b[i - Len(a)]
  BY <1>1
<1>3. Range(a \o b) = Range(a) \cup Range(b)
  <2>1. \A i \in DOMAIN a : i \in DOMAIN (a \o b) /\ (a \o b)[i] = a[i]
    BY <1>2
  <2>2. \A i \in DOMAIN b : Len(a) + i \in DOMAIN (a \o b) /\ (a \o b)[Len(a) + i] = b[i]
    BY <1>2
  <2>3. \A i \in DOMAIN (a \o b) : (a \o b)[i] \in Range(a) \cup Range(b)
    BY <1>2 DEF Range
  <2>4. Range(a \o b) \subseteq Range(a) \cup Range(b)
    BY <2>3 DEF Range
  <2>5. Range(a) \subseteq Range(a \o b)
    BY <2>1 DEF Range
  <2>6. Range(b) \subseteq Range(a \o b)
    BY <2>2 DEF Range
  <2> QED BY <2>4, <2>5, <2>6
<1> QED BY <1>2, <1>3 DEF IsList

LEMMA DecidesJoined ==
  ASSUME NEW a, IsList(a), NEW b, IsList(b), NEW M
  PROVE  Decides(a \o b, M) = IF Decides(a, M) # <<>> THEN Decides(a, M) ELSE Decides(b, M)
<1> DEFINE c == a \o b
<1>1. /\ IsList(c) /\ Len(c) = Len(a) + Len(b) /\ Len(a) \in Nat /\ Len(b) \in Nat
      /\ \A i \in 1..(Len(a) + Len(b)) : c[i] = IF i <= Len(a) THEN a[i] ELSE b[i - Len(a)]
  BY Joined
<1>2. /\ DOMAIN c = 1..(Len(a) + Len(b)) /\ DOMAIN a = 1..Len(a) /\ DOMAIN b = 1..Len(b)
  BY <1>1 DEF IsList
<1> HIDE DEF c
<1>3. /\ \A i \in Hits(a, M) : i \in Hits(c, M) /\ c[i] = a[i]
      /\ \A i \in Hits(b, M) : Len(a) + i \in Hits(c, M) /\ c[Len(a) + i] = b[i]
      /\ \A i \in Hits(c, M) : i \in Hits(a, M) \/ (i > Len(a) /\ i - Len(a) \in Hits(b, M))
  BY <1>1, <1>2 DEF Hits
<1>4. CASE Hits(a, M) # {}
  <2> DEFINE i == FirstHit(a, M)
  <2>1. /\ i \in Hits(a, M) /\ i \in 1..Len(a) /\ \A j \in Hits(a, M) : i <= j
        /\ Decides(a, M) = <<a[i]>>
    BY <1>4, FirstIsLeast
  <2> HIDE DEF i
  <2>2. i \in Hits(c, M) /\ \A j \in Hits(c, M) : i <= j
    <3>1. Hits(c, M) \subseteq Nat
      BY <1>1, FirstIsLeast
    <3> QED BY <1>1, <1>3, <2>1, <3>1
  <2>3. Decides(c, M) = <<c[i]>>
    BY <1>1, <2>2, FirstIsLeast
  <2> QED BY <1>3, <2>1, <2>3 DEF c
<1>5. CASE Hits(a, M) = {} /\ Hits(b, M) # {}
  <2> DEFINE i == FirstHit(b, M)
  <2>1. /\ i \in Hits(b, M) /\ i \in 1..Len(b) /\ \A j \in Hits(b, M) : i <= j
        /\ Decides(b, M) = <<b[i]>> /\ Decides(a, M) = <<>>
    BY <1>5, FirstIsLeast
  <2> HIDE DEF i
  <2>2. Len(a) + i \in Hits(c, M) /\ \A j \in Hits(c, M) : Len(a) + i <= j
    <3>1. Hits(c, M) \subseteq Nat
      BY <1>1, FirstIsLeast
    <3> QED BY <1>1, <1>3, <1>5, <2>1, <3>1
  <2>3. Decides(c, M) = <<c[Len(a) + i]>>
    BY <1>1, <2>2, FirstIsLeast
  <2> QED BY <1>3, <2>1, <2>3 DEF c
<1>6. CASE Hits(a, M) = {} /\ Hits(b, M) = {}
  <2>1. Hits(c, M) = {}
    BY <1>3, <1>6
  <2> QED BY <1>1, <1>6, <2>1, FirstIsLeast DEF c
<1> QED BY <1>4, <1>5, <1>6

LEMMA BodyAndTerminal ==
  ASSUME NEW r, IsList(r)
  PROVE  IsList(Body(r)) /\ IsList(Terminal(r)) /\ r = Body(r) \o Terminal(r)
<1>1. r \in Seq(Range(r)) /\ Len(r) \in Nat /\ DOMAIN r = 1..Len(r)
  BY SMTT(30) DEF IsList
<1>2. CASE HasTerminal(r)
  <2>1. r # <<>> /\ Len(r) > 0
    BY <1>1, <1>2 DEF HasTerminal
  <2>2. Body(r) = SubSeq(r, 1, Len(r) - 1) /\ Terminal(r) = <<r[Len(r)]>>
    BY <1>2 DEF Body, Terminal, Front, Last
  <2>3. /\ SubSeq(r, 1, Len(r) - 1) \in Seq(Range(r)) /\ Len(SubSeq(r, 1, Len(r) - 1)) = Len(r) - 1
        /\ \A i \in 1..(Len(r) - 1) : SubSeq(r, 1, Len(r) - 1)[i] = r[i]
    BY <1>1, <2>1
  <2>4. <<r[Len(r)]>> \in Seq(Range(r))
    BY <1>1, <2>1 DEF Range
  <2> DEFINE a == SubSeq(r, 1, Len(r) - 1)
             b == <<r[Len(r)]>>
  <2>5. Len(b) = 1 /\ b[1] = r[Len(r)] /\ b \in Seq(Range(r))
    BY <2>4
  <2> HIDE DEF a, b
  <2>6. a \in Seq(Range(r)) /\ Len(a) = Len(r) - 1 /\ \A i \in 1..(Len(r) - 1) : a[i] = r[i]
    BY <2>3, SMTT(30) DEF a
  <2>7. a \o b = r
    <3> DEFINE n == Len(r)
    <3>1. n \in Nat /\ n > 0 /\ Len(a) = n - 1 /\ Len(b) = 1
      BY <1>1, <2>1, <2>5, <2>6
    <3>2. /\ a \o b \in Seq(Range(r)) /\ Len(a \o b) = Len(a) + Len(b)
          /\ \A i \in 1..(Len(a) + Len(b)) :
                (a \o b)[i] = IF i <= Len(a) THEN a[i] ELSE b[i - Len(a)]
      BY <2>5, <2>6, ConcatProperties
    <3>3. ASSUME NEW i \in 1..n PROVE (a \o b)[i] = r[i]
      <4>1. CASE i = n
        BY <2>5, <3>1, <3>2, <4>1
      <4>2. CASE i # n
        BY <2>6, <3>1, <3>2, <4>2
      <4> QED BY <4>1, <4>2
    <3>4. Len(a \o b) = n
      BY <3>1, <3>2
    <3> QED BY <1>1, <3>2, <3>3, <3>4, SeqEqual
  <2>8. IsList(a) /\ IsList(b)
    <3>1. \A q \in Seq(Range(r)) : q \in Seq(Range(q))
      BY DEF Range
    <3> QED BY <2>5, <2>6, <3>1 DEF IsList
  <2> QED BY <2>2, <2>7, <2>8 DEF a, b
<1>3. CASE ~HasTerminal(r)
  <2>1. Body(r) = r /\ Terminal(r) = <<>>
    BY <1>3 DEF Body, Terminal
  <2>2. IsList(<<>>)
    BY DEF IsList
  <2>3. r \o <<>> = r
    BY <1>1
  <2> QED BY <2>1, <2>2, <2>3
<1> QED BY <1>2, <1>3

NoRules == [prepend |-> <<>>, tail |-> <<>>]

LEMMA StillDecides ==
  ASSUME NEW raw, IsList(raw), NEW a, IsList(a), NEW t, IsList(t), NEW M
  PROVE  /\ Decides(a \o Body(raw) \o t \o Terminal(raw), M) =
                    IF Decides(a, M) # <<>> THEN Decides(a, M)
                    ELSE IF Decides(Body(raw), M) # <<>> THEN Decides(raw, M)
                    ELSE IF Decides(t, M) # <<>> THEN Decides(t, M)
                    ELSE Decides(raw, M)
         /\ Decides(<<>>, M) = <<>>
<1> DEFINE B == Body(raw)
           T == Terminal(raw)
<1>1. IsList(B) /\ IsList(T) /\ raw = B \o T
  BY BodyAndTerminal
<1> HIDE DEF B, T
<1>2. IsList(a \o B) /\ IsList((a \o B) \o t)
  BY <1>1, Joined
<1>3. Decides(a \o B, M) = IF Decides(a, M) # <<>> THEN Decides(a, M) ELSE Decides(B, M)
  BY <1>1, DecidesJoined
<1>4. Decides((a \o B) \o t, M) = IF Decides(a \o B, M) # <<>> THEN Decides(a \o B, M) ELSE Decides(t, M)
  BY <1>2, DecidesJoined
<1>5. Decides(((a \o B) \o t) \o T, M) = IF Decides((a \o B) \o t, M) # <<>>
          THEN Decides((a \o B) \o t, M) ELSE Decides(T, M)
  BY <1>1, <1>2, DecidesJoined
<1>6. Decides(raw, M) = IF Decides(B, M) # <<>> THEN Decides(B, M) ELSE Decides(T, M)
  BY <1>1, DecidesJoined
<1>7. Decides(<<>>, M) = <<>>
  BY DEF Decides
<1> QED BY <1>3, <1>4, <1>5, <1>6, <1>7 DEF B, T

\* The rules a candidate has, by what was prepended and put before MATCH.
LEMMA CandidateRules ==
  ASSUME NEW s, Candidate(s)
  PROVE  LET raw == s.in.raw.rules
             o == s.in.overlay
         IN  /\ IsList(raw) /\ IsList(o.prepend) /\ IsList(o.tail)
             /\ s.profile.rules = IF s.overlaid THEN o.prepend \o Body(raw) \o o.tail \o Terminal(raw)
                                  ELSE raw
<1>1. /\ s.in \in Inputs /\ s.profile.rules = Middle(s.in).rules
      /\ s.overlaid = s.in.overlay.enabled /\ Composes(s.in)
  <2>1. CASE s \in Legacy
    <3>1. PICK in \in Inputs : /\ in.overlay.enabled /\ s.profile.rules = Middle(in).rules
                               /\ s.in = in /\ s.overlaid /\ Composes(in)
      BY <2>1, LegacyFields
    <3>2. in.overlay.enabled \in BOOLEAN
      BY PipelineAssumption DEF IsOverlay
    <3>3. s \in {OldVersion(x) : x \in Inputs}
      BY <2>1, PipelineAssumption
    <3>4. s.overlaid = s.in.overlay.enabled
      <4>1. PICK y \in Inputs : /\ s = OldVersion(y)
        BY <3>3
      <4>2. [Composed(y, NoCustom) EXCEPT !.profile.meta = NoSource].overlaid = y.overlay.enabled
        BY DEF Composed
      <4>3. [Composed(y, NoCustom) EXCEPT !.profile.meta = NoSource].in = y
        BY DEF Composed
      <4> QED BY <4>1, <4>2, <4>3, Zenon DEF OldVersion
    <3> QED BY <3>1, <3>4
  <2>2. CASE Fresh(s)
    <3>1. PICK in, c : /\ in \in Inputs /\ IsDraft(c) /\ Composes(in)
               /\ s = Composed(in, c)
      BY <2>2, ComposableComposes DEF Fresh
    <3>2. /\ s.profile = WithCustom(Middle(in), c) /\ s.in = in
          /\ s.overlaid = in.overlay.enabled
      BY <3>1, FreshFields
    <3>3. WithCustom(Middle(in), c).rules = Middle(in).rules
      <4>1. CASE c.enabled
        BY <3>1, <4>1, MiddleIsProfile, CustomFields
      <4>2. CASE ~c.enabled
        BY <4>2 DEF WithCustom
      <4> QED BY <4>1, <4>2
    <3> QED BY <3>1, <3>2, <3>3
  <2> QED BY <2>1, <2>2 DEF Candidate
<1>2. IsList(s.in.raw.rules) /\ IsList(s.in.overlay.prepend) /\ IsList(s.in.overlay.tail)
  BY <1>1, PipelineAssumption DEF IsSource, IsOverlay
<1>3. Read(s.in.raw).rules = s.in.raw.rules
  BY SMTT(30) DEF Read
<1>4. CASE s.in.overlay.enabled
  <2>1. Middle(s.in).rules = OverlaidRules(Read(s.in.raw).rules, s.in.overlay)
    BY <1>1, <1>4, MiddleIsProfile, OverlaidFields DEF Middle
  <2> QED BY <1>1, <1>2, <1>3, <1>4, <2>1 DEF OverlaidRules
<1>5. CASE ~s.in.overlay.enabled
  BY <1>1, <1>2, <1>3, <1>5 DEF Middle, WithOverlay
<1> QED BY <1>4, <1>5

LEMMA SourceDecidesHere ==
  ASSUME NEW s, Candidate(s), NEW M
  PROVE  LET raw == s.in.raw.rules
             o == IF s.overlaid THEN s.in.overlay ELSE NoRules
         IN  Decides(s.profile.rules, M) =
                    IF Decides(o.prepend, M) # <<>> THEN Decides(o.prepend, M)
                    ELSE IF Decides(Body(raw), M) # <<>> THEN Decides(raw, M)
                    ELSE IF Decides(o.tail, M) # <<>> THEN Decides(o.tail, M)
                    ELSE Decides(raw, M)
<1>1. Decides(<<>>, M) = <<>>
  BY DEF Decides
<1>2. CASE s.overlaid
  <2>1. IsList(s.in.raw.rules) /\ IsList(s.in.overlay.prepend) /\ IsList(s.in.overlay.tail)
    BY CandidateRules
  <2>2. s.profile.rules = s.in.overlay.prepend \o Body(s.in.raw.rules) \o s.in.overlay.tail
                          \o Terminal(s.in.raw.rules)
    BY <1>2, CandidateRules
  <2> QED BY <1>2, <2>1, <2>2, StillDecides
<1>3. CASE ~s.overlaid
  <2>1. s.profile.rules = s.in.raw.rules
    BY <1>3, CandidateRules
  <2>2. NoRules.prepend = <<>> /\ NoRules.tail = <<>>
    BY DEF NoRules
  <2> QED BY <1>1, <1>3, <2>1, <2>2
<1> QED BY <1>2, <1>3

(***************************************************************************)
(* A composed profile refers to what it has.                               *)
(***************************************************************************)
Sound(q) ==
    /\ \A g \in DOMAIN q.groups :
           /\ q.groups[g].proxies \subseteq Targets(q) \cup Builtins
           /\ q.groups[g].use \subseteq q.providers
    /\ \A r \in Range(q.rules) :
           /\ r.to \in Targets(q) \cup Builtins
           /\ r.set \in q.sets \cup {""}

\* Soundness is about the structure of a profile.
LEMMA SoundByStructure ==
  ASSUME NEW p, NEW q, p.groups = q.groups, p.proxies = q.proxies, p.providers = q.providers,
         p.sets = q.sets, p.rules = q.rules
  PROVE  Sound(p) <=> Sound(q)
BY DEF Sound, Targets

LEMMA OverlaidStaysSound ==
  ASSUME NEW p, IsList(p.rules), Sound(p), NEW o, IsList(o.prepend), IsList(o.tail), OverlayFits(p, o)
  PROVE  Sound(Overlaid(p, o))
<1> DEFINE q == Overlaid(p, o)
           before == GroupsBefore(p, o)
           known(m) == m.proxies \subseteq Targets(q) \cup Builtins /\ m.use \subseteq q.providers
<1>1. /\ q.proxies = p.proxies \cup o.addProxies /\ q.groups = Patched(before, o.patches)
      /\ q.providers = p.providers \cup o.addProviders /\ q.sets = p.sets \cup o.addSets
      /\ q.rules = OverlaidRules(p.rules, o)
  BY DEF Overlaid
<1>2. /\ \A g \in DOMAIN o.patches : KnownGroup(o.patches[g], q)
      /\ \A g \in DOMAIN o.addGroups \cup DOMAIN o.newGroups : KnownGroup(q.groups[g], q)
      /\ \A r \in Range(o.prepend \o o.tail) : KnownRule(r, q)
  BY DEF OverlayFits
<1> HIDE DEF q
<1>3. DOMAIN q.groups = DOMAIN o.newGroups \cup DOMAIN o.addGroups \cup DOMAIN p.groups
  BY <1>1 DEF Patched, GroupsBefore
<1>4. Targets(p) \subseteq Targets(q) /\ p.providers \subseteq q.providers /\ p.sets \subseteq q.sets
  BY <1>1, <1>3 DEF Targets
<1>5. ASSUME NEW g \in DOMAIN q.groups PROVE known(q.groups[g])
  <2>1. CASE g \in DOMAIN o.addGroups \cup DOMAIN o.newGroups
    BY <1>2, <2>1 DEF KnownGroup
  <2>2. CASE g \notin DOMAIN o.addGroups \cup DOMAIN o.newGroups
    <3>1. g \in DOMAIN p.groups /\ before[g] = p.groups[g]
      BY <1>3, <2>2 DEF GroupsBefore
    <3>2. known(p.groups[g])
      BY <1>4, <3>1 DEF Sound
    <3>3. CASE g \in DOMAIN o.patches
      <4>1. q.groups[g] = [proxies |-> p.groups[g].proxies \cup o.patches[g].proxies,
                           use |-> p.groups[g].use \cup o.patches[g].use]
        BY <1>1, <3>1, <3>3, ZenonT(60) DEF Patched, GroupsBefore
      <4>2. /\ q.groups[g].proxies = p.groups[g].proxies \cup o.patches[g].proxies
            /\ q.groups[g].use = p.groups[g].use \cup o.patches[g].use
        BY <4>1
      <4> QED BY <1>2, <3>2, <3>3, <4>2, SMTT(30) DEF KnownGroup
    <3>4. CASE g \notin DOMAIN o.patches
      BY <1>1, <3>1, <3>2, <3>4 DEF Patched, GroupsBefore
    <3> QED BY <3>3, <3>4
  <2> QED BY <2>1, <2>2
<1>6. ASSUME NEW r \in Range(q.rules)
      PROVE  r.to \in Targets(q) \cup Builtins /\ r.set \in q.sets \cup {""}
  <2>1. IsList(Body(p.rules)) /\ IsList(Terminal(p.rules)) /\ p.rules = Body(p.rules) \o Terminal(p.rules)
    BY BodyAndTerminal
  <2>2. Range(p.rules) = Range(Body(p.rules)) \cup Range(Terminal(p.rules))
    BY <2>1, Joined
  <2>3. q.rules = o.prepend \o Body(p.rules) \o o.tail \o Terminal(p.rules)
    BY <1>1 DEF OverlaidRules
  <2>4. Range(q.rules) = Range(o.prepend) \cup Range(Body(p.rules)) \cup Range(o.tail)
                         \cup Range(Terminal(p.rules))
    <3>1. IsList(o.prepend \o Body(p.rules)) /\ Range(o.prepend \o Body(p.rules)) =
             Range(o.prepend) \cup Range(Body(p.rules))
      BY <2>1, Joined
    <3>2. IsList(o.prepend \o Body(p.rules) \o o.tail) /\ Range(o.prepend \o Body(p.rules) \o o.tail) =
             Range(o.prepend \o Body(p.rules)) \cup Range(o.tail)
      BY <3>1, Joined
    <3>3. Range(o.prepend \o Body(p.rules) \o o.tail \o Terminal(p.rules)) =
             Range(o.prepend \o Body(p.rules) \o o.tail) \cup Range(Terminal(p.rules))
      BY <2>1, <3>2, Joined
    <3> QED BY <2>3, <3>1, <3>2, <3>3
  <2>5. Range(o.prepend \o o.tail) = Range(o.prepend) \cup Range(o.tail)
    BY Joined
  <2>6. CASE r \in Range(p.rules)
    BY <1>4, <2>6 DEF Sound
  <2>7. CASE r \in Range(o.prepend \o o.tail)
    BY <1>2, <2>7 DEF KnownRule
  <2> QED BY <2>2, <2>4, <2>5, <2>6, <2>7
<1> QED BY <1>5, <1>6 DEF Sound, q

LEMMA CandidateSound ==
  ASSUME NEW s, Candidate(s), Sound(Read(s.in.raw))
  PROVE  Sound(s.profile)
<1> DEFINE p == s.profile
<1>1. \E in, c : /\ in \in Inputs /\ Composable(in.raw, in.overlay, c) /\ s.in = in
                            /\ p.groups = Middle(in).groups /\ p.proxies = Middle(in).proxies
                            /\ p.providers = Middle(in).providers /\ p.sets = Middle(in).sets
                            /\ p.rules = Middle(in).rules
  <2>1. CASE s \in Legacy
    BY <2>1, LegacyFields
  <2>2. CASE Fresh(s)
    <3>1. PICK in, c : /\ in \in Inputs /\ IsDraft(c) /\ Composable(in.raw, in.overlay, c)
                       /\ s = Composed(in, c)
      BY <2>2 DEF Fresh
    <3>0. Composes(in)
      BY <3>1, ComposableComposes
    <3>2. p = WithCustom(Middle(in), c) /\ s.in = in
      BY <3>0, <3>1, FreshFields
    <3>3. CASE c.enabled
      <4>1. p = [proxies |-> Middle(in).proxies, groups |-> Middle(in).groups,
                 providers |-> Middle(in).providers, sets |-> Middle(in).sets,
                 rules |-> Middle(in).rules, dns |-> CustomMerged(Middle(in).dns, c),
                 meta |-> Refreshed(Middle(in).meta, CustomMerged(Middle(in).dns, c), "custom-dns")]
        BY <3>0, <3>1, <3>2, <3>3, MiddleIsProfile, CustomFields
      <4> HIDE DEF p
      <4> QED BY <3>1, <3>2, <4>1
    <3>4. CASE ~c.enabled
      BY <3>1, <3>2, <3>4 DEF WithCustom
    <3> QED BY <3>3, <3>4
  <2> QED BY <2>1, <2>2 DEF Candidate
<1>2. PICK in, c : /\ in \in Inputs /\ Composable(in.raw, in.overlay, c) /\ s.in = in
                              /\ p.groups = Middle(in).groups /\ p.proxies = Middle(in).proxies
                              /\ p.providers = Middle(in).providers /\ p.sets = Middle(in).sets
                              /\ p.rules = Middle(in).rules
  BY <1>1
<1> DEFINE q == Read(in.raw)
           o == in.overlay
<1>3. IsList(q.rules) /\ IsList(o.prepend) /\ IsList(o.tail)
  BY <1>2, PipelineAssumption DEF IsSource, IsOverlay, Read
<1>4. Sound(Middle(in))
  <2>1. CASE o.enabled
    <3>1. OverlayFits(q, o)
      BY <1>2, <2>1 DEF Composable
    <3>2. Sound(Overlaid(q, o))
      BY <1>2, <1>3, <3>1, OverlaidStaysSound
    <3>3. Middle(in) = [proxies |-> q.proxies \cup o.addProxies,
             groups |-> Patched(GroupsBefore(q, o), o.patches),
             providers |-> q.providers \cup o.addProviders, sets |-> q.sets \cup o.addSets,
             rules |-> OverlaidRules(q.rules, o), dns |-> OverlaidDns(q.dns, o.dns),
             meta |-> Refreshed(q.meta, OverlaidDns(q.dns, o.dns), "global-overlay")]
      <4>1. IsProfile(q)
        BY <1>2, ComposableComposes, MiddleIsProfile
      <4>2. Middle(in) = WithOverlay(q, o)
        BY DEF Middle
      <4> HIDE DEF q, o
      <4> QED BY <2>1, <4>1, <4>2, OverlaidFields
    <3>4. /\ Middle(in).groups = Overlaid(q, o).groups /\ Middle(in).proxies = Overlaid(q, o).proxies
          /\ Middle(in).providers = Overlaid(q, o).providers /\ Middle(in).sets = Overlaid(q, o).sets
          /\ Middle(in).rules = Overlaid(q, o).rules
      BY <3>3 DEF Overlaid
    <3> QED BY <3>2, <3>4, SoundByStructure
  <2>2. CASE ~o.enabled
    BY <1>2, <2>2 DEF Middle, WithOverlay
  <2> QED BY <2>1, <2>2
<1> HIDE DEF p
<1>5. Sound(p)
  BY <1>2, <1>4, SoundByStructure
<1> QED BY <1>5 DEF p

(***************************************************************************)
(* A list with every item once: a recursive function is what its equation   *)
(* says when some function satisfies it, which is shown for every prefix.   *)
(***************************************************************************)
KeptStep(list, g, n) == IF n = 0 THEN <<>>
                        ELSE IF list[n] \in Range(g[n - 1]) THEN g[n - 1]
                        ELSE Append(g[n - 1], list[n])

LEMMA KeptExists ==
  ASSUME NEW list, NEW N \in Nat
  PROVE  \A k \in 0..N : \E g : g = [n \in 0..k |-> KeptStep(list, g, n)]
<1> DEFINE P(k) == \E g : g = [n \in 0..k |-> KeptStep(list, g, n)]
           T == {k \in 0..N : ~P(k)}
<1>1. SUFFICES ASSUME T # {} PROVE FALSE
  OBVIOUS
<1>2. PICK k \in T : \A j \in T : k <= j
  <2>1. T \subseteq Nat
    OBVIOUS
  <2> HIDE DEF T
  <2> QED BY <1>1, <2>1, LeastNatural
<1>3. k \in Nat /\ k <= N /\ ~P(k)
  BY <1>2
<1>4. CASE k = 0
  <2> DEFINE g == [n \in 0..0 |-> <<>>]
  <2>1. g = [n \in 0..0 |-> KeptStep(list, g, n)]
    BY DEF KeptStep
  <2> QED BY <1>3, <1>4, <2>1
<1>5. CASE k # 0
  <2>1. P(k - 1)
    <3>1. k - 1 \in 0..N /\ ~(k <= k - 1)
      BY <1>3, <1>5
    <3> HIDE DEF P
    <3> QED BY <1>2, <3>1
  <2>2. PICK g : g = [n \in 0..(k - 1) |-> KeptStep(list, g, n)]
    BY <2>1
  <2> DEFINE h == [n \in 0..k |-> IF n = k THEN KeptStep(list, g, k) ELSE g[n]]
  <2>3. ASSUME NEW n \in 0..k PROVE h[n] = KeptStep(list, h, n)
    <3>1. n > 0 => h[n - 1] = g[n - 1] /\ n - 1 \in 0..(k - 1)
      BY <1>3, <1>5
    <3> HIDE DEF h
    <3>2. KeptStep(list, h, n) = KeptStep(list, g, n)
      BY <1>3, <3>1 DEF KeptStep
    <3>3. CASE n = k
      BY <3>2, <3>3 DEF h
    <3>4. CASE n # k
      <4>1. n \in 0..(k - 1)
        BY <1>3, <3>4
      <4>2. h[n] = g[n]
        BY <3>4 DEF h
      <4>3. g[n] = KeptStep(list, g, n)
        <5>1. [m \in 0..(k - 1) |-> KeptStep(list, g, m)][n] = KeptStep(list, g, n)
          BY <4>1
        <5> QED BY <2>2, <5>1, Zenon
      <4> QED BY <3>2, <4>2, <4>3
    <3> QED BY <3>3, <3>4
  <2>4. DOMAIN h = 0..k /\ h = [n \in 0..k |-> h[n]]
    OBVIOUS
  <2> HIDE DEF h
  <2>5. h = [n \in 0..k |-> KeptStep(list, h, n)]
    BY <2>3, <2>4
  <2> QED BY <1>3, <2>5
<1> QED BY <1>4, <1>5

LEMMA OnceIs ==
  ASSUME NEW list, Len(list) \in Nat
  PROVE  \E g : /\ g = [n \in 0..Len(list) |-> KeptStep(list, g, n)]
                /\ Once(list) = g[Len(list)]
<1> DEFINE kept == CHOOSE g : g = [n \in 0..Len(list) |-> KeptStep(list, g, n)]
<1>1. \E g : g = [n \in 0..Len(list) |-> KeptStep(list, g, n)]
  <2>1. Len(list) \in 0..Len(list)
    OBVIOUS
  <2> QED BY <2>1, KeptExists
<1>2. kept = [n \in 0..Len(list) |-> KeptStep(list, kept, n)]
  BY <1>1, Zenon
<1>3. Once(list) = kept[Len(list)]
  BY DEF Once, KeptStep
<1> QED BY <1>2, <1>3

LEMMA OnceSteps ==
  ASSUME NEW list, IsList(list)
  PROVE  \E g : /\ Once(list) = g[Len(list)] /\ g[0] = <<>>
                /\ \A n \in 0..Len(list) : /\ g[n] \in Seq(Range(list))
                                            /\ Range(g[n]) = {list[i] : i \in 1..n}
                /\ \A n \in 1..Len(list) : g[n] = KeptStep(list, g, n)
<1> DEFINE N == Len(list)
<1>1. N \in Nat /\ DOMAIN list = 1..N /\ list \in [1..N -> Range(list)]
  BY DEF IsList
<1>2. PICK g : g = [n \in 0..N |-> KeptStep(list, g, n)] /\ Once(list) = g[N]
  BY <1>1, OnceIs
<1> HIDE DEF N
<1> DEFINE Q(n) == g[n] \in Seq(Range(list)) /\ Range(g[n]) = {list[i] : i \in 1..n}
           T == {n \in 0..N : ~Q(n)}
<1>3. \A n \in 0..N : g[n] = KeptStep(list, g, n)
  <2> TAKE n \in 0..N
  <2>1. [m \in 0..N |-> KeptStep(list, g, m)][n] = KeptStep(list, g, n)
    OBVIOUS
  <2> QED BY <1>2, <2>1, Zenon
<1>4. Q(0)
  <2>1. g[0] = <<>>
    BY <1>1, <1>3 DEF KeptStep
  <2> QED BY <2>1 DEF Range
<1>5. ASSUME NEW n \in 1..N, Q(n - 1) PROVE Q(n)
  <2>1. g[n] = IF list[n] \in Range(g[n - 1]) THEN g[n - 1] ELSE Append(g[n - 1], list[n])
    BY <1>1, <1>3 DEF KeptStep
  <2>2. {list[i] : i \in 1..n} = {list[i] : i \in 1..(n - 1)} \cup {list[n]}
    BY <1>1
  <2>3. list[n] \in Range(list)
    BY <1>1 DEF Range
  <2>4. CASE list[n] \in Range(g[n - 1])
    BY <1>5, <2>1, <2>2, <2>4
  <2>5. CASE list[n] \notin Range(g[n - 1])
    <3> DEFINE a == g[n - 1]
    <3>1. a \in Seq(Range(list)) /\ g[n] = Append(a, list[n])
      BY <1>5, <2>1, <2>5
    <3> HIDE DEF a
    <3>2. /\ Append(a, list[n]) \in Seq(Range(list)) /\ DOMAIN Append(a, list[n]) = 1..(Len(a) + 1)
          /\ Append(a, list[n])[Len(a) + 1] = list[n] /\ DOMAIN a = 1..Len(a) /\ Len(a) \in Nat
          /\ \A i \in 1..Len(a) : Append(a, list[n])[i] = a[i]
      BY <2>3, <3>1
    <3>3. Range(Append(a, list[n])) = Range(a) \cup {list[n]}
      <4>1. \A i \in DOMAIN a : i \in DOMAIN Append(a, list[n]) /\ Append(a, list[n])[i] = a[i]
        BY <3>2
      <4>2. \A i \in DOMAIN Append(a, list[n]) : i \in DOMAIN a \/ i = Len(a) + 1
        BY <3>2
      <4>3. Len(a) + 1 \in DOMAIN Append(a, list[n])
        BY <3>2
      <4> HIDE DEF a
      <4>4. \A v : v \in Range(Append(a, list[n])) => v \in Range(a) \cup {list[n]}
        BY <3>2, <4>1, <4>2 DEF Range
      <4>5. \A v : v \in Range(a) \cup {list[n]} => v \in Range(Append(a, list[n]))
        BY <3>2, <4>1, <4>3 DEF Range
      <4> QED BY <4>4, <4>5
    <3> QED BY <1>5, <2>2, <3>1, <3>2, <3>3 DEF a
  <2> QED BY <2>4, <2>5
<1>6. T = {}
  <2>1. SUFFICES ASSUME T # {} PROVE FALSE
    OBVIOUS
  <2>2. T \subseteq Nat
    BY <1>1
  <2>3. PICK n \in T : \A j \in T : n <= j
    <3> HIDE DEF T
    <3> QED BY <2>1, <2>2, LeastNatural
  <2> HIDE DEF Q
  <2>4. n \in 0..N /\ ~Q(n) /\ n # 0
    BY <1>4, <2>3
  <2>5. n \in 1..N /\ n - 1 \in 0..N /\ ~(n <= n - 1)
    BY <1>1, <2>4
  <2>6. Q(n - 1)
    BY <2>3, <2>5
  <2> QED BY <1>5, <2>4, <2>5, <2>6
<1>7. \A n \in 0..N : Q(n)
  <2> HIDE DEF Q
  <2> QED BY <1>6
<1>8. g[0] = <<>>
  BY <1>1, <1>3 DEF KeptStep
<1>9. \A n \in 1..N : g[n] = KeptStep(list, g, n)
  BY <1>1, <1>3
<1> HIDE DEF T
<1> QED BY <1>2, <1>7, <1>8, <1>9 DEF N

LEMMA OnceHasAll ==
  ASSUME NEW list, IsList(list)
  PROVE  IsList(Once(list)) /\ Range(Once(list)) = Range(list)
<1>1. Len(list) \in Nat /\ DOMAIN list = 1..Len(list)
  BY DEF IsList
<1>2. Once(list) \in Seq(Range(list)) /\ Range(Once(list)) = {list[i] : i \in 1..Len(list)}
  <2>1. Len(list) \in 0..Len(list)
    BY <1>1
  <2> QED BY <2>1, OnceSteps
<1>3. Range(list) = {list[i] : i \in 1..Len(list)}
  BY <1>1 DEF Range
<1> QED BY <1>2, <1>3 DEF IsList

Prefix(list, n) == [i \in 1..n |-> list[i]]

LEMMA PrefixGrows ==
  ASSUME NEW list, IsList(list), NEW n \in 1..Len(list)
  PROVE  /\ IsList(Prefix(list, n - 1)) /\ IsList(<<list[n]>>)
         /\ Prefix(list, n) = Prefix(list, n - 1) \o <<list[n]>>
         /\ Prefix(list, 0) = <<>> /\ Prefix(list, Len(list)) = list
<1> DEFINE S == Range(list)
           a == Prefix(list, n - 1)
           b == <<list[n]>>
           c == Prefix(list, n)
<1>1. /\ Len(list) \in Nat /\ list \in [1..Len(list) -> S] /\ \A i \in 1..Len(list) : list[i] \in S
      /\ n \in Nat /\ n - 1 \in Nat
  BY DEF IsList, Range
<1>2. /\ a \in Seq(S) /\ Len(a) = n - 1 /\ \A i \in 1..(n - 1) : a[i] = list[i]
      /\ c \in Seq(S) /\ Len(c) = n /\ \A i \in 1..n : c[i] = list[i]
  BY <1>1 DEF Prefix
<1>3. b \in Seq(S) /\ Len(b) = 1 /\ b[1] = list[n]
  BY <1>1
<1>4. IsList(a) /\ IsList(b)
  <2>1. \A q \in Seq(S) : q \in Seq(Range(q))
    BY DEF Range
  <2> HIDE DEF a, b
  <2> QED BY <1>2, <1>3, <2>1 DEF IsList
<1>5. Prefix(list, 0) = <<>> /\ Prefix(list, Len(list)) = list
  BY <1>1 DEF Prefix
<1> HIDE DEF a, b, c, S
<1>6. /\ a \o b \in Seq(S) /\ Len(a \o b) = Len(a) + Len(b)
      /\ \A i \in 1..(Len(a) + Len(b)) : (a \o b)[i] = IF i <= Len(a) THEN a[i] ELSE b[i - Len(a)]
  BY <1>2, <1>3, ConcatProperties
<1>7. ASSUME NEW i \in 1..n PROVE (a \o b)[i] = c[i]
  <2>1. CASE i = n
    BY <1>1, <1>2, <1>3, <1>6, <2>1
  <2>2. CASE i # n
    BY <1>1, <1>2, <1>3, <1>6, <2>2
  <2> QED BY <2>1, <2>2
<1>8. Len(a \o b) = n
  BY <1>1, <1>2, <1>3, <1>6
<1>9. a \o b = c
  BY <1>2, <1>6, <1>7, <1>8, SeqEqual
<1> QED BY <1>4, <1>5, <1>9 DEF a, b, c

\* A list decides when it has an item that does.
LEMMA DecidesSome ==
  ASSUME NEW list, IsList(list), NEW M
  PROVE  Decides(list, M) # <<>> <=> \E x \in Range(list) : x.match \/ x \in M
<1>1. Hits(list, M) # {} <=> \E x \in Range(list) : x.match \/ x \in M
  BY DEF Hits, Range
<1>2. Hits(list, M) = {} => Decides(list, M) = <<>>
  BY FirstIsLeast
<1>3. Hits(list, M) # {} => Decides(list, M) = <<list[FirstHit(list, M)]>>
  BY FirstIsLeast
<1>4. \A x : <<x>> # <<>>
  OBVIOUS
<1> QED BY <1>1, <1>2, <1>3, <1>4

\* Leaving out what came before changes no decision.
LEMMA DecidesOnce ==
  ASSUME NEW list, IsList(list), NEW M
  PROVE  Decides(Once(list), M) = Decides(list, M)
<1> DEFINE N == Len(list)
<1>1. N \in Nat /\ DOMAIN list = 1..N
  BY DEF IsList
<1>2. PICK g : /\ Once(list) = g[N] /\ g[0] = <<>>
               /\ \A n \in 0..N : g[n] \in Seq(Range(list)) /\ Range(g[n]) = {list[i] : i \in 1..n}
               /\ \A n \in 1..N : g[n] = KeptStep(list, g, n)
  BY OnceSteps
<1> HIDE DEF N
<1> DEFINE Q(n) == Decides(g[n], M) = Decides(Prefix(list, n), M)
           T == {n \in 0..N : ~Q(n)}
<1>3. Q(0)
  <2>1. Prefix(list, 0) = <<>>
    BY DEF Prefix
  <2> QED BY <1>2, <2>1
<1>4. ASSUME NEW n \in 1..N, Q(n - 1) PROVE Q(n)
  <2> DEFINE a == g[n - 1]
             p == Prefix(list, n - 1)
             x == list[n]
  <2>1. /\ IsList(p) /\ IsList(<<x>>) /\ Prefix(list, n) = p \o <<x>>
    BY PrefixGrows DEF N
  <2>2. IsList(a)
    <3>1. n - 1 \in 0..N
      BY <1>1
    <3>2. a \in Seq(Range(list))
      BY <1>2, <3>1
    <3>3. \A q \in Seq(Range(list)) : q \in Seq(Range(q))
      BY DEF Range
    <3> HIDE DEF a
    <3> QED BY <3>2, <3>3 DEF IsList
  <2>3. g[n] = IF x \in Range(a) THEN a ELSE Append(a, x)
    BY <1>1, <1>2 DEF KeptStep
  <2>4. Decides(p, M) = Decides(a, M)
    BY <1>4
  <2> HIDE DEF a, p, x
  <2>5. Decides(p \o <<x>>, M) = IF Decides(p, M) # <<>> THEN Decides(p, M) ELSE Decides(<<x>>, M)
    BY <2>1, DecidesJoined
  <2>6. CASE x \in Range(a)
    <3>1. Decides(<<x>>, M) # <<>> => x.match \/ x \in M
      <4>1. Range(<<x>>) = {x}
        BY DEF Range
      <4>2. Decides(<<x>>, M) # <<>> <=> \E y \in Range(<<x>>) : y.match \/ y \in M
        BY <2>1, DecidesSome
      <4> QED BY <4>1, <4>2
    <3>2. Decides(<<x>>, M) # <<>> => Decides(a, M) # <<>>
      BY <2>2, <2>6, <3>1, DecidesSome
    <3>3. g[n] = a
      BY <2>3, <2>6
    <3> QED BY <2>1, <2>4, <2>5, <3>2, <3>3
  <2>7. CASE x \notin Range(a)
    <3>1. Append(a, x) = a \o <<x>>
      <4>1. a \in Seq(Range(a) \cup {x}) /\ x \in Range(a) \cup {x}
        BY <2>2 DEF IsList
      <4> QED BY <4>1, SMTT(30)
    <3>2. Decides(a \o <<x>>, M) = IF Decides(a, M) # <<>> THEN Decides(a, M) ELSE Decides(<<x>>, M)
      BY <2>1, <2>2, DecidesJoined
    <3> QED BY <2>1, <2>3, <2>4, <2>5, <2>7, <3>1, <3>2
  <2> QED BY <2>6, <2>7
<1>5. T = {}
  <2>1. SUFFICES ASSUME T # {} PROVE FALSE
    OBVIOUS
  <2>2. T \subseteq Nat
    BY <1>1
  <2>3. PICK n \in T : \A j \in T : n <= j
    <3> HIDE DEF T
    <3> QED BY <2>1, <2>2, LeastNatural
  <2> HIDE DEF Q
  <2>4. n \in 0..N /\ ~Q(n) /\ n # 0
    BY <1>3, <2>3
  <2>5. n \in 1..N /\ n - 1 \in 0..N /\ ~(n <= n - 1)
    BY <1>1, <2>4
  <2>6. Q(n - 1)
    BY <2>3, <2>5
  <2> QED BY <1>4, <2>4, <2>5, <2>6
<1>6. Q(N)
  <2> HIDE DEF Q
  <2> QED BY <1>1, <1>5
<1>7. Prefix(list, N) = list
  <2>1. list \in [1..N -> Range(list)]
    BY <1>1 DEF IsList, N
  <2> QED BY <2>1 DEF Prefix
<1> QED BY <1>2, <1>6, <1>7

(***************************************************************************)
(* The draft wins.                                                         *)
(***************************************************************************)
LEMMA SequenceOfSet ==
  ASSUME NEW S, IsFiniteSet(S)
  PROVE  SetToSeq(S) \in [1..Cardinality(S) -> S] /\ Cardinality(S) \in Nat
<1>1. Cardinality(S) \in Nat
  BY FS_CardinalityType
<1>2. \E f \in [1..Cardinality(S) -> S] : IsInjective(f)
  BY FS_CardinalityType DEF ExistsBijection, Bijection, Injection
<1>3. SetToSeq(S) \in [1..Cardinality(S) -> S]
  BY <1>2 DEF SetToSeq
<1> QED BY <1>1, <1>3

LEMMA PrivateIsList ==
  ASSUME NEW n, IsNet(n), NEW dns
  PROVE  IsList(PrivateFilter(n, dns))
<1> DEFINE all == SetToSeq(PrivateDomains(n))
           S == PrivateDomains(n)
           item(i) == [kind |-> IF dns.mode = "rule" THEN "rule" ELSE "domain",
                       match |-> FALSE, id |-> all[i]]
           f == [i \in DOMAIN all |-> item(i)]
<1>1. IsFiniteSet(S)
  <2> DEFINE D == ({<<"lan">>} \cup n.private \cup {n.domain}) \ {<<>>, <<"local">>}
  <2>1. IsFiniteSet(n.private)
    BY DEF IsNet
  <2>2. IsFiniteSet({<<"lan">>}) /\ IsFiniteSet({n.domain})
    BY FS_Singleton
  <2>3. IsFiniteSet({<<"lan">>} \cup n.private)
    BY <2>1, <2>2, FS_Union
  <2>4. IsFiniteSet({<<"lan">>} \cup n.private \cup {n.domain})
    BY <2>2, <2>3, FS_Union
  <2>5. IsFiniteSet(D)
    BY <2>4, FS_Subset
  <2>6. S = {[kind |-> "plus", labels |-> d] : d \in D}
    BY DEF PrivateDomains
  <2> DEFINE F == [d \in D |-> [kind |-> "plus", labels |-> d]]
  <2>7. F \in Surjection(D, S)
    <3> HIDE DEF D
    <3> QED BY <2>6 DEF Surjection
  <2> HIDE DEF D, S, F
  <2> QED BY <2>5, <2>7, FS_Surjection
<1> HIDE DEF S
<1>2. all \in [1..Cardinality(S) -> S] /\ Cardinality(S) \in Nat
  BY <1>1, SequenceOfSet DEF S
<1>3. DOMAIN all = 1..Cardinality(S)
  BY <1>2
<1> HIDE DEF all, item
<1>4. f \in Seq(Range(f))
  <2>1. f = [i \in 1..Cardinality(S) |-> item(i)] /\ \A i \in 1..Cardinality(S) : item(i) \in Range(f)
    BY <1>3 DEF Range
  <2> HIDE DEF f
  <2> QED BY <1>2, <2>1
<1>5. <<>> \in Seq(Range(<<>>))
  OBVIOUS
<1>6. PrivateFilter(n, dns) = IF dns.mode = "whitelist" THEN <<>> ELSE f
  BY DEF PrivateFilter, all, item, S
<1> QED BY <1>4, <1>5, <1>6 DEF IsList

LEMMA MiddleKeeps ==
  ASSUME NEW in \in Inputs, Composes(in)
  PROVE  LET raw == in.raw.dns
             o == in.overlay.dns
             m == Middle(in).dns
         IN  /\ IsFilter(m.filter)
             /\ Read(in.raw).dns = Retained(raw, Default)
             /\ m = IF in.overlay.enabled THEN OverlaidDns(Read(in.raw).dns, o)
                    ELSE Read(in.raw).dns
             /\ m.hosts = raw.hosts
             /\ m.respect = IF in.overlay.enabled THEN Said(o.respect, raw.respect) ELSE raw.respect
             /\ m.mode = IF in.overlay.enabled THEN Said(o.mode, raw.mode) ELSE raw.mode
<1> DEFINE d == in.raw.dns
           r == Retained(d, Default)
           o == in.overlay.dns
<1>1. IsDns(d) /\ d \in Fields(d) /\ IsFilter(d.filter)
  BY PipelineAssumption DEF IsSource, IsDns
<1>2. r.filter = d.filter /\ r.hosts = d.hosts /\ r.respect = d.respect /\ r.mode = d.mode
  <2> DEFINE res == IF <<"ns">> \in DOMAIN d.res THEN d.res
                    ELSE Before([f \in {<<"ns">>} |-> <<Default>>], d.res)
  <2>1. r = [d EXCEPT !.res = res]
    BY Zenon DEF Retained
  <2> HIDE DEF res, d
  <2>2. [d EXCEPT !.res = res] = [res |-> res, respect |-> d.respect, mode |-> d.mode,
           filter |-> d.filter, useHosts |-> d.useHosts, hosts |-> d.hosts]
    BY <1>1, FieldUpdated
  <2> QED BY <2>1, <2>2 DEF d
<1>3. Read(in.raw).dns = r
  BY DEF Read
<1>4. IsOverlay(in.overlay) /\ (in.overlay.enabled => OverlayDnsFits(r, o))
  BY <1>3, PipelineAssumption DEF Composes
<1> HIDE DEF r, d, o
<1> DEFINE old == IF o.filter = <<>> THEN r.filter ELSE o.filter[1]
           filter == IF o.more = <<>> THEN old ELSE old \o o.more
           v == OverlaidDns(r, o)
<1>5. /\ v.hosts = r.hosts /\ v.respect = Said(o.respect, r.respect)
      /\ v.mode = Said(o.mode, r.mode) /\ v.filter = filter
  <2> DEFINE merged == Before(o.res, r.res)
             res == [f \in DOMAIN merged \cup DOMAIN o.append |->
                       IF f \notin DOMAIN o.append THEN merged[f]
                       ELSE IF f \notin DOMAIN merged THEN o.append[f] ELSE merged[f] \o o.append[f]]
             use == IF o.useHosts = "" THEN r.useHosts ELSE o.useHosts = "true"
  <2>1. v = [hosts |-> r.hosts, respect |-> Said(o.respect, r.respect),
             mode |-> Said(o.mode, r.mode), useHosts |-> use, filter |-> filter, res |-> res]
    BY Zenon DEF OverlaidDns
  <2> HIDE DEF use, res, filter, v
  <2> QED BY <2>1
<1>6. ASSUME in.overlay.enabled PROVE IsFilter(filter)
  <2>1. /\ o.more # <<>> => Listed(old)
    BY <1>4, <1>6 DEF OverlayDnsFits
  <2>2. IsList(o.more) /\ (o.filter # <<>> => IsFilter(o.filter[1]))
    BY <1>4 DEF IsOverlay, o
  <2>3. IsFilter(old)
    BY <1>1, <1>2, <2>2
  <2> HIDE DEF old
  <2>4. o.more # <<>> => IsList(old \o o.more)
    BY <2>1, <2>2, <2>3, Joined DEF IsFilter
  <2> QED BY <2>3, <2>4 DEF IsFilter
<1> HIDE DEF v, filter
<1>7. Middle(in).dns = IF in.overlay.enabled THEN v ELSE r
  <2>1. CASE in.overlay.enabled
    <3>1. WithOverlay(Read(in.raw), in.overlay).dns = OverlaidDns(Read(in.raw).dns, in.overlay.dns)
      BY <2>1, MiddleIsProfile, OverlaidFields
    <3> QED BY <1>3, <2>1, <3>1 DEF Middle, o, v
  <2>2. CASE ~in.overlay.enabled
    BY <1>3, <2>2 DEF Middle, WithOverlay
  <2> QED BY <2>1, <2>2
<1>8. CASE in.overlay.enabled
  BY <1>2, <1>3, <1>5, <1>6, <1>7, <1>8 DEF r, d, o, v
<1>9. CASE ~in.overlay.enabled
  BY <1>1, <1>2, <1>3, <1>7, <1>9 DEF r, d, o
<1> QED BY <1>8, <1>9

\* A profile composed with a draft that is on.
LEMMA DraftedProfile ==
  ASSUME NEW s, Candidate(s), s.custom.enabled
  PROVE  LET c == s.custom
             m == Middle(s.in).dns
             d == s.profile.dns
         IN  /\ s.in \in Inputs /\ Composes(s.in) /\ IsDraft(c) /\ CustomFits(m, c)
             /\ IsProfile(s.profile)
             /\ d.hosts = Before(c.hosts, m.hosts) /\ d.res = Before(c.res, m.res)
             /\ d.filter = IF c.filter = <<>> THEN m.filter ELSE MergedFilter(m, c)
             /\ d.respect = Said(c.respect, m.respect) /\ d.mode = NextMode(m, c)
             /\ c.hosts # <<>> => d.useHosts
<1> DEFINE c == s.custom
           p == s.profile
<1>1. Fresh(s)
  BY LegacyFields, PipelineAssumption DEF Candidate
<1>2. PICK in : /\ in \in Inputs /\ IsDraft(c) /\ Composes(in) /\ s = Composed(in, c) /\ s.in = in
                /\ Composable(in.raw, in.overlay, c)
  <2>1. PICK in, k : /\ in \in Inputs /\ IsDraft(k) /\ Composes(in) /\ s = Composed(in, k)
                     /\ Composable(in.raw, in.overlay, k)
    BY <1>1, ComposableComposes DEF Fresh
  <2>2. s.custom = k /\ s.in = in
    BY <2>1, FreshFields
  <2> QED BY <2>1, <2>2
<1> DEFINE m == Middle(in).dns
<1>3. p = WithCustom(Middle(in), c) /\ IsProfile(p)
  BY <1>2, FreshFields
<1>4. CustomFits(m, c)
  BY <1>2 DEF Composable, Middle
<1>5. p.dns = CustomMerged(m, c)
  BY <1>2, <1>3, MiddleIsProfile, CustomFields
<1>6. /\ p.dns.hosts = Before(c.hosts, m.hosts) /\ p.dns.res = Before(c.res, m.res)
      /\ p.dns.filter = IF c.filter = <<>> THEN m.filter ELSE MergedFilter(m, c)
      /\ p.dns.respect = Said(c.respect, m.respect) /\ p.dns.mode = NextMode(m, c)
      /\ c.hosts # <<>> => p.dns.useHosts
  <2> DEFINE use == IF c.hosts # <<>> THEN TRUE
                    ELSE IF c.useHosts = "" THEN m.useHosts ELSE c.useHosts = "true"
             filter == IF c.filter = <<>> THEN m.filter ELSE MergedFilter(m, c)
  <2>1. p.dns = [hosts |-> Before(c.hosts, m.hosts), res |-> Before(c.res, m.res),
                 respect |-> Said(c.respect, m.respect), mode |-> NextMode(m, c),
                 filter |-> filter, useHosts |-> use]
    BY <1>5 DEF CustomMerged
  <2> HIDE DEF p, use, filter
  <2>2. /\ p.dns.hosts = Before(c.hosts, m.hosts) /\ p.dns.res = Before(c.res, m.res)
        /\ p.dns.filter = filter /\ p.dns.useHosts = use
        /\ p.dns.respect = Said(c.respect, m.respect) /\ p.dns.mode = NextMode(m, c)
    BY <2>1
  <2>3. c.hosts # <<>> => use
    BY DEF use
  <2> QED BY <2>2, <2>3 DEF filter
<1> HIDE DEF c, m, p
<1> QED BY <1>2, <1>3, <1>4, <1>6 DEF c, m, p

LEMMA CustomWinsHere ==
  ASSUME NEW n, NEW s, Candidate(s), Runnable(n, s), s.custom.enabled, NEW e \in Engines(n, s)
  PROVE  LET c == s.custom
             raw == s.in.raw.dns
             over == s.in.overlay.enabled
             o == s.in.overlay.dns
         IN  /\ \A p \in DOMAIN c.hosts : e.dns.hosts[p] = c.hosts[p]
             /\ \A x \in Slots(c) : x \in e.self \/ TargetAt(e.dns, x) = TargetAt(c, x)
             /\ c.hosts # <<>> => e.dns.useHosts
             /\ e.dns.respect =
                    Said(c.respect, IF over THEN Said(o.respect, raw.respect) ELSE raw.respect)
             /\ e.dns.mode =
                    Said(c.mode, IF over THEN Said(o.mode, raw.mode) ELSE raw.mode)
<1> DEFINE c == s.custom
           p == s.profile
           d == Dns(n, s)
           m == Middle(s.in).dns
<1>1. /\ IsProfile(p) /\ s.in \in Inputs /\ Composes(s.in)
      /\ p.dns.hosts = Before(c.hosts, m.hosts) /\ p.dns.res = Before(c.res, m.res)
      /\ p.dns.respect = Said(c.respect, m.respect) /\ p.dns.mode = NextMode(m, c)
      /\ c.hosts # <<>> => p.dns.useHosts
  BY DraftedProfile
<1>2. /\ \A x \in Slots(p.dns) : x \in Slots(d) /\ TargetAt(d, x) = TargetAt(p.dns, x)
      /\ d.hosts = p.dns.hosts /\ d.useHosts = p.dns.useHosts
      /\ d.respect = p.dns.respect /\ d.mode = p.dns.mode
  BY <1>1, CoordinatedSlots DEF Dns, Runnable, IsProfile
<1>3. PICK name \in {"formal", "own-probe"} : Serves(e, n, s, EndpointOf(e), name)
  BY EnginesServe
<1>4. /\ \A x \in Slots(d) : x \in e.self \/ TargetAt(e.dns, x) = TargetAt(d, x)
      /\ e.dns.hosts = d.hosts /\ e.dns.useHosts = d.useHosts
      /\ e.dns.respect = d.respect /\ e.dns.mode = d.mode
  BY <1>3 DEF Serves
<1>5. /\ m.respect = IF s.in.overlay.enabled THEN Said(s.in.overlay.dns.respect, s.in.raw.dns.respect)
                     ELSE s.in.raw.dns.respect
      /\ m.mode = IF s.in.overlay.enabled THEN Said(s.in.overlay.dns.mode, s.in.raw.dns.mode)
                  ELSE s.in.raw.dns.mode
  BY <1>1, MiddleKeeps
<1> HIDE DEF c, d, m, p
<1>6. \A q \in DOMAIN c.hosts : e.dns.hosts[q] = c.hosts[q]
  BY <1>1, <1>2, <1>4 DEF Before
<1>7. ASSUME NEW x \in Slots(c) PROVE x \in e.self \/ TargetAt(e.dns, x) = TargetAt(c, x)
  <2>1. x = <<x[1], x[2]>> /\ x[1] \in DOMAIN c.res /\ x[2] \in DOMAIN c.res[x[1]]
    BY SlotIsPair
  <2>2. <<x[1], x[2]>> \in Slots(p.dns) /\ TargetAt(p.dns, <<x[1], x[2]>>) = c.res[x[1]][x[2]]
    BY <1>1, <2>1, SlotsBefore
  <2>3. x \in Slots(p.dns) /\ TargetAt(p.dns, x) = TargetAt(c, x)
    BY <2>1, <2>2, Zenon DEF TargetAt
  <2> QED BY <1>2, <1>4, <2>3
<1>8. c.hosts # <<>> => e.dns.useHosts
  BY <1>1, <1>2, <1>4
<1>9. e.dns.respect = Said(c.respect, m.respect) /\ e.dns.mode = Said(c.mode, m.mode)
  BY <1>1, <1>2, <1>4 DEF NextMode
<1> QED BY <1>5, <1>6, <1>7, <1>8, <1>9, Zenon DEF c

\* What the host puts before the filter of a profile.
HostItems(n, dns) == IF Uncoordinated(n) THEN <<>> ELSE PrivateFilter(n, dns)

LEMMA CoordinatedFilter ==
  ASSUME NEW n, IsNet(n), NEW d, IsDns(d), IsList(d.filter)
  PROVE  /\ Coordinated(n, d).filter = HostItems(n, d) \o d.filter
         /\ IsList(HostItems(n, d))
<1>1. IsList(HostItems(n, d))
  <2>1. IsList(<<>>)
    BY DEF IsList
  <2> QED BY <2>1, PrivateIsList DEF HostItems
<1>2. CASE Uncoordinated(n)
  <2>1. <<>> \o d.filter = d.filter
    BY DEF IsList
  <2> QED BY <1>1, <1>2, <2>1 DEF Coordinated, HostItems
<1>3. CASE ~Uncoordinated(n)
  <2> DEFINE own == [f \in {<<"pol", q>> : q \in PrivateDomains(n)} |-> Resolvers(n)]
             res == Before(d.res, own)
             filter == PrivateFilter(n, d) \o d.filter
  <2>1. Coordinated(n, d) = [d EXCEPT !.res = res, !.filter = filter]
    BY <1>3, Zenon DEF Coordinated
  <2> HIDE DEF res, filter
  <2>2. [d EXCEPT !.res = res, !.filter = filter] =
               [res |-> res, respect |-> d.respect, mode |-> d.mode,
                filter |-> filter, useHosts |-> d.useHosts, hosts |-> d.hosts]
    BY FieldsUpdated DEF IsDns
  <2>3. Coordinated(n, d).filter = filter
    BY <2>1, <2>2
  <2> QED BY <1>1, <1>3, <2>3 DEF HostItems, filter
<1> QED BY <1>1, <1>2, <1>3

\* The draft's filter in the DNS fields it is merged into.
LEMMA DraftInFilter ==
  ASSUME NEW m, IsFilter(m.filter), NEW c, c.filter # <<>>, IsList(c.filter[1]), FilterFits(m, c)
  PROVE  LET list == c.filter[1]
             merged == MergedFilter(m, c)
             rest == IF NextMode(m, c) = m.mode THEN m.filter ELSE <<>>
         IN  /\ IsList(merged) /\ Range(list) \subseteq Range(merged)
             /\ NextMode(m, c) = "rule" => \A M : Decides(merged, M) =
                    IF Decides(list, M) # <<>> THEN Decides(list, M) ELSE Decides(rest, M)
<1> DEFINE list == c.filter[1]
           merged == MergedFilter(m, c)
<1>1. CASE NextMode(m, c) # m.mode
  <2>1. merged = list
    BY <1>1 DEF MergedFilter
  <2>2. \A M : Decides(<<>>, M) = <<>>
    BY DEF Decides
  <2> HIDE DEF merged, list
  <2> QED BY <1>1, <2>1, <2>2 DEF merged, list
<1>2. CASE NextMode(m, c) = m.mode
  <2>1. IsList(m.filter) /\ IsList(list)
    BY <1>2 DEF FilterFits, IsFilter
  <2>2. merged = IF m.mode = "rule" THEN Once(list \o m.filter) ELSE Once(m.filter \o list)
    BY <1>2 DEF MergedFilter
  <2> HIDE DEF merged, list
  <2>3. /\ IsList(list \o m.filter) /\ Range(list) \subseteq Range(list \o m.filter)
        /\ IsList(m.filter \o list) /\ Range(list) \subseteq Range(m.filter \o list)
    BY <2>1, Joined
  <2>4. /\ IsList(Once(list \o m.filter)) /\ Range(list) \subseteq Range(Once(list \o m.filter))
        /\ IsList(Once(m.filter \o list)) /\ Range(list) \subseteq Range(Once(m.filter \o list))
    BY <2>3, OnceHasAll
  <2>5. ASSUME m.mode = "rule", NEW M
        PROVE  Decides(merged, M) =
                  IF Decides(list, M) # <<>> THEN Decides(list, M) ELSE Decides(m.filter, M)
    BY <2>1, <2>2, <2>3, <2>5, DecidesOnce, DecidesJoined
  <2> QED BY <1>2, <2>2, <2>4, <2>5 DEF merged, list
<1> QED BY <1>1, <1>2

LEMMA FilterHere ==
  ASSUME NEW n, NEW s, Candidate(s), Runnable(n, s), s.custom.enabled, s.custom.filter # <<>>,
         NEW e \in Engines(n, s)
  PROVE  LET c == s.custom
             list == c.filter[1]
             filter == e.dns.filter
             m == Middle(s.in).dns
             host == HostItems(n, e.dns)
             rest == IF NextMode(m, c) = m.mode THEN m.filter ELSE <<>>
         IN  /\ Range(list) \subseteq Range(filter)
             /\ e.dns.mode = "rule" => \A M : Decides(filter, M) =
                    IF Decides(host, M) # <<>> THEN Decides(host, M)
                    ELSE IF Decides(list, M) # <<>> THEN Decides(list, M)
                    ELSE Decides(rest, M)
<1> DEFINE c == s.custom
           d == s.profile.dns
           m == Middle(s.in).dns
           list == c.filter[1]
           host == HostItems(n, e.dns)
<1>1. /\ s.in \in Inputs /\ Composes(s.in) /\ IsDraft(c) /\ FilterFits(m, c) /\ IsProfile(s.profile)
      /\ d.filter = MergedFilter(m, c) /\ d.mode = NextMode(m, c)
  BY DraftedProfile DEF CustomFits
<1>2. IsFilter(m.filter) /\ IsList(list)
  BY <1>1, MiddleKeeps DEF IsDraft
<1>3. /\ IsList(d.filter) /\ Range(list) \subseteq Range(d.filter)
      /\ NextMode(m, c) = "rule" => \A M : Decides(d.filter, M) =
             IF Decides(list, M) # <<>> THEN Decides(list, M)
             ELSE Decides(IF NextMode(m, c) = m.mode THEN m.filter ELSE <<>>, M)
  BY <1>1, <1>2, DraftInFilter
<1>4. IsDns(d) /\ IsNet(n)
  BY <1>1 DEF IsProfile, Runnable
<1>5. PICK name \in {"formal", "own-probe"} : Serves(e, n, s, EndpointOf(e), name)
  BY EnginesServe
<1>6. e.dns.filter = Coordinated(n, d).filter /\ e.dns.mode = Coordinated(n, d).mode
  BY <1>5 DEF Serves, Dns
<1>7. Coordinated(n, d).mode = d.mode
  BY <1>4, CoordinatedSlots
<1>8. HostItems(n, e.dns) = HostItems(n, d)
  BY <1>6, <1>7 DEF HostItems, PrivateFilter
<1> HIDE DEF c, d, m, list
<1>9. e.dns.filter = host \o d.filter /\ IsList(host)
  BY <1>3, <1>4, <1>6, <1>8, CoordinatedFilter
<1> HIDE DEF host
<1>10. Range(list) \subseteq Range(e.dns.filter)
  BY <1>3, <1>9, Joined
<1>11. \A M : Decides(e.dns.filter, M) =
           IF Decides(host, M) # <<>> THEN Decides(host, M) ELSE Decides(d.filter, M)
  BY <1>3, <1>9, DecidesJoined
<1> QED BY <1>1, <1>3, <1>6, <1>7, <1>10, <1>11 DEF c, m, list, host

(***************************************************************************)
(* The reported origins.                                                   *)
(***************************************************************************)
Describes(o, d) == /\ DOMAIN o = Slots(d)
                   /\ \A x \in Slots(d) : o[x].target = TargetAt(d, x)

Same(a, b, x) == x \in Slots(a) \cap Slots(b) /\ TargetAt(a, x) = TargetAt(b, x)

LEMMA RefreshedDescribe ==
  ASSUME NEW o, NEW a, Describes(o, a), NEW b, NEW layer
  PROVE  LET r == RefreshedOrigins(o, b, layer)
         IN  /\ Describes(r, b)
             /\ \A x \in Slots(b) : r[x].layer = IF Same(a, b, x) THEN o[x].layer ELSE layer
BY DEF Describes, Same, RefreshedOrigins

LEMMA FirstDescribe ==
  ASSUME NEW d, NEW layer
  PROVE  LET r == RefreshedOrigins(<<>>, d, layer)
         IN  Describes(r, d) /\ \A x \in Slots(d) : r[x].layer = layer
BY DEF Describes, RefreshedOrigins

\* Who decided each target, by the last layer that changed it.
LastLayer(raw, retained, mid, last, x) ==
    IF ~Same(mid, last, x) THEN "custom-dns"
    ELSE IF ~Same(retained, mid, x) THEN "global-overlay"
    ELSE IF x \in Slots(raw) THEN "subscription" ELSE "managed"

LEMMA RetainedKeeps ==
  ASSUME NEW d, IsDns(d)
  PROVE  \A x \in Slots(d) : Same(d, Retained(d, Default), x)
<1> DEFINE res == IF <<"ns">> \in DOMAIN d.res THEN d.res
                  ELSE Before([f \in {<<"ns">>} |-> <<Default>>], d.res)
           r == Retained(d, Default)
<1>1. r = [d EXCEPT !.res = res]
  BY Zenon DEF Retained
<1>2. r.res = res
  <2> HIDE DEF res, r
  <2>1. [d EXCEPT !.res = res] = [res |-> res, respect |-> d.respect, mode |-> d.mode,
           filter |-> d.filter, useHosts |-> d.useHosts, hosts |-> d.hosts]
    BY FieldUpdated DEF IsDns
  <2> QED BY <1>1, <2>1
<1> HIDE DEF r
<1>3. CASE <<"ns">> \in DOMAIN d.res
  BY <1>2, <1>3, SlotsByLists DEF Same, r
<1>4. CASE <<"ns">> \notin DOMAIN d.res
  <2> TAKE x \in Slots(d)
  <2>1. x = <<x[1], x[2]>> /\ x[1] \in DOMAIN d.res /\ x[2] \in DOMAIN d.res[x[1]]
    BY SlotIsPair
  <2> DEFINE f == [g \in {<<"ns">>} |-> <<Default>>]
  <2>2. r.res = Before(f, d.res) /\ x[1] \in DOMAIN d.res \ DOMAIN f
    BY <1>2, <1>4, <2>1
  <2> HIDE DEF f
  <2>3. <<x[1], x[2]>> \in Slots(r) /\ TargetAt(r, <<x[1], x[2]>>) = d.res[x[1]][x[2]]
    BY <2>1, <2>2, SlotsBefore
  <2>4. x \in Slots(r) /\ TargetAt(r, x) = TargetAt(d, x)
    BY <2>1, <2>3, Zenon DEF TargetAt
  <2> QED BY <2>4 DEF Same, r
<1> QED BY <1>3, <1>4

LEMMA CandidateOrigins ==
  ASSUME NEW in \in Inputs, Composes(in), NEW c, IsDraft(c)
  PROVE  LET p == WithCustom(Middle(in), c)
             raw == in.raw.dns
         IN  /\ Describes(p.meta.origins, p.dns)
             /\ \A x \in Slots(p.dns) : p.meta.origins[x].layer =
                    LastLayer(raw, Retained(raw, Default), Middle(in).dns, p.dns, x)
<1> DEFINE raw == in.raw.dns
           retained == Retained(raw, Default)
           read == Read(in.raw)
           q == Middle(in)
           p == WithCustom(q, c)
           named == RefreshedOrigins(<<>>, raw, "subscription")
<1>1. /\ read.dns = retained /\ read.meta.origins = RefreshedOrigins(named, retained, "managed")
      /\ IsProfile(read) /\ IsProfile(q)
  BY MiddleIsProfile DEF Read, CapturedSource
<1>2. Describes(named, raw) /\ \A x \in Slots(raw) : named[x].layer = "subscription"
  BY FirstDescribe
<1>3. \A x \in Slots(raw) : Same(raw, retained, x)
  BY RetainedKeeps, PipelineAssumption DEF IsSource
<1> DEFINE o == read.meta.origins
<1>4. /\ Describes(o, retained)
      /\ \A x \in Slots(retained) : o[x].layer = IF x \in Slots(raw) THEN "subscription" ELSE "managed"
  <2>1. /\ Describes(o, retained)
        /\ \A x \in Slots(retained) :
               o[x].layer = IF Same(raw, retained, x) THEN named[x].layer ELSE "managed"
    <3> HIDE DEF named, raw, retained, o
    <3>1. o = RefreshedOrigins(named, retained, "managed")
      BY <1>1 DEF o
    <3> QED BY <1>2, <3>1, RefreshedDescribe
  <2> HIDE DEF named, raw, retained, o
  <2> QED BY <1>2, <1>3, <2>1 DEF Same
<1>5. /\ Describes(q.meta.origins, q.dns)
      /\ \A x \in Slots(q.dns) : q.meta.origins[x].layer =
             IF ~Same(retained, q.dns, x) THEN "global-overlay" ELSE o[x].layer
  <2>1. CASE in.overlay.enabled
    <3> DEFINE dns == OverlaidDns(read.dns, in.overlay.dns)
    <3>1. /\ q.dns = dns /\ q.meta = Refreshed(read.meta, dns, "global-overlay")
      BY <1>1, <2>1, OverlaidFields DEF Middle
    <3> HIDE DEF read, q, dns, retained, raw
    <3>2. q.meta.origins = RefreshedOrigins(o, dns, "global-overlay")
      BY <3>1 DEF Refreshed
    <3> HIDE DEF o
    <3>3. /\ Describes(q.meta.origins, dns)
          /\ \A x \in Slots(dns) : q.meta.origins[x].layer =
                 IF Same(retained, dns, x) THEN o[x].layer ELSE "global-overlay"
      BY <1>4, <3>2, RefreshedDescribe
    <3> QED BY <3>1, <3>3
  <2>2. CASE ~in.overlay.enabled
    <3>1. q = read
      BY <2>2 DEF Middle, WithOverlay
    <3> HIDE DEF read, q, retained, raw
    <3>2. q.dns = retained /\ q.meta.origins = o
      BY <1>1, <3>1
    <3>3. \A x \in Slots(retained) : Same(retained, retained, x)
      BY DEF Same
    <3> HIDE DEF o
    <3> QED BY <1>4, <3>2, <3>3
  <2> QED BY <2>1, <2>2
<1>6. /\ Describes(p.meta.origins, p.dns)
      /\ \A x \in Slots(p.dns) : p.meta.origins[x].layer =
             IF ~Same(q.dns, p.dns, x) THEN "custom-dns" ELSE q.meta.origins[x].layer
  <2>1. CASE c.enabled
    <3> DEFINE dns == CustomMerged(q.dns, c)
    <3>1. /\ p.dns = dns /\ p.meta = Refreshed(q.meta, dns, "custom-dns")
      BY <1>1, <2>1, CustomFields
    <3> HIDE DEF read, q, p, dns
    <3>2. p.meta.origins = RefreshedOrigins(q.meta.origins, dns, "custom-dns")
      BY <3>1 DEF Refreshed
    <3>3. /\ Describes(p.meta.origins, dns)
          /\ \A x \in Slots(dns) : p.meta.origins[x].layer =
                 IF Same(q.dns, dns, x) THEN q.meta.origins[x].layer ELSE "custom-dns"
      BY <1>5, <3>2, RefreshedDescribe
    <3> QED BY <3>1, <3>3
  <2>2. CASE ~c.enabled
    <3>1. p = q
      BY <2>2 DEF WithCustom
    <3>2. \A x \in Slots(q.dns) : Same(q.dns, q.dns, x)
      BY DEF Same
    <3> HIDE DEF read, q, p
    <3> QED BY <1>5, <3>1, <3>2
  <2> QED BY <2>1, <2>2
<1> HIDE DEF raw, retained, o, q, p
<1>7. ASSUME NEW x \in Slots(p.dns)
      PROVE  p.meta.origins[x].layer = LastLayer(raw, retained, q.dns, p.dns, x)
  <2>1. Same(q.dns, p.dns, x) => x \in Slots(q.dns)
    BY DEF Same
  <2>2. Same(retained, q.dns, x) => x \in Slots(retained)
    BY DEF Same
  <2> QED BY <1>4, <1>5, <1>6, <2>1, <2>2 DEF LastLayer
<1> QED BY <1>6, <1>7 DEF raw, retained, q, p

LEMMA OriginsHere ==
  ASSUME NEW n, NEW s, Candidate(s), Runnable(n, s), s.profile.meta.stored, NEW e \in Engines(n, s)
  PROVE  LET raw == s.in.raw.dns
             last == s.profile.dns
         IN  \A x \in DOMAIN e.origins : e.origins[x].layer =
                IF x \notin Slots(last) THEN "managed"
                ELSE LastLayer(raw, Retained(raw, Default), Middle(s.in).dns, last, x)
<1> DEFINE p == s.profile
           d == Dns(n, s)
           o == p.meta.origins
<1>1. Fresh(s)
  <2>1. ~NoSource.stored
    BY DEF NoSource
  <2> QED BY <2>1, LegacyFields DEF Candidate
<1>2. PICK in, c : /\ in \in Inputs /\ IsDraft(c) /\ Composes(in)
           /\ s = Composed(in, c)
  BY <1>1, ComposableComposes DEF Fresh
<1>3. s.in = in /\ p = WithCustom(Middle(in), c) /\ IsProfile(p)
  BY <1>2, FreshFields
<1>4. /\ Describes(o, p.dns)
      /\ \A x \in Slots(p.dns) : o[x].layer =
             LastLayer(in.raw.dns, Retained(in.raw.dns, Default), Middle(in).dns, p.dns, x)
  BY <1>2, <1>3, CandidateOrigins
<1>5. \A x \in Slots(p.dns) : x \in Slots(d) /\ TargetAt(d, x) = TargetAt(p.dns, x)
  BY <1>3, CoordinatedSlots DEF Dns, Runnable, IsProfile
<1>6. e.origins = Rendered(n, s).origins
  BY EnginesServe DEF Serves
<1>7. Rendered(n, s).origins = [x \in Slots(d) |->
             IF x \in DOMAIN o /\ o[x].target = TargetAt(d, x) THEN o[x]
             ELSE [target |-> TargetAt(d, x), layer |-> "managed", over |-> "none"]]
  BY DEF Rendered, Dns
<1> HIDE DEF p, d, o
<1>8. ASSUME NEW x \in DOMAIN e.origins
      PROVE  e.origins[x].layer = IF x \notin Slots(p.dns) THEN "managed" ELSE o[x].layer
  <2>1. x \in Slots(d) /\ e.origins[x] =
            IF x \in DOMAIN o /\ o[x].target = TargetAt(d, x) THEN o[x]
            ELSE [target |-> TargetAt(d, x), layer |-> "managed", over |-> "none"]
    BY <1>6, <1>7
  <2>2. CASE x \in Slots(p.dns)
    BY <1>4, <1>5, <2>1, <2>2 DEF Describes
  <2>3. CASE x \notin Slots(p.dns)
    BY <1>4, <2>1, <2>3 DEF Describes
  <2> QED BY <2>2, <2>3
<1> QED BY <1>3, <1>4, <1>8 DEF p

(***************************************************************************)
(* The trie of the engine and the ranks of the check.  A path is what the   *)
(* search has followed of a name, from the last label.                      *)
(***************************************************************************)
Labels(name) == Range(name) \cup {"*"}
PathsFrom(name, m) == UNION {[1..k -> Labels(name)] : k \in m..Len(name)}

EndsAt(p, path) == p.labels = path /\ (p.kind = "exact" \/ p.kind = "plus")
BelowAt(p, path) == p.labels = path /\ p.kind # "exact"
FoundStep(hosts, name, g, path) ==
    IF Len(path) = Len(name) THEN {p \in DOMAIN hosts : EndsAt(p, path)}
    ELSE IF g[<<name[Len(name) - Len(path)]>> \o path] # {} THEN g[<<name[Len(name) - Len(path)]>> \o path]
    ELSE IF g[<<"*">> \o path] # {} THEN g[<<"*">> \o path]
    ELSE {p \in DOMAIN hosts : BelowAt(p, path)}

LEMMA PathIs ==
  ASSUME NEW name, Len(name) \in Nat, NEW m \in Nat, NEW path
  PROVE  path \in PathsFrom(name, m) <=>
            path \in Seq(Labels(name)) /\ m <= Len(path) /\ Len(path) <= Len(name)
<1>1. ASSUME path \in PathsFrom(name, m)
      PROVE  path \in Seq(Labels(name)) /\ m <= Len(path) /\ Len(path) <= Len(name)
  <2>1. PICK k \in m..Len(name) : path \in [1..k -> Labels(name)]
    BY <1>1 DEF PathsFrom
  <2>2. k \in Nat /\ m <= k /\ k <= Len(name)
    OBVIOUS
  <2> HIDE DEF Labels
  <2>3. path \in Seq(Labels(name)) /\ Len(path) = k
    BY <2>1, <2>2
  <2> QED BY <2>2, <2>3
<1>2. ASSUME path \in Seq(Labels(name)), m <= Len(path), Len(path) <= Len(name)
      PROVE  path \in PathsFrom(name, m)
  <2>1. path \in [1..Len(path) -> Labels(name)] /\ Len(path) \in m..Len(name)
    BY <1>2, LenProperties
  <2> QED BY <2>1 DEF PathsFrom
<1> QED BY <1>1, <1>2

LEMMA Longer ==
  ASSUME NEW name, IsList(name), NEW path \in Seq(Labels(name)), Len(path) < Len(name),
         NEW l \in {"*", name[Len(name) - Len(path)]}
  PROVE  /\ <<l>> \o path \in Seq(Labels(name)) /\ Len(<<l>> \o path) = Len(path) + 1
         /\ l \in Labels(name)
<1>1. Len(name) \in Nat /\ name \in [1..Len(name) -> Range(name)]
  BY DEF IsList
<1>2. Len(path) \in Nat
  OBVIOUS
<1>3. Len(name) - Len(path) \in 1..Len(name)
  BY <1>1, <1>2
<1>4. l \in Labels(name)
  BY <1>1, <1>3 DEF Labels
<1> HIDE DEF Labels
<1>5. <<l>> \in Seq(Labels(name)) /\ Len(<<l>>) = 1
  BY <1>4
<1> QED BY <1>4, <1>5, ConcatProperties

LEMMA FoundExists ==
  ASSUME NEW hosts, NEW name, IsList(name)
  PROVE  \A j \in 0..(Len(name) + 1) :
            \E g : g = [path \in PathsFrom(name, Len(name) + 1 - j) |-> FoundStep(hosts, name, g, path)]
<1> DEFINE N == Len(name) + 1
           P(j) == \E g : g = [path \in PathsFrom(name, N - j) |-> FoundStep(hosts, name, g, path)]
           T == {j \in 0..N : ~P(j)}
<1>1. SUFFICES ASSUME T # {} PROVE FALSE
  OBVIOUS
<1>2. Len(name) \in Nat
  BY DEF IsList
<1>3. PICK j \in T : \A i \in T : j <= i
  <2>1. T \subseteq Nat
    OBVIOUS
  <2> HIDE DEF T
  <2> QED BY <1>1, <2>1, LeastNatural
<1>4. j \in Nat /\ j <= N /\ ~P(j)
  BY <1>3
<1>5. CASE j = 0
  <2>1. PathsFrom(name, N - j) = {}
    BY <1>2, <1>5 DEF PathsFrom
  <2> DEFINE g == [path \in {} |-> 0]
  <2>2. g = [path \in PathsFrom(name, N - j) |-> FoundStep(hosts, name, g, path)]
    BY <2>1
  <2> QED BY <1>4, <2>2
<1>6. CASE j # 0
  <2>1. P(j - 1)
    <3>1. j - 1 \in 0..N /\ ~(j <= j - 1)
      BY <1>2, <1>4, <1>6
    <3> HIDE DEF P
    <3> QED BY <1>3, <3>1
  <2> DEFINE m == N - j
             X == PathsFrom(name, m)
             Y == PathsFrom(name, m + 1)
  <2>2. m \in Nat /\ m < N /\ N - (j - 1) = m + 1
    BY <1>2, <1>4, <1>6
  <2>3. PICK g : g = [path \in Y |-> FoundStep(hosts, name, g, path)]
    BY <2>1, <2>2
  <2> DEFINE h == [path \in X |-> IF path \in Y THEN g[path] ELSE FoundStep(hosts, name, g, path)]
  <2> HIDE DEF N, m
  <2>4. Y \subseteq X
    <3> SUFFICES ASSUME NEW path \in Y PROVE path \in X
      OBVIOUS
    <3>1. path \in Seq(Labels(name)) /\ m + 1 <= Len(path) /\ Len(path) <= Len(name)
      BY <1>2, <2>2, PathIs
    <3>2. Len(path) \in Nat
      BY <3>1
    <3> QED BY <1>2, <2>2, <3>1, <3>2, PathIs
  <2>5. ASSUME NEW path \in X PROVE h[path] = FoundStep(hosts, name, h, path)
    <3>1. path \in Seq(Labels(name)) /\ m <= Len(path) /\ Len(path) <= Len(name)
      BY <1>2, <2>2, PathIs
    <3>2. ASSUME Len(path) # Len(name), NEW l \in {"*", name[Len(name) - Len(path)]}
          PROVE  h[<<l>> \o path] = g[<<l>> \o path]
      <4>1. Len(path) < Len(name) /\ Len(path) \in Nat
        BY <1>2, <3>1, <3>2
      <4>2. <<l>> \o path \in Seq(Labels(name)) /\ Len(<<l>> \o path) = Len(path) + 1
        BY <3>1, <4>1, Longer
      <4>3. <<l>> \o path \in Y
        <5> DEFINE q == <<l>> \o path
        <5>1. q \in Seq(Labels(name)) /\ m + 1 <= Len(q) /\ Len(q) <= Len(name) /\ m + 1 \in Nat
          BY <1>2, <2>2, <3>1, <4>1, <4>2
        <5> HIDE DEF q
        <5>2. q \in Y
          BY <1>2, <5>1, PathIs
        <5> QED BY <5>2 DEF q
      <4> HIDE DEF X, Y
      <4> QED BY <2>4, <4>3
    <3> HIDE DEF h, X, Y
    <3>3. FoundStep(hosts, name, h, path) = FoundStep(hosts, name, g, path)
      BY <3>2, Zenon DEF FoundStep
    <3>4. CASE path \in Y
      <4>1. h[path] = g[path]
        BY <3>4 DEF h
      <4>2. g[path] = FoundStep(hosts, name, g, path)
        <5>1. [q \in Y |-> FoundStep(hosts, name, g, q)][path] = FoundStep(hosts, name, g, path)
          BY <3>4
        <5> QED BY <2>3, <5>1, Zenon
      <4> QED BY <3>3, <4>1, <4>2
    <3>5. CASE path \notin Y
      BY <3>3, <3>5 DEF h
    <3> QED BY <3>4, <3>5
  <2>6. DOMAIN h = X /\ h = [path \in X |-> h[path]]
    OBVIOUS
  <2> HIDE DEF h, X
  <2>7. h = [path \in X |-> FoundStep(hosts, name, h, path)]
    BY <2>5, <2>6
  <2> QED BY <1>4, <2>7 DEF X, m
<1> QED BY <1>5, <1>6

LEMMA FoundIs ==
  ASSUME NEW hosts, NEW name, IsList(name)
  PROVE  \E g : /\ g = [path \in PathsFrom(name, 0) |-> FoundStep(hosts, name, g, path)]
                /\ Found(hosts, name) = g[<<>>]
<1> DEFINE at == CHOOSE g : g = [path \in PathsFrom(name, 0) |-> FoundStep(hosts, name, g, path)]
<1>1. \E g : g = [path \in PathsFrom(name, 0) |-> FoundStep(hosts, name, g, path)]
  <2>1. Len(name) \in Nat
    BY DEF IsList
  <2>2. Len(name) + 1 \in 0..(Len(name) + 1) /\ Len(name) + 1 - (Len(name) + 1) = 0
    BY <2>1
  <2>3. \E g : g = [path \in PathsFrom(name, Len(name) + 1 - (Len(name) + 1)) |->
                    FoundStep(hosts, name, g, path)]
    BY <2>2, FoundExists, Zenon
  <2> QED BY <2>2, <2>3, Zenon
<1>2. at = [path \in PathsFrom(name, 0) |-> FoundStep(hosts, name, at, path)]
  BY <1>1, Zenon
<1>3. Found(hosts, name) = at[<<>>]
  BY DEF Found, FoundStep, PathsFrom, Labels, EndsAt, BelowAt
<1> QED BY <1>2, <1>3

EndsIn(p, path) ==
    /\ Len(path) <= Len(p.labels)
    /\ \A i \in 0..(Len(path) - 1) : p.labels[Len(p.labels) - i] = path[Len(path) - i]
Follows(name, path) ==
    /\ path \in Seq(Labels(name)) /\ Len(path) <= Len(name)
    /\ \A i \in 0..(Len(path) - 1) : path[Len(path) - i] \in {"*", name[Len(name) - i]}
Branch(hosts, name, path) == {p \in DOMAIN hosts : DomainMatches(p, name) /\ EndsIn(p, path)}
ArePatterns(hosts) == \A p \in DOMAIN hosts : IsPattern(p)

\* A path as long as the name is the whole of a pattern.
LEMMA WholePath ==
  ASSUME NEW hosts, ArePatterns(hosts), NEW name, IsList(name),
         NEW path, Follows(name, path), Len(path) = Len(name)
  PROVE  {p \in DOMAIN hosts : EndsAt(p, path)} = Branch(hosts, name, path)
<1>1. Len(name) \in Nat /\ Len(path) \in Nat /\ path \in [1..Len(path) -> Labels(name)]
  BY LenProperties DEF IsList, Follows
<1>2. ASSUME NEW p \in DOMAIN hosts, EndsAt(p, path) PROVE DomainMatches(p, name) /\ EndsIn(p, path)
  <2>1. \A i \in 0..(Len(path) - 1) : path[Len(path) - i] \in {"*", name[Len(name) - i]}
    BY DEF Follows
  <2>2. p.labels = path /\ p.kind # "dot"
    BY <1>2 DEF EndsAt
  <2>3. \A i \in 0..(Len(p.labels) - 1) : p.labels[Len(p.labels) - i] \in {"*", name[Len(name) - i]}
    BY <2>1, <2>2, Zenon
  <2>4. Len(p.labels) = Len(name) /\ Len(p.labels) <= Len(name)
    BY <1>1, <2>2
  <2>5. DomainMatches(p, name)
    BY <2>2, <2>3, <2>4, Zenon DEF DomainMatches
  <2>6. EndsIn(p, path)
    BY <1>1, <2>2 DEF EndsIn
  <2> QED BY <2>5, <2>6
<1>3. ASSUME NEW p \in DOMAIN hosts, DomainMatches(p, name), EndsIn(p, path) PROVE EndsAt(p, path)
  <2>1. IsPattern(p)
    BY DEF ArePatterns
  <2>2. p.labels \in Seq(Range(p.labels))
    BY <2>1 DEF IsPattern, IsList
  <2>3. Len(p.labels) \in Nat /\ p.labels \in [1..Len(p.labels) -> Range(p.labels)]
    BY <2>2, LenProperties
  <2>4. Len(p.labels) = Len(name) /\ p.kind # "dot"
    BY <1>1, <1>3, <2>3 DEF DomainMatches, EndsIn
  <2>5. ASSUME NEW i \in 1..Len(path) PROVE p.labels[i] = path[i]
    <3>1. Len(path) - i \in 0..(Len(path) - 1) /\ Len(path) - (Len(path) - i) = i
      BY <1>1
    <3>2. p.labels[Len(path) - (Len(path) - i)] = path[Len(path) - (Len(path) - i)]
      BY <1>3, <2>4, <3>1 DEF EndsIn
    <3> QED BY <3>1, <3>2
  <2>6. p.labels = path
    BY <1>1, <2>3, <2>4, <2>5
  <2> QED BY <2>1, <2>4, <2>6 DEF EndsAt, IsPattern
<1> QED BY <1>2, <1>3 DEF Branch

LEMMA StepFollows ==
  ASSUME NEW name, IsList(name), NEW path, Follows(name, path), Len(path) < Len(name),
         NEW l \in {"*", name[Len(name) - Len(path)]}
  PROVE  /\ Follows(name, <<l>> \o path) /\ Len(<<l>> \o path) = Len(path) + 1
         /\ (<<l>> \o path)[1] = l
         /\ \A i \in 1..Len(path) : (<<l>> \o path)[i + 1] = path[i]
<1> DEFINE q == <<l>> \o path
<1>1. /\ q \in Seq(Labels(name)) /\ Len(q) = Len(path) + 1 /\ l \in Labels(name)
      /\ Len(name) \in Nat /\ Len(path) \in Nat
  BY Longer DEF Follows, IsList
<1>2. q[1] = l /\ \A i \in 1..Len(path) : q[i + 1] = path[i]
  <2>1. <<l>> \in Seq(Labels(name)) /\ Len(<<l>>) = 1 /\ <<l>>[1] = l /\ path \in Seq(Labels(name))
    BY <1>1 DEF Follows
  <2>2. \A i \in 1..(1 + Len(path)) : q[i] = IF i <= 1 THEN <<l>>[i] ELSE path[i - 1]
    BY <2>1, ConcatProperties
  <2> HIDE DEF q
  <2>3. q[1] = l
    BY <1>1, <2>1, <2>2
  <2>4. ASSUME NEW i \in 1..Len(path) PROVE q[i + 1] = path[i]
    <3>1. i + 1 \in 1..(1 + Len(path)) /\ ~(i + 1 <= 1) /\ i + 1 - 1 = i
      BY <1>1
    <3> QED BY <2>2, <3>1
  <2> QED BY <2>3, <2>4
<1> HIDE DEF q
<1>3. ASSUME NEW i \in 0..(Len(q) - 1) PROVE q[Len(q) - i] \in {"*", name[Len(name) - i]}
  <2>1. CASE i = Len(path)
    BY <1>1, <1>2, <2>1
  <2>2. CASE i # Len(path)
    <3>1. i \in 0..(Len(path) - 1) /\ Len(path) - i \in 1..Len(path) /\ Len(q) - i = Len(path) - i + 1
      BY <1>1, <2>2
    <3>2. path[Len(path) - i] \in {"*", name[Len(name) - i]}
      BY <3>1 DEF Follows
    <3> QED BY <1>2, <3>1, <3>2
  <2> QED BY <2>1, <2>2
<1>4. Follows(name, q)
  BY <1>1, <1>3 DEF Follows
<1> QED BY <1>1, <1>2, <1>4 DEF q

\* The patterns of a branch: those of the two it splits into, and its own.
LEMMA BranchSplits ==
  ASSUME NEW hosts, ArePatterns(hosts), NEW name, IsList(name),
         NEW path, Follows(name, path), Len(path) < Len(name)
  PROVE  LET literal == Branch(hosts, name, <<name[Len(name) - Len(path)]>> \o path)
             star == Branch(hosts, name, <<"*">> \o path)
             below == {p \in DOMAIN hosts : BelowAt(p, path)}
         IN  Branch(hosts, name, path) = (literal \cup star) \cup below
<1> DEFINE K == Len(path)
           c == name[Len(name) - K]
<1>1. Len(name) \in Nat /\ K \in Nat /\ path \in [1..K -> Labels(name)]
  BY LenProperties DEF IsList, Follows
<1>2. ASSUME NEW p \in DOMAIN hosts
      PROVE  Len(p.labels) \in Nat /\ p.labels \in [1..Len(p.labels) -> Range(p.labels)]
             /\ p.kind \in {"exact", "dot", "plus"}
  <2>1. p.labels \in Seq(Range(p.labels)) /\ p.kind \in {"exact", "dot", "plus"}
    BY DEF ArePatterns, IsPattern, IsList
  <2> QED BY <2>1, LenProperties
<1>3. ASSUME NEW p \in DOMAIN hosts, NEW l \in {"*", c}, EndsIn(p, <<l>> \o path) PROVE EndsIn(p, path)
  <2> DEFINE q == <<l>> \o path
  <2>1. Len(q) = K + 1 /\ \A i \in 1..K : q[i + 1] = path[i]
    BY StepFollows
  <2>2. EndsIn(p, q)
    BY <1>3
  <2> HIDE DEF q
  <2>3. ASSUME NEW i \in 0..(K - 1) PROVE p.labels[Len(p.labels) - i] = path[K - i]
    <3>1. i \in 0..(Len(q) - 1) /\ K - i \in 1..K /\ Len(q) - i = K - i + 1
      BY <1>1, <2>1
    <3> QED BY <2>1, <2>2, <3>1 DEF EndsIn
  <2> QED BY <1>1, <1>2, <2>1, <2>2, <2>3 DEF EndsIn
<1>4. ASSUME NEW p \in DOMAIN hosts, BelowAt(p, path) PROVE DomainMatches(p, name) /\ EndsIn(p, path)
  <2>1. \A i \in 0..(Len(path) - 1) : path[Len(path) - i] \in {"*", name[Len(name) - i]}
    BY DEF Follows
  <2> QED BY <1>1, <1>4, <2>1 DEF BelowAt, DomainMatches, EndsIn
<1>5. ASSUME NEW p \in DOMAIN hosts, DomainMatches(p, name), EndsIn(p, path), Len(p.labels) > K
      PROVE  \E l \in {"*", c} : EndsIn(p, <<l>> \o path)
  <2>1. p.labels[Len(p.labels) - K] \in {"*", c}
    <3>1. K \in 0..(Len(p.labels) - 1)
      BY <1>1, <1>2, <1>5
    <3> QED BY <1>5, <3>1 DEF DomainMatches
  <2> DEFINE l == p.labels[Len(p.labels) - K]
             q == <<l>> \o path
  <2>2. Len(q) = K + 1 /\ q[1] = l /\ \A i \in 1..K : q[i + 1] = path[i]
    BY <2>1, StepFollows
  <2> HIDE DEF q
  <2>3. ASSUME NEW i \in 0..(Len(q) - 1) PROVE p.labels[Len(p.labels) - i] = q[Len(q) - i]
    <3>1. CASE i = K
      BY <1>1, <2>2, <3>1
    <3>2. CASE i # K
      <4>1. i \in 0..(K - 1) /\ K - i \in 1..K /\ Len(q) - i = K - i + 1
        BY <1>1, <2>2, <3>2
      <4> QED BY <1>5, <2>2, <4>1 DEF EndsIn
    <3> QED BY <3>1, <3>2
  <2>4. EndsIn(p, q)
    BY <1>1, <1>2, <1>5, <2>2, <2>3 DEF EndsIn
  <2> QED BY <2>1, <2>4 DEF q
<1>6. ASSUME NEW p \in DOMAIN hosts, DomainMatches(p, name), EndsIn(p, path), ~(Len(p.labels) > K)
      PROVE  BelowAt(p, path)
  <2>1. Len(p.labels) = K
    BY <1>1, <1>2, <1>6 DEF EndsIn
  <2>2. ASSUME NEW i \in 1..K PROVE p.labels[i] = path[i]
    <3>1. K - i \in 0..(K - 1) /\ K - (K - i) = i
      BY <1>1
    <3>2. p.labels[K - (K - i)] = path[K - (K - i)]
      BY <1>6, <2>1, <3>1 DEF EndsIn
    <3> QED BY <3>1, <3>2
  <2>3. p.labels = path
    BY <1>1, <1>2, <2>1, <2>2
  <2>4. p.kind # "exact"
    BY <1>1, <1>6, <2>1 DEF DomainMatches
  <2> QED BY <2>3, <2>4 DEF BelowAt
<1> HIDE DEF K
<1>7. ASSUME NEW p \in DOMAIN hosts
      PROVE  DomainMatches(p, name) /\ EndsIn(p, path) <=>
                \/ DomainMatches(p, name) /\ EndsIn(p, <<c>> \o path)
                \/ DomainMatches(p, name) /\ EndsIn(p, <<"*">> \o path)
                \/ BelowAt(p, path)
  <2> HIDE DEF c
  <2> QED BY <1>3, <1>4, <1>5, <1>6
<1> QED BY <1>7 DEF Branch, K

(***************************************************************************)
(* The search finds what ranks highest.                                     *)
(***************************************************************************)
LEMMA RankIs ==
  ASSUME NEW name, IsList(name), NEW p, Len(p.labels) \in Nat
  PROVE  /\ DOMAIN DomainRank(p, name) = 1..Len(name)
         /\ \A i \in 1..Len(name) : /\ DomainRank(p, name)[i] \in {0, 1, 2}
                                    /\ DomainRank(p, name)[i] =
                                         IF i > Len(p.labels) THEN 0
                                         ELSE IF p.labels[Len(p.labels) - i + 1] = "*" THEN 1 ELSE 2
BY DEF DomainRank

\* Patterns of one branch have their first digits in common.
LEMMA RankInBranch ==
  ASSUME NEW hosts, ArePatterns(hosts), NEW name, IsList(name), NEW path, Follows(name, path),
         NEW p \in Branch(hosts, name, path), NEW i \in 1..Len(path)
  PROVE  /\ i \in 1..Len(name)
         /\ DomainRank(p, name)[i] = IF path[Len(path) - i + 1] = "*" THEN 1 ELSE 2
<1>1. Len(name) \in Nat /\ Len(path) \in Nat /\ Len(path) <= Len(name)
  BY DEF IsList, Follows
<1>2. Len(p.labels) \in Nat
  <2>1. p.labels \in Seq(Range(p.labels))
    BY DEF Branch, ArePatterns, IsPattern, IsList
  <2> QED BY <2>1
<1>3. /\ Len(path) <= Len(p.labels)
      /\ \A j \in 0..(Len(path) - 1) : p.labels[Len(p.labels) - j] = path[Len(path) - j]
  BY DEF Branch, EndsIn
<1>4. i - 1 \in 0..(Len(path) - 1) /\ i \in 1..Len(name) /\ ~(i > Len(p.labels))
  BY <1>1, <1>2, <1>3
<1>5. /\ Len(p.labels) - (i - 1) = Len(p.labels) - i + 1
      /\ Len(path) - (i - 1) = Len(path) - i + 1
  BY <1>1, <1>2
<1>6. p.labels[Len(p.labels) - i + 1] = path[Len(path) - i + 1]
  <2>1. p.labels[Len(p.labels) - (i - 1)] = path[Len(path) - (i - 1)]
    BY <1>3, <1>4
  <2> QED BY <1>5, <2>1, Zenon
<1> QED BY <1>2, <1>4, <1>6, RankIs

\* The next digit decides between two patterns of a branch.
LEMMA NextDigitDecides ==
  ASSUME NEW hosts, ArePatterns(hosts), NEW name, IsList(name),
         NEW path, Follows(name, path), Len(path) < Len(name),
         NEW p \in Branch(hosts, name, path), NEW q \in Branch(hosts, name, path),
         DomainRank(p, name)[Len(path) + 1] > DomainRank(q, name)[Len(path) + 1]
  PROVE  ~Higher(DomainRank(q, name), DomainRank(p, name))
<1>1. Len(name) \in Nat /\ Len(path) \in Nat
  BY DEF IsList, Follows
<1>2. Len(p.labels) \in Nat /\ Len(q.labels) \in Nat
  <2>1. p.labels \in Seq(Range(p.labels)) /\ q.labels \in Seq(Range(q.labels))
    BY DEF Branch, ArePatterns, IsPattern, IsList
  <2> QED BY <2>1
<1> DEFINE a == DomainRank(p, name)
           b == DomainRank(q, name)
<1>3. DOMAIN b = 1..Len(name) /\ \A i \in 1..Len(name) : a[i] \in {0, 1, 2} /\ b[i] \in {0, 1, 2}
  BY <1>2, RankIs
<1>4. \A i \in 1..Len(path) : a[i] = b[i]
  BY RankInBranch
<1>5. a[Len(path) + 1] > b[Len(path) + 1]
  OBVIOUS
<1> HIDE DEF a, b
<1>6. SUFFICES ASSUME NEW i \in 1..Len(name), b[i] > a[i],
                      \A j \in 1..Len(name) : j < i => b[j] = a[j]
               PROVE  FALSE
  BY <1>3 DEF Higher, a, b
<1>7. CASE i <= Len(path)
  BY <1>1, <1>3, <1>4, <1>6, <1>7
<1>8. CASE i = Len(path) + 1
  BY <1>3, <1>5, <1>6, <1>8
<1>9. CASE i > Len(path) + 1
  <2>1. Len(path) + 1 \in 1..Len(name) /\ Len(path) + 1 < i
    BY <1>1, <1>9
  <2>2. a[Len(path) + 1] \in {0, 1, 2} /\ b[Len(path) + 1] = a[Len(path) + 1]
    BY <1>3, <1>6, <2>1
  <2> QED BY <1>5, <2>2
<1> QED BY <1>1, <1>7, <1>8, <1>9

LEMMA SameRank ==
  ASSUME NEW name, IsList(name), NEW p, NEW q, Len(p.labels) \in Nat, p.labels = q.labels
  PROVE  ~Higher(DomainRank(q, name), DomainRank(p, name))
<1>1. DomainRank(q, name) = DomainRank(p, name)
  BY DEF DomainRank
<1>2. DOMAIN DomainRank(p, name) = 1..Len(name) /\ \A i \in 1..Len(name) : DomainRank(p, name)[i] \in {0, 1, 2}
  BY RankIs
<1> DEFINE a == DomainRank(p, name)
<1> HIDE DEF a
<1>3. ~ \E i \in DOMAIN a : a[i] > a[i]
  BY <1>2 DEF a
<1> QED BY <1>1, <1>3 DEF Higher, a

\* What the search holds at a path: patterns of the branch, none only where
\* there is none, and none outranked in it.
RightAt(hosts, name, found, path) ==
    /\ found \subseteq Branch(hosts, name, path)
    /\ Branch(hosts, name, path) # {} => found # {}
    /\ \A p \in found, q \in Branch(hosts, name, path) :
           ~Higher(DomainRank(q, name), DomainRank(p, name))

LEMMA RightWhole ==
  ASSUME NEW hosts, ArePatterns(hosts), NEW name, IsList(name),
         NEW path, Follows(name, path), Len(path) = Len(name)
  PROVE  RightAt(hosts, name, {p \in DOMAIN hosts : EndsAt(p, path)}, path)
<1>1. {p \in DOMAIN hosts : EndsAt(p, path)} = Branch(hosts, name, path)
  BY WholePath
<1>2. ASSUME NEW p \in Branch(hosts, name, path), NEW q \in Branch(hosts, name, path)
      PROVE  ~Higher(DomainRank(q, name), DomainRank(p, name))
  <2>1. p.labels = path /\ q.labels = path
    BY <1>1 DEF EndsAt
  <2>2. Len(path) \in Nat
    BY DEF IsList
  <2> QED BY <2>1, <2>2, SameRank
<1> QED BY <1>1, <1>2 DEF RightAt

LEMMA RightStep ==
  ASSUME NEW hosts, ArePatterns(hosts), NEW name, IsList(name),
         NEW path, Follows(name, path), Len(path) < Len(name), NEW inLiteral, NEW inStar,
         RightAt(hosts, name, inLiteral, <<name[Len(name) - Len(path)]>> \o path),
         RightAt(hosts, name, inStar, <<"*">> \o path)
  PROVE  RightAt(hosts, name, IF inLiteral # {} THEN inLiteral
                              ELSE IF inStar # {} THEN inStar
                              ELSE {p \in DOMAIN hosts : BelowAt(p, path)}, path)
<1> DEFINE c == name[Len(name) - Len(path)]
           literal == Branch(hosts, name, <<c>> \o path)
           star == Branch(hosts, name, <<"*">> \o path)
           below == {p \in DOMAIN hosts : BelowAt(p, path)}
           all == Branch(hosts, name, path)
           digit(p) == DomainRank(p, name)[Len(path) + 1]
           less(q, p) == ~Higher(DomainRank(q, name), DomainRank(p, name))
<1>1. all = (literal \cup star) \cup below
  BY BranchSplits
<1>2. Len(name) \in Nat /\ Len(path) \in Nat
  BY DEF IsList, Follows
<1>3. ASSUME NEW l \in {"*", c}, NEW p \in Branch(hosts, name, <<l>> \o path)
      PROVE  digit(p) = IF l = "*" THEN 1 ELSE 2
  <2> DEFINE q == <<l>> \o path
  <2>1. Follows(name, q) /\ Len(q) = Len(path) + 1 /\ q[1] = l
    BY StepFollows
  <2>2. p \in Branch(hosts, name, q)
    OBVIOUS
  <2> HIDE DEF q
  <2>3. Len(path) + 1 \in 1..Len(q) /\ Len(q) - (Len(path) + 1) + 1 = 1
    BY <1>2, <2>1
  <2> QED BY <2>1, <2>2, <2>3, RankInBranch
<1>4. ASSUME NEW p \in below PROVE digit(p) = 0
  <2>1. p.labels = path
    BY DEF BelowAt
  <2>2. Len(path) + 1 \in 1..Len(name) /\ Len(path) + 1 > Len(path)
    BY <1>2
  <2> QED BY <1>2, <2>1, <2>2, RankIs
<1>5. ASSUME NEW p \in all, NEW q \in all, digit(p) > digit(q) PROVE less(q, p)
  BY <1>5, NextDigitDecides
<1>6. ASSUME NEW p \in below, NEW q \in below PROVE less(q, p)
  <2>1. p.labels = path /\ q.labels = path
    BY DEF BelowAt
  <2> QED BY <1>2, <2>1, SameRank
<1>7. /\ inLiteral \subseteq literal /\ (literal # {} => inLiteral # {})
      /\ \A p \in inLiteral, q \in literal : less(q, p)
      /\ inStar \subseteq star /\ (star # {} => inStar # {})
      /\ \A p \in inStar, q \in star : less(q, p)
  BY DEF RightAt
<1>8. \A p \in star : digit(p) = 1
  BY <1>3
<1>9. \A p \in literal : digit(p) = IF c = "*" THEN 1 ELSE 2
  BY <1>3
<1>10. c = "*" => literal = star
  OBVIOUS
<1> DEFINE found == IF inLiteral # {} THEN inLiteral ELSE IF inStar # {} THEN inStar ELSE below
<1> SUFFICES /\ found \subseteq all /\ (all # {} => found # {})
             /\ \A p \in found, q \in all : less(q, p)
  BY DEF RightAt
<1> HIDE DEF literal, star, below, all, digit, less, c
<1>11. CASE inLiteral # {}
  <2>1. ASSUME NEW p \in inLiteral, NEW q \in all PROVE less(q, p)
    <3>1. CASE q \in literal
      BY <1>7, <3>1
    <3>2. CASE q \notin literal /\ c = "*"
      BY <1>1, <1>4, <1>5, <1>7, <1>9, <1>10, <3>2
    <3>3. CASE q \notin literal /\ c # "*"
      BY <1>1, <1>4, <1>5, <1>7, <1>8, <1>9, <3>3
    <3> QED BY <3>1, <3>2, <3>3
  <2> QED BY <1>1, <1>7, <1>11, <2>1
<1>12. CASE inLiteral = {} /\ inStar # {}
  <2>1. ASSUME NEW p \in inStar, NEW q \in all PROVE less(q, p)
    BY <1>1, <1>4, <1>5, <1>7, <1>8, <1>12
  <2> QED BY <1>1, <1>7, <1>12, <2>1
<1>13. CASE inLiteral = {} /\ inStar = {}
  BY <1>1, <1>6, <1>7, <1>13
<1> QED BY <1>11, <1>12, <1>13

LEMMA FoundRight ==
  ASSUME NEW hosts, ArePatterns(hosts), NEW name, IsList(name)
  PROVE  RightAt(hosts, name, Found(hosts, name), <<>>)
<1>1. Len(name) \in Nat
  BY DEF IsList
<1>2. PICK g : g = [path \in PathsFrom(name, 0) |-> FoundStep(hosts, name, g, path)] /\ Found(hosts, name) = g[<<>>]
  BY FoundIs
<1>3. ASSUME NEW path, Follows(name, path) PROVE g[path] = FoundStep(hosts, name, g, path)
  <2>1. path \in PathsFrom(name, 0)
    <3>1. path \in Seq(Labels(name)) /\ Len(path) <= Len(name) /\ 0 <= Len(path)
      BY <1>3 DEF Follows
    <3> QED BY <1>1, <3>1, PathIs
  <2>2. [q \in PathsFrom(name, 0) |-> FoundStep(hosts, name, g, q)][path] = FoundStep(hosts, name, g, path)
    BY <2>1
  <2> QED BY <1>2, <2>2, Zenon
<1> DEFINE Wrong(j) == \E path : Follows(name, path) /\ Len(path) = Len(name) - j
                                 /\ ~RightAt(hosts, name, g[path], path)
           T == {j \in 0..Len(name) : Wrong(j)}
<1>4. T = {}
  <2>1. SUFFICES ASSUME T # {} PROVE FALSE
    OBVIOUS
  <2>2. PICK j \in T : \A i \in T : j <= i
    <3>1. T \subseteq Nat
      OBVIOUS
    <3> HIDE DEF T
    <3> QED BY <2>1, <3>1, LeastNatural
  <2>3. PICK path : /\ Follows(name, path) /\ Len(path) = Len(name) - j
                    /\ ~RightAt(hosts, name, g[path], path)
    BY <2>2
  <2>4. j \in Nat /\ j <= Len(name)
    BY <2>2
  <2>5. g[path] = FoundStep(hosts, name, g, path)
    BY <1>3, <2>3
  <2>6. CASE j = 0
    <3>1. Len(path) = Len(name)
      BY <1>1, <2>3, <2>6
    <3> QED BY <2>3, <2>5, <3>1, RightWhole DEF FoundStep
  <2>7. CASE j # 0
    <3>1. Len(path) < Len(name) /\ j - 1 \in 0..Len(name) /\ ~(j <= j - 1)
      BY <1>1, <2>3, <2>4, <2>7
    <3>2. ~Wrong(j - 1)
      <4>1. j - 1 \notin T
        BY <2>2, <3>1
      <4> HIDE DEF Wrong
      <4> QED BY <3>1, <4>1
    <3>3. ASSUME NEW l \in {"*", name[Len(name) - Len(path)]}
          PROVE  RightAt(hosts, name, g[<<l>> \o path], <<l>> \o path)
      <4>1. Follows(name, <<l>> \o path) /\ Len(<<l>> \o path) = Len(path) + 1
        BY <2>3, <3>1, StepFollows
      <4>2. Len(path) + 1 = Len(name) - (j - 1)
        BY <1>1, <2>3, <2>4
      <4>3. Len(<<l>> \o path) = Len(name) - (j - 1)
        BY <4>1, <4>2
      <4> DEFINE q == <<l>> \o path
      <4> HIDE DEF q
      <4>4. Follows(name, q) /\ Len(q) = Len(name) - (j - 1) => RightAt(hosts, name, g[q], q)
        BY <3>2
      <4> QED BY <4>1, <4>3, <4>4, Zenon DEF q
    <3>4. RightAt(hosts, name, FoundStep(hosts, name, g, path), path)
      <4> DEFINE c == name[Len(name) - Len(path)]
                 inLiteral == g[<<c>> \o path]
                 inStar == g[<<"*">> \o path]
      <4>1. RightAt(hosts, name, inLiteral, <<c>> \o path) /\ RightAt(hosts, name, inStar, <<"*">> \o path)
        BY <3>3
      <4> HIDE DEF inLiteral, inStar
      <4>2. RightAt(hosts, name, IF inLiteral # {} THEN inLiteral
                                 ELSE IF inStar # {} THEN inStar
                                 ELSE {p \in DOMAIN hosts : BelowAt(p, path)}, path)
        BY <2>3, <3>1, <4>1, RightStep, Zenon
      <4>3. Len(path) # Len(name)
        BY <1>1, <3>1, <2>3, <2>4
      <4> QED BY <4>2, <4>3, Zenon DEF FoundStep, inLiteral, inStar
    <3> QED BY <2>3, <2>5, <3>4
  <2> QED BY <2>6, <2>7
<1>5. Follows(name, <<>>) /\ Len(<<>>) = 0
  BY <1>1 DEF Follows
<1>6. ~Wrong(Len(name))
  <2>1. Len(name) \in 0..Len(name)
    BY <1>1
  <2> HIDE DEF Wrong
  <2> QED BY <1>4, <2>1
<1>7. Len(name) - Len(name) = 0
  BY <1>1
<1> QED BY <1>2, <1>5, <1>6, <1>7

\* So whatever the engine answers with is among the entries the check of the
\* draft looked at.
LEMMA FoundIsBest ==
  ASSUME NEW hosts, ArePatterns(hosts), NEW name, IsList(name)
  PROVE  /\ Found(hosts, name) \subseteq BestEntries(hosts, name)
         /\ \A p \in Found(hosts, name) : p \in DOMAIN hosts /\ DomainMatches(p, name)
<1>1. RightAt(hosts, name, Found(hosts, name), <<>>)
  BY FoundRight
<1>2. ASSUME NEW p \in DOMAIN hosts PROVE EndsIn(p, <<>>)
  <2>1. p.labels \in Seq(Range(p.labels))
    BY DEF ArePatterns, IsPattern, IsList
  <2>2. Len(<<>>) = 0 /\ Len(p.labels) \in Nat
    BY <2>1
  <2> QED BY <2>2 DEF EndsIn
<1>3. Branch(hosts, name, <<>>) = {p \in DOMAIN hosts : DomainMatches(p, name)}
  BY <1>2 DEF Branch
<1> QED BY <1>1, <1>3 DEF RightAt, BestEntries

(***************************************************************************)
(* Names DHCP can give out.                                                 *)
(***************************************************************************)
Lease(x, domain) == \/ Len(x) = 1
                    \/ /\ domain # <<>>
                       /\ Len(x) > Len(domain)
                       /\ Suffix(x, Len(domain)) = domain

LEMMA SuffixIs ==
  ASSUME NEW s, IsList(s), NEW m \in Nat, m <= Len(s)
  PROVE  /\ Len(Suffix(s, m)) = m /\ Suffix(s, m) \in Seq(Range(s))
         /\ \A i \in 0..(m - 1) : Suffix(s, m)[m - i] = s[Len(s) - i]
<1> DEFINE n == Len(s)
           t == SubSeq(s, n - m + 1, n)
<1>1. n \in Nat /\ s \in [1..n -> Range(s)]
  BY LenProperties DEF IsList
<1>2. Suffix(s, m) = t
  BY DEF Suffix
<1>3. \A i \in (n - m + 1)..n : s[i] \in Range(s)
  BY <1>1
<1>4. n - m + 1 \in Int /\ n \in Int /\ n - (n - m + 1) + 1 = m
  BY <1>1
<1> HIDE DEF n
<1>5. /\ t \in Seq(Range(s)) /\ Len(t) = IF n - m + 1 <= n THEN m ELSE 0
      /\ \A i \in 1..m : t[i] = s[n - m + 1 + i - 1]
  BY <1>3, <1>4, SubSeqProperties
<1> HIDE DEF t
<1>6. Len(t) = m
  BY <1>1, <1>4, <1>5
<1>7. ASSUME NEW i \in 0..(m - 1) PROVE t[m - i] = s[n - i]
  <2>1. m - i \in 1..m /\ n - m + 1 + (m - i) - 1 = n - i
    BY <1>1
  <2> QED BY <1>5, <2>1
<1> QED BY <1>2, <1>5, <1>6, <1>7 DEF n

\* A pattern that matches a name DHCP can give out is refused.
LEMMA MatchOverlaps ==
  ASSUME NEW p, IsPattern(p), NEW x, IsList(x), NEW domain, IsList(domain),
         DomainMatches(p, x), Lease(x, domain)
  PROVE  OverlapsLeases(p, domain)
<1> DEFINE k == Len(p.labels)
           n == Len(x)
           d == Len(domain)
<1>1. /\ k \in Nat /\ n \in Nat /\ d \in Nat /\ k # 0
      /\ p.labels \in [1..k -> Range(p.labels)] /\ x \in [1..n -> Range(x)]
      /\ domain \in [1..d -> Range(domain)]
  <2>1. /\ p.labels \in Seq(Range(p.labels)) /\ x \in Seq(Range(x)) /\ domain \in Seq(Range(domain))
        /\ p.labels # <<>>
    BY DEF IsPattern, IsList
  <2> QED BY <2>1, LenProperties, EmptySeq
<1>2. /\ k <= n /\ (p.kind = "exact" => n = k) /\ (p.kind = "dot" => n # k)
      /\ \A i \in 0..(k - 1) : p.labels[k - i] \in {"*", x[n - i]}
  BY DEF DomainMatches
<1>3. CASE n = 1
  <2>1. k = 1 /\ p.kind # "dot"
    BY <1>1, <1>2, <1>3
  <2> QED BY <2>1 DEF OverlapsLeases
<1>4. CASE n # 1
  <2>1. domain # <<>> /\ n > d /\ Suffix(x, d) = domain
    BY <1>4 DEF Lease
  <2>2. \A i \in 0..(d - 1) : domain[d - i] = x[n - i]
    <3>1. d <= n
      BY <1>1, <2>1
    <3> HIDE DEF n, d
    <3>2. \A i \in 0..(d - 1) : Suffix(x, d)[d - i] = x[n - i]
      BY <1>1, <3>1, SuffixIs DEF n
    <3> QED BY <2>1, <3>2, Zenon
  <2>3. CASE Wild(p)
    <3> DEFINE shared == IF k < d THEN k ELSE d
    <3>1. \A i \in 0..(shared - 1) : p.labels[k - i] \in {"*", domain[d - i]}
      <4> SUFFICES ASSUME NEW i \in 0..(shared - 1) PROVE p.labels[k - i] \in {"*", domain[d - i]}
        OBVIOUS
      <4>1. i \in 0..(k - 1) /\ i \in 0..(d - 1)
        BY <1>1
      <4> QED BY <1>2, <2>2, <4>1
    <3>2. p.kind # "exact" \/ k >= d
      BY <1>1, <1>2, <2>1
    <3> QED BY <2>1, <2>3, <3>1, <3>2 DEF OverlapsLeases
  <2>4. CASE ~Wild(p)
    <3>1. n = k /\ "*" \notin Range(p.labels)
      BY <1>2, <2>4 DEF Wild
    <3>2. ASSUME NEW i \in 1..k PROVE p.labels[i] = x[i]
      <4>1. k - i \in 0..(k - 1) /\ k - (k - i) = i /\ n - (k - i) = i
        BY <1>1, <3>1
      <4>2. p.labels[k - (k - i)] \in {"*", x[n - (k - i)]}
        BY <1>2, <4>1
      <4>3. p.labels[i] \in Range(p.labels)
        BY <1>1
      <4> QED BY <3>1, <4>1, <4>2, <4>3
    <3>3. p.labels = x
      BY <1>1, <3>1, <3>2
    <3>4. k >= d
      BY <1>1, <2>1, <3>1
    <3> QED BY <2>1, <2>4, <3>3, <3>4 DEF OverlapsLeases
  <2> QED BY <2>3, <2>4
<1> QED BY <1>3, <1>4

\* And so is an alias that ends at one.
LEMMA LeaseOverlaps ==
  ASSUME NEW x, IsList(x), NEW domain, IsList(domain), Lease(x, domain)
  PROVE  OverlapsLeases([kind |-> "exact", labels |-> x], domain)
<1> DEFINE p == [kind |-> "exact", labels |-> x]
<1>1. Len(x) \in Nat /\ Len(domain) \in Nat
  BY DEF IsList
<1>2. x # <<>>
  BY <1>1, EmptySeq DEF Lease
<1>3. IsPattern(p)
  BY <1>2 DEF IsPattern
<1>4. DomainMatches(p, x)
  BY <1>1 DEF DomainMatches
<1> HIDE DEF p
<1>5. OverlapsLeases(p, domain)
  BY <1>3, <1>4, MatchOverlaps
<1> QED BY <1>5 DEF p

(***************************************************************************)
(* Chains of aliases: the sets both recursions compute, by the chains that  *)
(* lead to their members.                                                   *)
(***************************************************************************)
AliasOf(hosts, x) == {hosts[p].to : p \in {q \in Found(hosts, x) : hosts[q].alias}}

\* One step of the lookups (LedTo), or of what the check reaches (ReachedIn).
ChainStep(hosts, start, how, g, i) ==
    IF i = 0 THEN {start}
    ELSE IF how = "check" THEN g[i - 1] \cup UNION {AliasTargets(hosts, x) : x \in g[i - 1]}
    ELSE UNION {AliasOf(hosts, x) : x \in g[i - 1]}

IsChainStep(hosts, start, how, k, g) == g = [i \in 0..k |-> ChainStep(hosts, start, how, g, i)]

LEMMA ChainExists ==
  ASSUME NEW hosts, NEW start, NEW how, NEW N \in Nat
  PROVE  \A k \in 0..N : \E g : IsChainStep(hosts, start, how, k, g)
<1> DEFINE P(k) == \E g : g = [i \in 0..k |-> ChainStep(hosts, start, how, g, i)]
           T == {k \in 0..N : ~P(k)}
<1>1. SUFFICES ASSUME T # {} PROVE FALSE
  BY DEF IsChainStep
<1>2. PICK k \in T : \A j \in T : k <= j
  <2>1. T \subseteq Nat
    OBVIOUS
  <2> HIDE DEF T
  <2> QED BY <1>1, <2>1, LeastNatural
<1>3. k \in Nat /\ k <= N /\ ~P(k)
  BY <1>2
<1>4. CASE k = 0
  <2> DEFINE g == [i \in 0..0 |-> {start}]
  <2>1. g = [i \in 0..0 |-> ChainStep(hosts, start, how, g, i)]
    BY DEF ChainStep
  <2> QED BY <1>3, <1>4, <2>1
<1>5. CASE k # 0
  <2>1. P(k - 1)
    <3>1. k - 1 \in 0..N /\ ~(k <= k - 1)
      BY <1>3, <1>5
    <3> HIDE DEF P
    <3> QED BY <1>2, <3>1
  <2>2. PICK g : g = [i \in 0..(k - 1) |-> ChainStep(hosts, start, how, g, i)]
    BY <2>1
  <2> DEFINE h == [i \in 0..k |-> IF i = k THEN ChainStep(hosts, start, how, g, k) ELSE g[i]]
  <2>3. ASSUME NEW i \in 0..k PROVE h[i] = ChainStep(hosts, start, how, h, i)
    <3>1. i # 0 => h[i - 1] = g[i - 1] /\ i - 1 \in 0..(k - 1)
      BY <1>3, <1>5
    <3> HIDE DEF h
    <3>2. ChainStep(hosts, start, how, h, i) = ChainStep(hosts, start, how, g, i)
      BY <3>1, Zenon DEF ChainStep
    <3>3. CASE i = k
      BY <3>2, <3>3 DEF h
    <3>4. CASE i # k
      <4>1. i \in 0..(k - 1)
        BY <1>3, <3>4
      <4>2. h[i] = g[i]
        BY <3>4 DEF h
      <4>3. g[i] = ChainStep(hosts, start, how, g, i)
        <5>1. [m \in 0..(k - 1) |-> ChainStep(hosts, start, how, g, m)][i] =
                  ChainStep(hosts, start, how, g, i)
          BY <4>1
        <5> QED BY <2>2, <5>1, Zenon
      <4> QED BY <3>2, <4>2, <4>3
    <3> QED BY <3>3, <3>4
  <2>4. DOMAIN h = 0..k /\ h = [i \in 0..k |-> h[i]]
    OBVIOUS
  <2> HIDE DEF h
  <2>5. h = [i \in 0..k |-> ChainStep(hosts, start, how, h, i)]
    BY <2>3, <2>4
  <2> QED BY <1>3, <2>5
<1> QED BY <1>4, <1>5

LEMMA LedToIs ==
  ASSUME NEW hosts, NEW start, NEW k \in Nat
  PROVE  \E g : /\ LedTo(hosts, start, k) = g[k]
                /\ \A i \in 0..k : g[i] = ChainStep(hosts, start, "lookup", g, i)
<1> DEFINE led == CHOOSE g : g = [i \in 0..k |-> ChainStep(hosts, start, "lookup", g, i)]
<1>1. \E g : g = [i \in 0..k |-> ChainStep(hosts, start, "lookup", g, i)]
  <2>1. k \in 0..k
    OBVIOUS
  <2>2. \E g : IsChainStep(hosts, start, "lookup", k, g)
    BY <2>1, ChainExists
  <2> QED BY <2>2, Zenon DEF IsChainStep
<1>2. led = [i \in 0..k |-> ChainStep(hosts, start, "lookup", led, i)]
  BY <1>1, Zenon
<1>3. LedTo(hosts, start, k) = led[k]
  BY DEF LedTo, ChainStep, AliasOf
<1> HIDE DEF led
<1>4. \A i \in 0..k : led[i] = ChainStep(hosts, start, "lookup", led, i)
  <2> SUFFICES ASSUME NEW i \in 0..k PROVE led[i] = ChainStep(hosts, start, "lookup", led, i)
    OBVIOUS
  <2>1. [j \in 0..k |-> ChainStep(hosts, start, "lookup", led, j)][i] = ChainStep(hosts, start, "lookup", led, i)
    OBVIOUS
  <2> QED BY <1>2, <2>1, Zenon
<1> QED BY <1>3, <1>4

LEMMA ReachedInIs ==
  ASSUME NEW hosts, NEW start, IsFiniteSet(DOMAIN hosts)
  PROVE  LET most == Cardinality(DOMAIN hosts)
         IN  \E g : /\ ReachedIn(hosts, start) = g[most]
                    /\ \A i \in 0..most : g[i] = ChainStep(hosts, start, "check", g, i)
<1> DEFINE most == Cardinality(DOMAIN hosts)
           reach == CHOOSE g : g = [i \in 0..most |-> ChainStep(hosts, start, "check", g, i)]
<1>1. \E g : g = [i \in 0..most |-> ChainStep(hosts, start, "check", g, i)]
  <2>1. most \in Nat
    BY FS_CardinalityType
  <2>2. most \in 0..most
    BY <2>1
  <2> HIDE DEF most
  <2>3. \E g : IsChainStep(hosts, start, "check", most, g)
    BY <2>1, <2>2, ChainExists
  <2> QED BY <2>3, Zenon DEF IsChainStep
<1>2. reach = [i \in 0..most |-> ChainStep(hosts, start, "check", reach, i)]
  BY <1>1, Zenon
<1>3. ReachedIn(hosts, start) = reach[most]
  BY DEF ReachedIn, ChainStep
<1> HIDE DEF reach, most
<1>4. \A i \in 0..most : reach[i] = ChainStep(hosts, start, "check", reach, i)
  <2> SUFFICES ASSUME NEW i \in 0..most PROVE reach[i] = ChainStep(hosts, start, "check", reach, i)
    OBVIOUS
  <2>1. [j \in 0..most |-> ChainStep(hosts, start, "check", reach, j)][i] =
            ChainStep(hosts, start, "check", reach, i)
    OBVIOUS
  <2> QED BY <1>2, <2>1, Zenon
<1> QED BY <1>3, <1>4 DEF most

\* A chain, from start to x in k steps, each to an alias the check looked at.
Chain(hosts, f, start, x, k) ==
    f[0] = start /\ f[k] = x /\ \A j \in 0..(k - 1) : f[j + 1] \in AliasTargets(hosts, f[j])

LEMMA LedByChain ==
  ASSUME NEW hosts, IsHosts(hosts), NEW start, IsList(start), NEW k \in Nat,
         NEW x \in LedTo(hosts, start, k)
  PROVE  IsList(x) /\ \E f : Chain(hosts, f, start, x, k)
<1>1. PICK g : /\ LedTo(hosts, start, k) = g[k]
               /\ \A i \in 0..k : g[i] = ChainStep(hosts, start, "lookup", g, i)
  BY LedToIs
<1> DEFINE Good(i) == \A y \in g[i] : IsList(y) /\ \E f : Chain(hosts, f, start, y, i)
           T == {i \in 0..k : ~Good(i)}
<1>2. T = {}
  <2>1. SUFFICES ASSUME T # {} PROVE FALSE
    OBVIOUS
  <2>2. PICK i \in T : \A j \in T : i <= j
    <3>1. T \subseteq Nat
      OBVIOUS
    <3> HIDE DEF T
    <3> QED BY <2>1, <3>1, LeastNatural
  <2>3. i \in 0..k /\ i \in Nat /\ ~Good(i)
    BY <2>2
  <2>4. CASE i = 0
    <3>1. g[i] = {start}
      BY <1>1, <2>3, <2>4 DEF ChainStep
    <3> DEFINE f == [j \in {0} |-> start]
    <3>2. Chain(hosts, f, start, start, 0)
      BY DEF Chain
    <3> HIDE DEF f
    <3> QED BY <2>3, <2>4, <3>1, <3>2
  <2>5. CASE i # 0
    <3>1. i - 1 \in 0..k /\ ~(i <= i - 1)
      BY <2>3, <2>5
    <3>2. Good(i - 1)
      <4> HIDE DEF Good
      <4> QED BY <2>2, <3>1
    <3>3. g[i] = UNION {AliasOf(hosts, z) : z \in g[i - 1]}
      BY <1>1, <2>3, <2>5, Zenon DEF ChainStep
    <3>4. ASSUME NEW y \in g[i] PROVE IsList(y) /\ \E f : Chain(hosts, f, start, y, i)
      <4>1. PICK z \in g[i - 1] : y \in AliasOf(hosts, z)
        BY <3>3
      <4>2. IsList(z)
        BY <3>2
      <4>3. PICK f : Chain(hosts, f, start, z, i - 1)
        BY <3>2
      <4>4. PICK p \in Found(hosts, z) : hosts[p].alias /\ y = hosts[p].to
        BY <4>1 DEF AliasOf
      <4>5. ArePatterns(hosts)
        BY DEF IsHosts, ArePatterns
      <4>6. p \in BestEntries(hosts, z) /\ p \in DOMAIN hosts
        BY <4>2, <4>5, FoundIsBest
      <4>7. IsList(y)
        BY <4>4, <4>6 DEF IsHosts
      <4>8. y \in AliasTargets(hosts, z)
        BY <4>4, <4>6 DEF AliasTargets
      <4> DEFINE h == [j \in 0..i |-> IF j = i THEN y ELSE f[j]]
      <4>9. h[0] = start /\ h[i] = y
        BY <2>3, <2>5, <4>3 DEF Chain
      <4>10. ASSUME NEW j \in 0..(i - 1) PROVE h[j + 1] \in AliasTargets(hosts, h[j])
        <5>1. h[j] = f[j] /\ j + 1 \in 0..i
          BY <2>3
        <5>2. CASE j = i - 1
          <6>1. h[j + 1] = y /\ f[j] = z
            BY <2>3, <4>3, <5>2 DEF Chain
          <6> HIDE DEF h
          <6> QED BY <4>8, <5>1, <6>1
        <5>3. CASE j # i - 1
          <6>1. h[j + 1] = f[j + 1] /\ j \in 0..(i - 1 - 1)
            BY <2>3, <5>1, <5>3
          <6> HIDE DEF h
          <6>2. f[j + 1] \in AliasTargets(hosts, f[j])
            BY <4>3, <6>1 DEF Chain
          <6> QED BY <5>1, <6>1, <6>2
        <5> QED BY <5>2, <5>3
      <4> HIDE DEF h
      <4>11. Chain(hosts, h, start, y, i)
        BY <4>9, <4>10 DEF Chain
      <4> QED BY <4>7, <4>11
    <3> QED BY <2>3, <3>4
  <2> QED BY <2>4, <2>5
<1>3. Good(k)
  <2>1. k \in 0..k
    OBVIOUS
  <2> HIDE DEF Good
  <2> QED BY <1>2, <2>1
<1> QED BY <1>1, <1>3

\* What a chain no longer than the hosts leads to, the check has reached.
LEMMA ChainIsReached ==
  ASSUME NEW hosts, IsFiniteSet(DOMAIN hosts), NEW start, NEW x, NEW f,
         NEW k \in 0..Cardinality(DOMAIN hosts), Chain(hosts, f, start, x, k)
  PROVE  x \in ReachedIn(hosts, start)
<1> DEFINE most == Cardinality(DOMAIN hosts)
<1>1. most \in Nat
  BY FS_CardinalityType
<1>2. PICK g : /\ ReachedIn(hosts, start) = g[most]
               /\ \A i \in 0..most : g[i] = ChainStep(hosts, start, "check", g, i)
  BY ReachedInIs
<1> HIDE DEF most
<1> DEFINE Has(i) == \A j \in 0..k : j <= i => f[j] \in g[i]
           T == {i \in 0..most : ~Has(i)}
<1>3. T = {}
  <2>1. SUFFICES ASSUME T # {} PROVE FALSE
    OBVIOUS
  <2>2. PICK i \in T : \A j \in T : i <= j
    <3>1. T \subseteq Nat
      OBVIOUS
    <3> HIDE DEF T
    <3> QED BY <2>1, <3>1, LeastNatural
  <2>3. i \in 0..most /\ i \in Nat /\ ~Has(i)
    BY <2>2
  <2>4. CASE i = 0
    <3>1. g[i] = {start}
      BY <1>2, <2>3, <2>4 DEF ChainStep
    <3>2. f[0] = start
      BY DEF Chain
    <3>3. ASSUME NEW j \in 0..k, j <= i PROVE f[j] \in g[i]
      <4>1. j = 0
        BY <2>4, <3>3
      <4> QED BY <3>1, <3>2, <4>1
    <3> QED BY <2>3, <3>3
  <2>5. CASE i # 0
    <3>1. i - 1 \in 0..most /\ ~(i <= i - 1)
      <4> HIDE DEF Has
      <4> QED BY <1>1, <2>3, <2>5
    <3>2. Has(i - 1)
      <4> HIDE DEF Has
      <4> QED BY <2>2, <3>1
    <3>3. g[i] = g[i - 1] \cup UNION {AliasTargets(hosts, z) : z \in g[i - 1]}
      BY <1>2, <2>3, <2>5, Zenon DEF ChainStep
    <3>4. ASSUME NEW j \in 0..k, j <= i PROVE f[j] \in g[i]
      <4>1. CASE j <= i - 1
        BY <3>2, <3>3, <4>1
      <4>2. CASE j = i
        <5>1. i - 1 \in 0..k /\ i - 1 <= i - 1 /\ i - 1 \in 0..(k - 1) /\ (i - 1) + 1 = j
          BY <2>3, <2>5, <3>4, <4>2
        <5>2. f[i - 1] \in g[i - 1]
          BY <3>2, <5>1
        <5>3. f[(i - 1) + 1] \in AliasTargets(hosts, f[i - 1])
          BY <5>1 DEF Chain
        <5>4. f[j] \in AliasTargets(hosts, f[i - 1])
          BY <5>1, <5>3
        <5> QED BY <3>3, <5>2, <5>4
      <4> QED BY <2>3, <3>4, <4>1, <4>2
    <3> QED BY <2>3, <3>4
  <2> QED BY <2>4, <2>5
<1>4. Has(most)
  <2>1. most \in 0..most
    BY <1>1
  <2> HIDE DEF Has
  <2> QED BY <1>3, <2>1
<1>5. k \in 0..k /\ k <= most
  BY <1>1 DEF most
<1> QED BY <1>2, <1>4, <1>5 DEF Chain

LEMMA PartOfChain ==
  ASSUME NEW hosts, NEW f, NEW start, NEW x, NEW k \in Nat, Chain(hosts, f, start, x, k),
         NEW a \in 0..k, NEW b \in a..k
  PROVE  \E h : Chain(hosts, h, f[a], f[b], b - a)
<1> DEFINE h == [j \in 0..(b - a) |-> f[a + j]]
<1>1. h[0] = f[a] /\ h[b - a] = f[b]
  OBVIOUS
<1>2. ASSUME NEW j \in 0..((b - a) - 1) PROVE h[j + 1] \in AliasTargets(hosts, h[j])
  <2>1. h[j] = f[a + j] /\ h[j + 1] = f[(a + j) + 1] /\ a + j \in 0..(k - 1)
    OBVIOUS
  <2> HIDE DEF h
  <2>2. f[(a + j) + 1] \in AliasTargets(hosts, f[a + j])
    BY <2>1 DEF Chain
  <2> QED BY <2>1, <2>2
<1> HIDE DEF h
<1>3. Chain(hosts, h, f[a], f[b], b - a)
  BY <1>1, <1>2 DEF Chain
<1> QED BY <1>3

\* A chain longer than the hosts uses an entry twice: the check has seen the
\* circle it goes through.
LEMMA LongChainIsCircular ==
  ASSUME NEW hosts, IsFiniteSet(DOMAIN hosts), NEW start, NEW x, NEW f,
         Chain(hosts, f, start, x, Cardinality(DOMAIN hosts) + 1)
  PROVE  Circular(hosts, start)
<1> DEFINE most == Cardinality(DOMAIN hosts)
           entry(y) == CHOOSE p \in DOMAIN hosts : hosts[p].to = y
           used == [j \in 1..(most + 1) |-> entry(f[j])]
<1>1. most \in Nat
  BY FS_CardinalityType
<1> HIDE DEF most
<1>2. ASSUME NEW j \in 1..(most + 1)
      PROVE  entry(f[j]) \in DOMAIN hosts /\ hosts[entry(f[j])].to = f[j]
  <2>1. j - 1 \in 0..((most + 1) - 1) /\ (j - 1) + 1 = j
    BY <1>1
  <2>2. f[(j - 1) + 1] \in AliasTargets(hosts, f[j - 1])
    BY <2>1 DEF Chain, most
  <2>3. f[j] \in AliasTargets(hosts, f[j - 1])
    BY <2>1, <2>2
  <2>4. \E p \in DOMAIN hosts : hosts[p].to = f[j]
    BY <2>3 DEF AliasTargets, BestEntries
  <2> QED BY <2>4, Zenon
<1>3. PICK i \in 1..(most + 1), j \in 1..(most + 1) : i # j /\ used[i] = used[j]
  <2>1. used \in [1..(most + 1) -> DOMAIN hosts]
    BY <1>2
  <2>2. IsFiniteSet(1..(most + 1)) /\ Cardinality(1..(most + 1)) = most + 1
    BY <1>1, FS_Interval
  <2>3. Cardinality(DOMAIN hosts) < Cardinality(1..(most + 1))
    BY <1>1, <2>2 DEF most
  <2> HIDE DEF used
  <2> QED BY <2>1, <2>2, <2>3, FS_PigeonHole
<1>4. f[i] = f[j]
  <2>1. used[i] = entry(f[i]) /\ used[j] = entry(f[j])
    OBVIOUS
  <2> HIDE DEF used, entry
  <2> QED BY <1>2, <1>3, <2>1
<1>5. ASSUME NEW a \in 1..(most + 1), NEW b \in 1..(most + 1), a < b, f[a] = f[b]
      PROVE  Circular(hosts, start)
  <2>1. /\ Chain(hosts, f, start, x, most + 1) /\ most + 1 \in Nat
        /\ 0 \in 0..(most + 1) /\ a \in 0..(most + 1) /\ a + 1 \in 0..(most + 1)
        /\ a \in 0..((most + 1) - 1) /\ b \in (a + 1)..(most + 1)
        /\ a - 0 \in 0..most /\ b - (a + 1) \in 0..most
    BY <1>1, <1>5 DEF most
  <2>2. f[a] \in ReachedIn(hosts, start)
    <3>1. PICK h : Chain(hosts, h, f[0], f[a], a - 0)
      BY <2>1, PartOfChain
    <3>2. f[0] = start
      BY <2>1 DEF Chain
    <3> QED BY <2>1, <3>1, <3>2, ChainIsReached DEF most
  <2>3. f[a + 1] \in AliasTargets(hosts, f[a])
    BY <2>1 DEF Chain
  <2>4. f[b] \in ReachedIn(hosts, f[a + 1])
    <3>1. PICK h : Chain(hosts, h, f[a + 1], f[b], b - (a + 1))
      BY <2>1, PartOfChain
    <3> QED BY <2>1, <3>1, ChainIsReached DEF most
  <2> QED BY <1>5, <2>2, <2>3, <2>4 DEF Circular
<1>6. CASE i < j
  BY <1>4, <1>5, <1>6
<1>7. CASE j < i
  BY <1>4, <1>5, <1>7
<1> QED BY <1>3, <1>6, <1>7

(***************************************************************************)
(* The names of leases and the aliases of a draft, in an engine that runs.  *)
(***************************************************************************)
\* What runs resolves by the hosts its draft was checked in.
LEMMA HostsThatRun ==
  ASSUME NEW n, NEW s, Candidate(s), Runnable(n, s), s.custom.enabled, NEW e \in Engines(n, s)
  PROVE  /\ e.under = n /\ e.from = s /\ IsDraft(s.custom) /\ IsNet(n)
         /\ IsHosts(e.dns.hosts) /\ CandidateFits(n, e.dns.hosts, s.custom)
<1> DEFINE c == s.custom
           p == s.profile
           m == Middle(s.in).dns
<1>1. /\ s.in \in Inputs /\ Composes(s.in) /\ IsDraft(c) /\ IsProfile(p)
      /\ p.dns.hosts = Before(c.hosts, m.hosts)
  BY DraftedProfile
<1>2. m.hosts = s.in.raw.dns.hosts /\ IsHosts(m.hosts)
  BY <1>1, MiddleKeeps, PipelineAssumption DEF IsSource
<1>7. e.under = n /\ e.from = s /\ e.dns.hosts = p.dns.hosts
  <2>1. PICK name \in {"formal", "own-probe"} : Serves(e, n, s, EndpointOf(e), name)
    BY EnginesServe
  <2>2. Dns(n, s).hosts = p.dns.hosts
    BY <1>1, CoordinatedSlots DEF Dns, Runnable, IsProfile
  <2> QED BY <2>1, <2>2 DEF Serves
<1>8. IsHosts(p.dns.hosts)
  <2> HIDE DEF p, c, m
  <2>1. IsHosts(c.hosts) /\ IsHosts(m.hosts)
    BY <1>1, <1>2 DEF IsDraft
  <2>2. DOMAIN p.dns.hosts = DOMAIN c.hosts \cup DOMAIN m.hosts
    BY <1>1 DEF Before
  <2>3. IsFiniteSet(DOMAIN p.dns.hosts)
    BY <2>1, <2>2, FS_Union DEF IsHosts
  <2>4. ASSUME NEW x \in DOMAIN p.dns.hosts
        PROVE  IsPattern(x) /\ (p.dns.hosts[x].alias => IsList(p.dns.hosts[x].to))
    <3>1. p.dns.hosts[x] = IF x \in DOMAIN c.hosts THEN c.hosts[x] ELSE m.hosts[x]
      BY <1>1, <2>2, <2>4 DEF Before
    <3> QED BY <2>1, <2>2, <2>4, <3>1 DEF IsHosts
  <2> QED BY <2>3, <2>4 DEF IsHosts
<1>9. CandidateFits(n, p.dns.hosts, c)
  BY DEF Runnable, Renderable, Checked
<1>10. IsNet(n)
  BY DEF Runnable
<1> HIDE DEF p, c, m
<1>11. IsHosts(e.dns.hosts) /\ CandidateFits(n, e.dns.hosts, c)
  BY <1>7, <1>8, <1>9
<1> QED BY <1>1, <1>7, <1>10, <1>11 DEF c

\* Refused patterns are found under no name DHCP can give out.
LEMMA LeaseIsNotFound ==
  ASSUME NEW hosts, ArePatterns(hosts), NEW x, IsList(x), NEW domain, IsList(domain), Lease(x, domain),
         \A p \in DOMAIN hosts : ~OverlapsLeases(p, domain)
  PROVE  Found(hosts, x) = {}
<1> SUFFICES ASSUME NEW p \in Found(hosts, x) PROVE FALSE
  OBVIOUS
<1>1. p \in DOMAIN hosts /\ DomainMatches(p, x)
  BY FoundIsBest
<1>2. IsPattern(p)
  BY <1>1 DEF ArePatterns
<1> QED BY <1>1, <1>2, MatchOverlaps

LEMMA AliasesEndThere ==
  ASSUME NEW hosts, IsHosts(hosts), NEW start, IsList(start), ~Circular(hosts, start)
  PROVE  /\ LedTo(hosts, start, Cardinality(DOMAIN hosts) + 1) = {}
         /\ \A k \in 0..Cardinality(DOMAIN hosts) :
                \A x \in LedTo(hosts, start, k) : IsList(x) /\ x \in ReachedIn(hosts, start)
<1>1. IsFiniteSet(DOMAIN hosts) /\ Cardinality(DOMAIN hosts) \in Nat
  BY FS_CardinalityType DEF IsHosts
<1>2. Cardinality(DOMAIN hosts) + 1 \in Nat
  BY <1>1
<1>3. ASSUME NEW x \in LedTo(hosts, start, Cardinality(DOMAIN hosts) + 1) PROVE FALSE
  BY <1>1, <1>2, <1>3, LedByChain, LongChainIsCircular
<1>4. ASSUME NEW k \in 0..Cardinality(DOMAIN hosts), NEW x \in LedTo(hosts, start, k)
      PROVE  IsList(x) /\ x \in ReachedIn(hosts, start)
  <2>1. k \in Nat
    BY <1>1
  <2> QED BY <1>1, <1>4, <2>1, LedByChain, ChainIsReached
<1> QED BY <1>3, <1>4

LEMMA LeasesReservedHere ==
  ASSUME NEW n, IsNet(n), NEW c, IsDraft(c), NEW hosts, IsHosts(hosts), CandidateFits(n, hosts, c)
  PROVE  LET policies == [f \in {g \in DOMAIN c.res : Len(g) = 2} |-> c.res[f]]
         IN  /\ n.dhcp => \A x \in {y \in Names : Lease(y, n.domain)} :
                    /\ Found(c.hosts, x) = {}
                    /\ Found([p \in {f[2] : f \in DOMAIN policies} |-> TRUE], x) = {}
             /\ \A p \in DOMAIN c.hosts : c.hosts[p].alias =>
                    /\ LedTo(hosts, c.hosts[p].to, Cardinality(DOMAIN hosts) + 1) = {}
                    /\ n.dhcp => \A k \in 0..Cardinality(DOMAIN hosts) :
                                     \A x \in LedTo(hosts, c.hosts[p].to, k) : ~Lease(x, n.domain)
<1> DEFINE fields == {g \in DOMAIN c.res : Len(g) = 2}
           policies == [f \in fields |-> c.res[f]]
           patterns == {f[2] : f \in DOMAIN policies}
           answers == [p \in patterns |-> TRUE]
<1>1. IsList(n.domain) /\ IsHosts(c.hosts) /\ \A f \in fields : IsPattern(f[2])
  BY DEF IsNet, IsDraft
<1>2. patterns = {f[2] : f \in fields} /\ DOMAIN answers = patterns
  OBVIOUS
<1> HIDE DEF patterns, policies, fields
<1>3. n.dhcp => /\ \A p \in DOMAIN c.hosts : ~OverlapsLeases(p, n.domain)
                /\ \A p \in patterns : ~OverlapsLeases(p, n.domain)
  BY <1>2 DEF CandidateFits, fields
<1>4. ArePatterns(c.hosts) /\ ArePatterns(answers)
  <2>1. \A p \in patterns : IsPattern(p)
    BY <1>1, <1>2
  <2> QED BY <1>1, <2>1 DEF IsHosts, ArePatterns
<1>5. ASSUME n.dhcp, NEW x \in Names, Lease(x, n.domain)
      PROVE  Found(c.hosts, x) = {} /\ Found(answers, x) = {}
  <2>1. IsList(x)
    BY PipelineAssumption
  <2>2. \A p \in DOMAIN answers : ~OverlapsLeases(p, n.domain)
    BY <1>2, <1>3, <1>5
  <2> HIDE DEF answers
  <2> QED BY <1>1, <1>3, <1>4, <1>5, <2>1, <2>2, LeaseIsNotFound
<1>6. ASSUME NEW p \in DOMAIN c.hosts, c.hosts[p].alias
      PROVE  /\ LedTo(hosts, c.hosts[p].to, Cardinality(DOMAIN hosts) + 1) = {}
             /\ n.dhcp => \A k \in 0..Cardinality(DOMAIN hosts) :
                              \A x \in LedTo(hosts, c.hosts[p].to, k) : ~Lease(x, n.domain)
  <2> DEFINE start == c.hosts[p].to
  <2>1. IsList(start)
    BY <1>1, <1>6 DEF IsHosts
  <2>2. /\ ~Circular(hosts, start)
        /\ n.dhcp => \A x \in ReachedIn(hosts, start) :
                         ~OverlapsLeases([kind |-> "exact", labels |-> x], n.domain)
    BY <1>6 DEF CandidateFits, AliasesEnd
  <2> HIDE DEF start
  <2>3. /\ LedTo(hosts, start, Cardinality(DOMAIN hosts) + 1) = {}
        /\ \A k \in 0..Cardinality(DOMAIN hosts) :
               \A x \in LedTo(hosts, start, k) : IsList(x) /\ x \in ReachedIn(hosts, start)
    BY <2>1, <2>2, AliasesEndThere
  <2>4. ASSUME n.dhcp, NEW k \in 0..Cardinality(DOMAIN hosts), NEW x \in LedTo(hosts, start, k)
        PROVE  ~Lease(x, n.domain)
    <3>1. IsList(x) /\ ~OverlapsLeases([kind |-> "exact", labels |-> x], n.domain)
      BY <2>2, <2>3, <2>4
    <3> QED BY <1>1, <3>1, LeaseOverlaps
  <2>5. n.dhcp => \A k \in 0..Cardinality(DOMAIN hosts) :
                     \A x \in LedTo(hosts, start, k) : ~Lease(x, n.domain)
    BY <2>4
  <2> QED BY <2>3, <2>5 DEF start
<1> QED BY <1>5, <1>6, Zenon DEF policies, patterns, fields

(***************************************************************************)
(* The inductive invariant: what is selected is a candidate, and what runs  *)
(* was rendered from one under settings it fits, or is a copy of that.      *)
(***************************************************************************)
RunsCandidate(e) == \E n, s : IsNet(n) /\ Candidate(s) /\ Renderable(n, s) /\ e \in Engines(n, s)

PipelineInv ==
    /\ input \in Inputs /\ IsDraft(custom) /\ IsNet(net)
    /\ saved # Absent => Candidate(saved)
    /\ Runs => RunsCandidate(engine)

LEMMA PipelineInitInv == PipelineInit => PipelineInv
<1> SUFFICES ASSUME PipelineInit PROVE PipelineInv
  OBVIOUS
<1>1. input \in Inputs /\ IsDraft(custom) /\ IsNet(net) /\ ~Runs
  BY PipelineAssumption DEF PipelineInit, Runs
<1>2. saved # Absent => Candidate(saved)
  BY DEF PipelineInit, Candidate
<1> QED BY <1>1, <1>2 DEF PipelineInv

LEMMA RunsIt ==
  ASSUME NEW n, IsNet(n), NEW s, Candidate(s), Renderable(n, s), NEW e \in Engines(n, s)
  PROVE  RunsCandidate(e)
BY DEF RunsCandidate

LEMMA PipelineNextInv == ASSUME PipelineInv, [PipelineNext]_pipeline PROVE PipelineInv'
<1> USE DEF PipelineInv, Runs
<1>1. ASSUME NEW c \in Customs, SaveDraft(c) PROVE PipelineInv'
  BY <1>1, PipelineAssumption DEF SaveDraft
<1>2. ASSUME NEW c \in Customs, NEW s, ImportDraft(c, s) PROVE PipelineInv'
  <2>1. IsDraft(Imported(custom, c, s))
    BY PipelineAssumption DEF IsDraft, Imported
  <2> QED BY <1>2, <2>1 DEF ImportDraft
<1>3. ASSUME NEW n \in Nets, ChangeNet(n) PROVE PipelineInv'
  BY <1>3, PipelineAssumption DEF ChangeNet
<1>4. ASSUME Composable(input.raw, input.overlay, custom) PROVE Candidate(Composed(input, custom))
  BY <1>4 DEF Candidate, Fresh
<1>5. CASE StartDraft
  <2>1. /\ Candidate(saved') /\ Renderable(net, saved') /\ engine' = Rendered(net, saved')
        /\ UNCHANGED <<input, custom, net>>
    BY <1>4, <1>5 DEF StartDraft
  <2>2. RunsCandidate(engine')
    BY <2>1, RunsIt DEF Engines
  <2> QED BY <2>1, <2>2 DEF RunsCandidate, Engines
<1>6. CASE StartSaved
  <2>1. /\ Candidate(saved) /\ Renderable(net, saved) /\ engine' = Rendered(net, saved)
        /\ UNCHANGED <<input, custom, net, saved>>
    BY <1>6 DEF StartSaved
  <2>2. RunsCandidate(engine')
    BY <2>1, RunsIt DEF Engines
  <2> QED BY <2>1, <2>2 DEF RunsCandidate, Engines
<1>7. CASE Prepare
  <2> DEFINE s == Composed(input, custom)
  <2>1. /\ Candidate(s) /\ Renderable(net, s) /\ engine' = Copied(net, s)
        /\ UNCHANGED <<input, custom, net, saved>>
    BY <1>4, <1>7 DEF Prepare, Copied
  <2> HIDE DEF s
  <2>2. RunsCandidate(engine')
    BY <2>1, RunsIt DEF Engines
  <2> QED BY <2>1, <2>2 DEF RunsCandidate, Engines
<1>8. CASE Stop
  BY <1>8 DEF Stop
<1>9. CASE UNCHANGED pipeline
  BY <1>9 DEF pipeline
<1> QED BY <1>1, <1>2, <1>3, <1>5, <1>6, <1>7, <1>8, <1>9 DEF PipelineNext

LEMMA PipelineInvariance == PipelineSpec => []PipelineInv
<1>1. PipelineInit => PipelineInv
  BY PipelineInitInv
<1>2. PipelineInv /\ [PipelineNext]_pipeline => PipelineInv'
  BY PipelineNextInv
<1> QED BY <1>1, <1>2, PTL DEF PipelineSpec

\* What runs, by the candidate it was rendered from.
LEMMA WhatRuns ==
  ASSUME PipelineInv, Runs
  PROVE  \E n, s, name : /\ Candidate(s) /\ Runnable(n, s) /\ engine \in Engines(n, s)
                         /\ Serves(engine, n, s, EndpointOf(engine), name)
                         /\ engine.kind = "prepared" => engine = Copied(n, s)
<1>1. PICK n, s : IsNet(n) /\ Candidate(s) /\ Renderable(n, s) /\ engine \in Engines(n, s)
  BY DEF PipelineInv, RunsCandidate
<1>2. Runnable(n, s)
  BY <1>1, CandidateRuns DEF Runnable
<1>3. Rendered(n, s).kind # "prepared"
  BY <1>2, RenderedServes
<1> QED BY <1>1, <1>2, <1>3, EnginesServe DEF Engines

\* Both in the gateway and in a prepared copy, for any sources, overlays,
\* drafts and settings: references of a source to its own DNS are bound to
\* the engine that runs, and, but for the endpoints and the spelling the code
\* overlooks, no resolver ends up asking itself.
THEOREM SelfReferencesAlwaysBound == PipelineSpec => []SelfReferencesBound
<1>1. PipelineInv => SelfReferencesBound
  <2> SUFFICES ASSUME PipelineInv, Runs PROVE SelfFollows /\ NoLoopThroughSelf
    BY DEF SelfReferencesBound, SelfFollows, NoLoopThroughSelf
  <2>1. PICK n, s, name : /\ Candidate(s) /\ Runnable(n, s) /\ engine \in Engines(n, s)
                          /\ Serves(engine, n, s, EndpointOf(engine), name)
    BY WhatRuns
  <2>2. NoLoopThroughSelf
    BY <2>1, NoLoopHere DEF NoLoopThroughSelf
  <2>3. \A x \in Slots(engine.dns) : ~Leads(engine, x)
    BY <2>1, FollowsHere
  <2>4. SelfFollows
    BY <2>3 DEF SelfFollows, Leads
  <2> QED BY <2>2, <2>4
<1> QED BY <1>1, PipelineInvariance, PTL

\* A prepared copy is apart from the gateway: it never asks the gateway's
\* endpoint, listens only for its own references, and is otherwise the same.
THEOREM PreparedAlwaysApart == PipelineSpec => []PreparedIsApart
<1>1. PipelineInv => PreparedIsApart
  <2> SUFFICES ASSUME PipelineInv, engine.kind = "prepared" PROVE PreparedIsApart
    BY DEF PreparedIsApart
  <2>1. Runs
    BY DEF Runs, Absent
  <2>2. PICK n, s, name : /\ Runnable(n, s) /\ Serves(engine, n, s, EndpointOf(engine), name)
                          /\ engine = Copied(n, s)
    BY <2>1, WhatRuns
  <2>3. engine.under = n /\ engine.from = s
    BY <2>2 DEF Serves
  <2> DEFINE own == {x \in Slots(engine.dns) : TargetAt(engine.dns, x) = Private}
             extra(dns) == {x \in Slots(dns) : TargetAt(dns, x).host = "rcode"}
             final == Rendered(engine.under, engine.from)
  <2>4. /\ \A x \in Slots(engine.dns) : Elsewhere(TargetAt(engine.dns, x))
        /\ (engine.listen = "private") <=> (own # {})
        /\ Cardinality(extra(engine.dns)) = IF own = {} THEN 0 ELSE 1
        /\ \A x \in Slots(final.dns) \ (final.self \cup extra(final.dns)) :
               TargetAt(engine.dns, x) = TargetAt(final.dns, x)
    BY <2>2, <2>3, ApartHere
  <2> QED BY <2>4 DEF PreparedIsApart, Elsewhere
<1> QED BY <1>1, PipelineInvariance, PTL

\* Each layer decides what it speaks about: the draft over the host, the
\* overlay and the source, in what the engine uses and in what is reported;
\* in the filter the host's private domains, then the draft's items.
THEOREM LayersAlwaysInOrder == PipelineSpec => []LayersInOrder
<1>1. PipelineInv => LayersInOrder
  <2> SUFFICES ASSUME PipelineInv PROVE LastLayerWins /\ OverlayIsLocal
    BY DEF LayersInOrder
  <2>1. ReferencesResolve
    <3> SUFFICES ASSUME saved # Absent, Sound(Read(saved.in.raw)) PROVE Sound(saved.profile)
      BY DEF ReferencesResolve, Sound
    <3> QED BY CandidateSound DEF PipelineInv
  <2>2. CASE ~Runs
    BY <2>1, <2>2 DEF LastLayerWins, OverlayIsLocal, CustomWins, FilterInOrder, OriginsAreTrue,
                      SourceStillDecides
  <2>3. CASE Runs
    <3>1. PICK n, s, name : /\ Candidate(s) /\ Runnable(n, s) /\ engine \in Engines(n, s)
                            /\ Serves(engine, n, s, EndpointOf(engine), name)
      BY <2>3, WhatRuns
    <3>2. engine.from = s /\ engine.rules = s.profile.rules
      BY <3>1 DEF Serves
    <3>3. CustomWins
      <4> SUFFICES ASSUME s.custom.enabled PROVE CustomWins
        BY <3>2 DEF CustomWins
      <4> QED BY <3>1, <3>2, CustomWinsHere DEF CustomWins
    <3>4. OriginsAreTrue
      <4> SUFFICES ASSUME s.profile.meta.stored, NEW x \in DOMAIN engine.origins
                   PROVE  engine.origins[x].layer =
                             IF x \notin Slots(s.profile.dns) THEN "managed"
                             ELSE LastLayer(s.in.raw.dns, Retained(s.in.raw.dns, Default),
                                            Middle(s.in).dns, s.profile.dns, x)
        BY <3>2 DEF OriginsAreTrue, LastLayer, Same, Middle
      <4> QED BY <3>1, OriginsHere
    <3>5. SourceStillDecides
      BY <3>1, <3>2, SourceDecidesHere DEF SourceStillDecides, NoRules
    <3>6. FilterInOrder
      <4> SUFFICES ASSUME s.custom.enabled, s.custom.filter # <<>> PROVE FilterInOrder
        BY <3>2 DEF FilterInOrder
      <4>1. engine.under = n
        BY <3>1 DEF Serves
      <4> DEFINE c == s.custom
                 list == c.filter[1]
                 filter == engine.dns.filter
                 m == Middle(s.in).dns
                 host == HostItems(n, engine.dns)
                 rest == IF NextMode(m, c) = m.mode THEN m.filter ELSE <<>>
      <4>2. /\ Range(list) \subseteq Range(filter)
            /\ engine.dns.mode = "rule" => \A M : Decides(filter, M) =
                  IF Decides(host, M) # <<>> THEN Decides(host, M)
                  ELSE IF Decides(list, M) # <<>> THEN Decides(list, M)
                  ELSE Decides(rest, M)
        BY <3>1, FilterHere
      <4> DEFINE mid == WithOverlay(Read(engine.from.in.raw), engine.from.in.overlay).dns
                 ours == IF Uncoordinated(engine.under) THEN <<>>
                         ELSE PrivateFilter(engine.under, engine.dns)
      <4>3. mid = m /\ ours = host /\ engine.from.custom = c
        BY <3>2, <4>1 DEF Middle, HostItems
      <4> HIDE DEF mid, ours, m, host
      <4>4. /\ Range(list) \subseteq Range(filter)
            /\ engine.dns.mode = "rule" => \A M \in SUBSET Range(filter) : Decides(filter, M) =
                  IF Decides(ours, M) # <<>> THEN Decides(ours, M)
                  ELSE IF Decides(list, M) # <<>> THEN Decides(list, M)
                  ELSE Decides(IF NextMode(mid, c) = mid.mode THEN mid.filter ELSE <<>>, M)
        BY <4>2, <4>3
      <4> QED BY <4>3, <4>4, Zenon DEF FilterInOrder, mid, ours
    <3> QED BY <2>1, <3>3, <3>4, <3>5, <3>6 DEF LastLayerWins, OverlayIsLocal
  <2> QED BY <2>2, <2>3
<1> QED BY <1>1, PipelineInvariance, PTL

\* While DHCP serves names, for any drafts, sources and settings: no entry of
\* the draft that runs answers one of them, no alias of it leads to one, and
\* following its aliases ends.
THEOREM LeaseNamesAlwaysReserved == PipelineSpec => []LeaseNamesReserved
<1>1. PipelineInv => LeaseNamesReserved
  <2> SUFFICES ASSUME PipelineInv, Runs, engine.from.custom.enabled PROVE LeaseNamesReserved
    BY DEF LeaseNamesReserved
  <2>1. PICK n, s : Candidate(s) /\ Runnable(n, s) /\ engine \in Engines(n, s) /\ engine.from = s
    <3>1. PICK n, s, name : /\ Candidate(s) /\ Runnable(n, s) /\ engine \in Engines(n, s)
                            /\ Serves(engine, n, s, EndpointOf(engine), name)
      BY WhatRuns
    <3> QED BY <3>1 DEF Serves
  <2> DEFINE c == engine.from.custom
             hosts == engine.dns.hosts
  <2>2. /\ engine.under = n /\ IsDraft(c) /\ IsNet(n) /\ IsHosts(hosts) /\ CandidateFits(n, hosts, c)
    BY <2>1, HostsThatRun
  <2> DEFINE policies == [f \in {g \in DOMAIN c.res : Len(g) = 2} |-> c.res[f]]
  <2>3. /\ n.dhcp => \A x \in {y \in Names : Lease(y, n.domain)} :
                /\ Found(c.hosts, x) = {}
                /\ Found([p \in {f[2] : f \in DOMAIN policies} |-> TRUE], x) = {}
        /\ \A p \in DOMAIN c.hosts : c.hosts[p].alias =>
                /\ LedTo(hosts, c.hosts[p].to, Cardinality(DOMAIN hosts) + 1) = {}
                /\ n.dhcp => \A k \in 0..Cardinality(DOMAIN hosts) :
                                 \A x \in LedTo(hosts, c.hosts[p].to, k) : ~Lease(x, n.domain)
    <3> HIDE DEF c, hosts
    <3> QED BY <2>2, LeasesReservedHere
  <2> QED BY <2>2, <2>3, Zenon DEF LeaseNamesReserved, Lease
<1> QED BY <1>1, PipelineInvariance, PTL
=============================================================================
