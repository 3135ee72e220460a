------------------------ MODULE ConfigurationProofs ------------------------
(***************************************************************************)
(* What a job of the helper says and does about the configuration, proved  *)
(* for any number of clients, sources, requests, faults and crashes.       *)
(***************************************************************************)
EXTENDS Configuration, TLAPS

(***************************************************************************)
(* The inductive invariant: what holds at each stage of a job, from the    *)
(* lock to the answer.                                                     *)
(***************************************************************************)
IsJob(j) ==
    j = [kind |-> j.kind, by |-> j.by, pc |-> j.pc, want |-> j.want, was |-> j.was, seen |-> j.seen,
         ran |-> j.ran, key |-> j.key, n |-> j.n, fresh |-> j.fresh, base |-> j.base,
         prev |-> j.prev, failed |-> j.failed, restored |-> j.restored, ready |-> j.ready,
         ok |-> j.ok]

IsGateway(g) == g = [state |-> g.state, cfg |-> g.cfg, key |-> g.key]

Shapes == IsJob(job) /\ IsGateway(gw)

\* A job of a kind that leaves the auth key alone runs with one key.
KeyKept == job.pc # "none" /\ job.kind # "tailscale" => key = job.key

\* Nothing is promised before the end.
Pending == job.restored = FALSE /\ job.ready = FALSE /\ job.ok = FALSE

\* Up to the save everything is as the job has found it.
Unsaved ==
    job.pc \in {"check", "save", "commit"} => Pending /\ cfg = job.was /\ gw = job.ran

\* What the requester has seen is what the job will replace. An edit of the
\* device policies looks at those, and leaves the configuration as it is.
Current ==
    /\ job.pc \in {"check", "save", "commit"} =>
           IF job.kind = "policy" THEN job.want = job.was ELSE job.seen = job.was
    /\ job.pc \in {"check", "save"} /\ job.kind = "policy" => policy = job.n

\* From the save on, until the roll-back has begun, the candidate is saved.
Saved ==
    /\ job.pc \in {"takeover", "reload"} => Pending /\ cfg = job.want /\ gw = job.ran
    /\ job.pc = "rollback" => Pending /\ cfg = job.want /\ job.failed # "none"

\* A gateway found whole after a phase before the start is the one that ran.
Untouched ==
    job.pc \in {"rollback", "restart"} =>
        (job.failed # "start" /\ gw.state = "running" => gw = job.ran)

\* What the roll-back has restored is restored whole.
RolledBack ==
    job.pc = "restart" =>
        /\ job.ready = FALSE /\ job.ok = FALSE
        /\ job.restored => cfg = job.was /\ key = job.key

IInv == Shapes /\ KeyKept /\ Unsaved /\ Current /\ Saved /\ Untouched /\ RolledBack /\ AnswerIsTrue

Parts == <<cfg, key, policy, gw, job>>

-----------------------------------------------------------------------------
LEMMA InitIInv == Init => IInv
  BY DEF Init, IInv, Shapes, IsJob, IsGateway, KeyKept, Unsaved, Current, Saved, Untouched, RolledBack,
         AnswerIsTrue, RollbackIsHonest, DoneIsApplied, NoJob, Running, With, Off

\* Nothing else than these five variables matters.
LEMMA Unaffected == IInv /\ UNCHANGED Parts => IInv'
  BY DEF Parts, IInv, Shapes, IsJob, IsGateway, KeyKept, Pending, Unsaved, Current, Saved, Untouched,
         RolledBack, AnswerIsTrue, RollbackIsHonest, DoneIsApplied, Running, With, Up

LEMMA NoJobIInv == ASSUME job' = NoJob, IsGateway(gw)' PROVE IInv'
  BY DEF IInv, Shapes, IsJob, KeyKept, Unsaved, Current, Saved, Untouched, RolledBack,
         AnswerIsTrue, RollbackIsHonest, DoneIsApplied, NoJob

(***************************************************************************)
(* The steps of a job, field by field.                                     *)
(***************************************************************************)
\* What no step of a job changes.
Kept == /\ job'.kind = job.kind /\ job'.want = job.want /\ job'.was = job.was
        /\ job'.ran = job.ran /\ job'.key = job.key /\ job'.seen = job.seen /\ job'.n = job.n
        /\ job'.fresh = job.fresh /\ job'.base = job.base /\ job'.prev = job.prev

LEMMA OneField ==
    ASSUME NEW j, IsJob(j), NEW pc
    PROVE  [j EXCEPT !.pc = pc] =
             [kind |-> j.kind, by |-> j.by, pc |-> pc, want |-> j.want, was |-> j.was, seen |-> j.seen,
              ran |-> j.ran, key |-> j.key, n |-> j.n, fresh |-> j.fresh, base |-> j.base,
              prev |-> j.prev, failed |-> j.failed, restored |-> j.restored, ready |-> j.ready,
              ok |-> j.ok]
  BY DEF IsJob

LEMMA Moved ==
    ASSUME IsJob(job), NEW pc, job' = [job EXCEPT !.pc = pc]
    PROVE  /\ IsJob(job)' /\ Kept /\ job'.by = job.by /\ job'.pc = pc /\ job'.failed = job.failed
           /\ job'.restored = job.restored /\ job'.ready = job.ready /\ job'.ok = job.ok
<1>1. job' = [kind |-> job.kind, by |-> job.by, pc |-> pc, want |-> job.want, was |-> job.was, seen |-> job.seen,
              ran |-> job.ran, key |-> job.key, n |-> job.n, fresh |-> job.fresh,
              base |-> job.base, prev |-> job.prev, failed |-> job.failed,
              restored |-> job.restored, ready |-> job.ready, ok |-> job.ok]
  BY OneField
<1> QED  BY <1>1 DEF IsJob, Kept

LEMMA Orphaned ==
    ASSUME IsJob(job), job' = [job EXCEPT !.by = "nobody"]
    PROVE  /\ IsJob(job)' /\ Kept /\ job'.pc = job.pc /\ job'.failed = job.failed
           /\ job'.restored = job.restored /\ job'.ready = job.ready /\ job'.ok = job.ok
<1>1. job' = [kind |-> job.kind, by |-> "nobody", pc |-> job.pc, want |-> job.want,
              was |-> job.was, seen |-> job.seen, ran |-> job.ran, key |-> job.key, n |-> job.n,
              fresh |-> job.fresh, base |-> job.base, prev |-> job.prev, failed |-> job.failed,
              restored |-> job.restored, ready |-> job.ready, ok |-> job.ok]
  BY DEF IsJob
<1> QED  BY <1>1 DEF IsJob, Kept

LEMMA Finished ==
    ASSUME IsJob(job), NEW ok, job' = [job EXCEPT !.pc = "done", !.ok = ok]
    PROVE  /\ IsJob(job)' /\ Kept /\ job'.by = job.by /\ job'.pc = "done" /\ job'.ok = ok
           /\ job'.failed = job.failed /\ job'.restored = job.restored /\ job'.ready = job.ready
<1> DEFINE j == [job EXCEPT !.pc = "done"]
<1>1. IsJob(j) /\ j.pc = "done" /\ j.failed = job.failed /\ j.restored = job.restored /\ j.ready = job.ready
      /\ j.kind = job.kind /\ j.want = job.want /\ j.was = job.was /\ j.ran = job.ran
      /\ j.key = job.key /\ j.seen = job.seen /\ j.n = job.n
      /\ j.fresh = job.fresh /\ j.base = job.base /\ j.prev = job.prev /\ j.by = job.by
  BY OneField DEF IsJob
<1>2. job' = [j EXCEPT !.ok = ok]  BY Zenon
<1> HIDE DEF j
<1>3. job' = [kind |-> j.kind, by |-> j.by, pc |-> j.pc, want |-> j.want, was |-> j.was, seen |-> j.seen,
              ran |-> j.ran, key |-> j.key, n |-> j.n, fresh |-> j.fresh, base |-> j.base,
              prev |-> j.prev, failed |-> j.failed, restored |-> j.restored, ready |-> j.ready, ok |-> ok]
  BY <1>1, <1>2, Zenon DEF IsJob
<1> QED  BY <1>1, <1>3 DEF IsJob, Kept

LEMMA Failed ==
    ASSUME IsJob(job), NEW phase, job' = [job EXCEPT !.pc = "rollback", !.failed = phase]
    PROVE  /\ IsJob(job)' /\ Kept /\ job'.by = job.by /\ job'.pc = "rollback" /\ job'.failed = phase
           /\ job'.restored = job.restored /\ job'.ready = job.ready /\ job'.ok = job.ok
<1> DEFINE j == [job EXCEPT !.pc = "rollback"]
<1>1. IsJob(j) /\ j.pc = "rollback" /\ j.restored = job.restored /\ j.ready = job.ready /\ j.ok = job.ok
      /\ j.kind = job.kind /\ j.want = job.want /\ j.was = job.was /\ j.ran = job.ran
      /\ j.key = job.key /\ j.seen = job.seen /\ j.n = job.n
      /\ j.fresh = job.fresh /\ j.base = job.base /\ j.prev = job.prev /\ j.by = job.by
  BY OneField DEF IsJob
<1>2. job' = [j EXCEPT !.failed = phase]  BY Zenon
<1> HIDE DEF j
<1>3. job' = [kind |-> j.kind, by |-> j.by, pc |-> j.pc, want |-> j.want, was |-> j.was, seen |-> j.seen,
              ran |-> j.ran, key |-> j.key, n |-> j.n, fresh |-> j.fresh, base |-> j.base,
              prev |-> j.prev, failed |-> phase, restored |-> j.restored, ready |-> j.ready, ok |-> j.ok]
  BY <1>1, <1>2, Zenon DEF IsJob
<1> QED  BY <1>1, <1>3 DEF IsJob, Kept

LEMMA Reverted ==
    ASSUME IsJob(job), job' = [job EXCEPT !.pc = "restart", !.restored = TRUE]
    PROVE  /\ IsJob(job)' /\ Kept /\ job'.by = job.by /\ job'.pc = "restart" /\ job'.restored = TRUE
           /\ job'.failed = job.failed /\ job'.ready = job.ready /\ job'.ok = job.ok
<1> DEFINE j == [job EXCEPT !.pc = "restart"]
<1>1. IsJob(j) /\ j.pc = "restart" /\ j.failed = job.failed /\ j.ready = job.ready /\ j.ok = job.ok
      /\ j.kind = job.kind /\ j.want = job.want /\ j.was = job.was /\ j.ran = job.ran
      /\ j.key = job.key /\ j.seen = job.seen /\ j.n = job.n
      /\ j.fresh = job.fresh /\ j.base = job.base /\ j.prev = job.prev /\ j.by = job.by
  BY OneField DEF IsJob
<1>2. job' = [j EXCEPT !.restored = TRUE]  BY Zenon
<1> HIDE DEF j
<1>3. job' = [kind |-> j.kind, by |-> j.by, pc |-> j.pc, want |-> j.want, was |-> j.was, seen |-> j.seen,
              ran |-> j.ran, key |-> j.key, n |-> j.n, fresh |-> j.fresh, base |-> j.base,
              prev |-> j.prev, failed |-> j.failed, restored |-> TRUE, ready |-> j.ready, ok |-> j.ok]
  BY <1>1, <1>2, Zenon DEF IsJob
<1> QED  BY <1>1, <1>3 DEF IsJob, Kept

LEMMA Answered ==
    ASSUME IsJob(job), NEW ready, job' = [job EXCEPT !.pc = "done", !.ready = ready]
    PROVE  /\ IsJob(job)' /\ Kept /\ job'.by = job.by /\ job'.pc = "done" /\ job'.ready = ready
           /\ job'.failed = job.failed /\ job'.restored = job.restored /\ job'.ok = job.ok
<1> DEFINE j == [job EXCEPT !.pc = "done"]
<1>1. IsJob(j) /\ j.pc = "done" /\ j.failed = job.failed /\ j.restored = job.restored /\ j.ok = job.ok
      /\ j.kind = job.kind /\ j.want = job.want /\ j.was = job.was /\ j.ran = job.ran
      /\ j.key = job.key /\ j.seen = job.seen /\ j.n = job.n
      /\ j.fresh = job.fresh /\ j.base = job.base /\ j.prev = job.prev /\ j.by = job.by
  BY OneField DEF IsJob
<1>2. job' = [j EXCEPT !.ready = ready]  BY Zenon
<1> HIDE DEF j
<1>3. job' = [kind |-> j.kind, by |-> j.by, pc |-> j.pc, want |-> j.want, was |-> j.was, seen |-> j.seen,
              ran |-> j.ran, key |-> j.key, n |-> j.n, fresh |-> j.fresh, base |-> j.base,
              prev |-> j.prev, failed |-> j.failed, restored |-> j.restored, ready |-> ready, ok |-> j.ok]
  BY <1>1, <1>2, Zenon DEF IsJob
<1> QED  BY <1>1, <1>3 DEF IsJob, Kept

LEMMA BeginIInv == ASSUME IInv, NEW c \in Clients, Begin(c) PROVE IInv'
<1>1. CASE UNCHANGED Parts  BY <1>1, Unaffected
<1>2. CASE Accepts(req[c])
  <2>1. /\ job' = NewJob(c) /\ cfg' = cfg /\ gw' = gw
        /\ key' = (IF req[c].kind = "tailscale" /\ req[c].n # 0 THEN req[c].n ELSE key)
    BY <1>2 DEF Begin
  <2>2. /\ job'.kind = req[c].kind /\ job'.pc = "check" /\ job'.was = cfg /\ job'.ran = gw
        /\ job'.want = Wanted(req[c]) /\ job'.seen = req[c].match /\ job'.n = req[c].n
        /\ job'.key = key /\ Pending' /\ IsJob(job)'
    BY <2>1 DEF NewJob, Pending, IsJob
  <2>3. ASSUME req[c].kind = "policy" PROVE Current'
    <3>1. Wanted(req[c]) = cfg  BY <2>3, Zenon DEF Wanted
    <3>2. req[c].n = policy /\ policy' = policy
      BY <2>3, <1>2 DEF Begin, Accepts
    <3> QED  BY <2>2, <2>3, <3>1, <3>2, <2>1 DEF Current
  <2>4. ASSUME req[c].kind # "policy" PROVE Current'
    <3>1. req[c].match = cfg  BY <2>4, <1>2 DEF Accepts
    <3> QED  BY <2>2, <2>4, <3>1, <2>1 DEF Current
  <2>5. Current'  BY <2>3, <2>4
  <2> QED  BY <2>1, <2>2, <2>5 DEF IInv, Shapes, KeyKept, Unsaved, Saved, Untouched, RolledBack,
                 AnswerIsTrue, RollbackIsHonest, DoneIsApplied, IsGateway
<1> QED  BY <1>1, <1>2 DEF Begin, Parts

(***************************************************************************)
(* Each step of the job keeps the invariant.                               *)
(***************************************************************************)
\* An end that promises nothing.
LEMMA FinishFalse ==
    ASSUME IInv, Finish(FALSE), IsGateway(gw)', Pending, job.pc # "none",
           job.kind # "tailscale" => key' = key
    PROVE  IInv'
<1>1. /\ IsJob(job)' /\ Kept /\ job'.pc = "done" /\ job'.ok = FALSE
      /\ job'.failed = job.failed /\ job'.restored = FALSE /\ job'.ready = FALSE
  BY Finished DEF Finish, IInv, Shapes, Pending
<1>2. job.pc # "none" => KeyKept'
  BY <1>1 DEF IInv, KeyKept, Kept
<1> QED
  BY <1>1, <1>2 DEF Shapes, Unsaved, Current, Saved, Untouched, RolledBack, AnswerIsTrue, RollbackIsHonest,
     DoneIsApplied, IInv

LEMMA CheckIInv == ASSUME IInv, Check PROVE IInv'
<1>1. CASE job' = [job EXCEPT !.pc = "save"] /\ UNCHANGED <<key, policy>>
  <2>1. /\ IsJob(job)' /\ Kept /\ job'.pc = "save" /\ Pending'
    BY <1>1, Moved DEF IInv, Shapes, Check, Doing, Unsaved, Pending
  <2> QED
    BY <2>1, <1>1 DEF Check, Doing, IInv, Shapes, KeyKept, Pending, Unsaved, Current, Saved,
         Untouched, RolledBack, AnswerIsTrue, RollbackIsHonest, DoneIsApplied, IsGateway, Kept
<1>2. CASE Undo
  BY <1>2, FinishFalse DEF Undo, Check, Doing, IInv, Shapes, Unsaved, IsGateway
<1> QED  BY <1>1, <1>2 DEF Check

LEMMA SaveIInv == ASSUME IInv, Save PROVE IInv'
<1>1. IsJob(job) /\ IsGateway(gw) /\ job.pc = "save" /\ gw' = gw
  BY DEF Save, Doing, IInv, Shapes
<1>2. CASE Undo /\ UNCHANGED cfg
  BY <1>1, <1>2, FinishFalse DEF Undo, IInv, Unsaved, IsGateway
<1>3. CASE job.kind = "start" /\ cfg' = cfg /\ job' = [job EXCEPT !.pc = "commit"] /\ UNCHANGED key
  <2>1. IsJob(job)' /\ Kept /\ job'.pc = "commit" /\ Pending'
    BY <1>1, <1>3, Moved DEF IInv, Unsaved, Pending
  <2> QED
    BY <1>1, <1>3, <2>1 DEF IInv, Shapes, KeyKept, Pending, Unsaved, Current, Saved,
         Untouched, RolledBack, AnswerIsTrue, RollbackIsHonest, DoneIsApplied, IsGateway, Kept
<1>4. CASE cfg' = job.want /\ job' = [job EXCEPT !.pc = "reload"] /\ UNCHANGED key
  <2>1. IsJob(job)' /\ Kept /\ job'.pc = "reload" /\ Pending'
    BY <1>1, <1>4, Moved DEF IInv, Unsaved, Pending
  <2> QED
    BY <1>1, <1>4, <2>1 DEF IInv, Shapes, KeyKept, Pending, Unsaved, Current, Saved,
         Untouched, RolledBack, AnswerIsTrue, RollbackIsHonest, DoneIsApplied, IsGateway, Kept
<1>5. CASE cfg' = job.want /\ job.kind # "start" /\ ~Reloads(job.kind) /\ Finish(TRUE) /\ UNCHANGED key
  <2>1. IsJob(job)' /\ Kept /\ job'.pc = "done" /\ job'.restored = FALSE /\ job'.ready = FALSE
    BY <1>1, <1>5, Finished DEF Finish, IInv, Unsaved, Pending
  <2>2. ~(job.kind \in {"apply", "tailscale", "start"} /\ gw'.state # "stopped")
    BY <1>1, <1>5 DEF Reloads, Up
  <2> QED
    BY <1>1, <1>5, <2>1, <2>2 DEF Up, IInv, Shapes, KeyKept, Pending, Unsaved, Current, Saved,
         Untouched, RolledBack, AnswerIsTrue, RollbackIsHonest, DoneIsApplied, IsGateway, Kept
<1> QED  BY <1>2, <1>3, <1>4, <1>5 DEF Save

LEMMA CommitIInv == ASSUME IInv, Commit PROVE IInv'
<1>1. IsJob(job) /\ IsGateway(gw) /\ job.pc = "commit" /\ gw' = gw /\ key' = key
  BY DEF Commit, Doing, IInv, Shapes
<1>2. CASE cfg' = job.want /\ job' = [job EXCEPT !.pc = "takeover"]
  <2>1. IsJob(job)' /\ Kept /\ job'.pc = "takeover" /\ Pending'
    BY <1>1, <1>2, Moved DEF IInv, Unsaved, Pending
  <2> QED
    BY <1>1, <1>2, <2>1 DEF IInv, Shapes, KeyKept, Pending, Unsaved, Current, Saved,
         Untouched, RolledBack, AnswerIsTrue, RollbackIsHonest, DoneIsApplied, IsGateway, Kept
<1>3. CASE Finish(FALSE)
  BY <1>1, <1>3, FinishFalse DEF IInv, Unsaved, IsGateway
<1> QED  BY <1>2, <1>3 DEF Commit

LEMMA TakeoverIInv == ASSUME IInv, Takeover PROVE IInv'
<1>1. IsJob(job) /\ job.pc = "takeover" /\ key' = key /\ cfg' = cfg /\ cfg = job.want /\ Pending
  BY DEF Takeover, Doing, IInv, Shapes, Saved
<1>2. CASE gw' = Running(cfg) /\ Finish(TRUE)
  <2>1. IsJob(job)' /\ Kept /\ job'.pc = "done" /\ job'.restored = FALSE /\ job'.ready = FALSE
    BY <1>1, <1>2, Finished DEF Finish, Pending
  <2> QED
    BY <1>1, <1>2, <2>1 DEF Running, With, Up, IInv, Shapes, KeyKept, Pending, Unsaved, Current, Saved,
         Untouched, RolledBack, AnswerIsTrue, RollbackIsHonest, DoneIsApplied, IsGateway, Kept
<1>3. CASE gw' \in {Off, Partial(cfg)} /\ Finish(FALSE)
  <2>1. IsGateway(gw)'
    BY <1>3 DEF IsGateway, Off, Partial, Running, With
  <2> QED
    BY <1>1, <1>3, <2>1, FinishFalse
<1> QED  BY <1>2, <1>3 DEF Takeover

LEMMA ReloadIInv == ASSUME IInv, Reload PROVE IInv'
<1>1. /\ IsJob(job) /\ IsGateway(gw) /\ job.pc = "reload" /\ key' = key /\ cfg' = cfg
      /\ cfg = job.want /\ gw = job.ran /\ Pending
  BY DEF Reload, Doing, IInv, Shapes, Saved
<1>2. CASE gw' = Running(cfg) /\ Finish(TRUE)
  <2>1. IsJob(job)' /\ Kept /\ job'.pc = "done" /\ job'.restored = FALSE /\ job'.ready = FALSE
    BY <1>1, <1>2, Finished DEF Finish, Pending
  <2> QED
    BY <1>1, <1>2, <2>1 DEF Running, With, Up, IInv, Shapes, KeyKept, Pending, Unsaved, Current, Saved,
         Untouched, RolledBack, AnswerIsTrue, RollbackIsHonest, DoneIsApplied, IsGateway, Kept
<1>3. ASSUME NEW phase \in {"validation", "stop", "start"},
             job' = [job EXCEPT !.pc = "rollback", !.failed = phase],
             phase # "start" => gw' \in {gw, [gw EXCEPT !.state = "partial"]},
             phase = "start" => gw' \in {Off, Partial(cfg), Running(cfg)}
      PROVE  IInv'
  <2>1. IsJob(job)' /\ Kept /\ job'.pc = "rollback" /\ job'.failed = phase /\ Pending'
    BY <1>1, <1>3, Failed DEF Pending
  <2>2. IsGateway(gw)' /\ (phase # "start" /\ gw'.state = "running" => gw' = gw)
    BY <1>1, <1>3 DEF IsGateway, Off, Partial, Running, With
  <2>3. Untouched'
    BY <2>1, <2>2, <1>1 DEF Untouched, Kept
  <2> QED
    BY <1>1, <2>1, <2>2, <2>3 DEF IInv, Shapes, KeyKept, Pending, Unsaved, Current, Saved, RolledBack, AnswerIsTrue,
           RollbackIsHonest, DoneIsApplied, Kept
<1>4. CASE \E phase \in {"validation", "stop", "start"} :
                /\ job' = [job EXCEPT !.pc = "rollback", !.failed = phase]
                /\ CASE phase = "validation" ->
                          UNCHANGED gw /\ (IF gw.state = "running" THEN Fault("reload") ELSE Fine)
                     [] phase = "stop" -> /\ gw.state = "running" /\ Fault("reload")
                                          /\ gw' \in {gw, [gw EXCEPT !.state = "partial"]}
                     [] phase = "start" -> /\ gw.state = "running" /\ Fault("reload")
                                           /\ gw' \in {Off, Partial(cfg), Running(cfg)}
  BY <1>3, <1>4
<1> QED  BY <1>2, <1>4 DEF Reload

LEMMA RollbackIInv == ASSUME IInv, Rollback PROVE IInv'
<1>1. /\ IsJob(job) /\ IsGateway(gw) /\ job.pc = "rollback" /\ gw' = gw /\ Pending
      /\ (job.kind # "tailscale" => key = job.key)
  BY DEF Rollback, Doing, IInv, Shapes, Saved, KeyKept
<1>2. CASE /\ cfg' = job.was /\ key' = (IF job.kind = "tailscale" THEN job.key ELSE key)
           /\ job' = [job EXCEPT !.pc = "restart", !.restored = TRUE]
  <2>1. IsJob(job)' /\ Kept /\ job'.pc = "restart" /\ job'.failed = job.failed
        /\ job'.ready = FALSE /\ job'.ok = FALSE
    BY <1>1, <1>2, Reverted DEF Pending
  <2>2. cfg' = job'.was /\ key' = job'.key
    BY <1>1, <1>2, <2>1 DEF Kept
  <2> QED
    BY <1>1, <2>1, <2>2 DEF IInv, Shapes, KeyKept, Unsaved, Current, Saved, Untouched, RolledBack, AnswerIsTrue,
           RollbackIsHonest, DoneIsApplied, IsGateway, Kept
<1>3. CASE job' = [job EXCEPT !.pc = "restart"] /\ (job.kind # "tailscale" => key' = key)
  <2>1. IsJob(job)' /\ Kept /\ job'.pc = "restart" /\ job'.failed = job.failed /\ Pending'
    BY <1>1, <1>3, Moved DEF Pending
  <2> QED
    BY <1>1, <1>3, <2>1 DEF IInv, Shapes, KeyKept, Pending, Unsaved, Current, Saved,
         Untouched, RolledBack, AnswerIsTrue, RollbackIsHonest, DoneIsApplied, IsGateway, Kept
<1> QED  BY <1>2, <1>3 DEF Rollback

LEMMA RestartIInv == ASSUME IInv, Restart PROVE IInv'
<1>1. /\ IsJob(job) /\ IsGateway(gw) /\ job.pc = "restart" /\ cfg' = cfg /\ key' = key
      /\ job.ready = FALSE /\ job.ok = FALSE
      /\ (job.restored => cfg = job.was /\ key = job.key)
      /\ (job.failed # "start" /\ gw.state = "running" => gw = job.ran)
      /\ (job.kind # "tailscale" => key = job.key)
  BY DEF Restart, Doing, IInv, Shapes, RolledBack, Untouched, KeyKept
<1>2. PICK started \in BOOLEAN, seen \in BOOLEAN :
        /\ started => job.restored /\ ~Up
        /\ gw' \in IF started THEN {Running(cfg)}
                  ELSE IF job.restored /\ ~Up THEN {Off, Partial(cfg)} ELSE {gw}
        /\ job' = [job EXCEPT !.pc = "done",
                              !.ready = job.restored /\ Preserved(started) /\ seen]
  BY Zenon DEF Restart
<1> DEFINE ready == job.restored /\ Preserved(started) /\ seen
<1>3. IsJob(job)' /\ Kept /\ job'.pc = "done" /\ job'.ready = ready /\ job'.failed = job.failed
      /\ job'.restored = job.restored /\ job'.ok = FALSE
  BY <1>1, <1>2, Answered
<1>4. IsGateway(gw)'
  BY <1>1, <1>2 DEF IsGateway, Off, Partial, Running, With
<1>5. ready => gw'.state = "running" /\ gw' \in {job.ran, With(job.was, job.key)}
  <2> SUFFICES ASSUME ready PROVE gw'.state = "running" /\ gw' \in {job.ran, With(job.was, job.key)}
    OBVIOUS
  <2>1. cfg = job.was /\ key = job.key  BY <1>1
  <2>2. CASE started
    BY <2>1, <2>2, <1>2 DEF Running, With
  <2>3. CASE ~started
    <3>1. job.failed # "start" /\ gw.state = "running"  BY <2>3 DEF Preserved
    <3> QED  BY <2>3, <3>1, <1>1, <1>2 DEF Up
  <2> QED  BY <2>2, <2>3
<1> HIDE DEF ready
<1> QED
  BY <1>1, <1>3, <1>4, <1>5 DEF With, IInv, Shapes, KeyKept, Unsaved, Current, Saved, Untouched, RolledBack,
       AnswerIsTrue, RollbackIsHonest, DoneIsApplied, Kept

LEMMA HelperIInv == ASSUME IInv, Helper PROVE IInv'
<1>1. CASE Deliver
  BY <1>1, NoJobIInv DEF Deliver, IInv, Shapes, IsGateway
<1> QED
  BY <1>1, CheckIInv, SaveIInv, CommitIInv, TakeoverIInv, ReloadIInv, RollbackIInv, RestartIInv DEF Helper

-----------------------------------------------------------------------------
(***************************************************************************)
(* Everything else: requests and the library do not touch what the         *)
(* invariant is about, and what ends a job early leaves nothing to keep.   *)
(***************************************************************************)
LEMMA RequestIInv == ASSUME IInv, NEW c \in Clients, Request(c) \/ InLibrary(c) PROVE IInv'
<1>1. CASE Request(c)
  BY <1>1, Unaffected DEF Request, AskApply, AskTailscale, AskTopology, AskPolicy, AskForget, AskStart,
     AskImport, AskDelete, AskOverlay, Ask, disk, Parts
<1>2. CASE InLibrary(c)
  BY <1>2, Unaffected DEF InLibrary, ImportRow, ImportCredential, DeleteSnapshots, DeleteCredential,
     DeleteRow, WriteOverlay, disk, Parts
<1> QED  BY <1>1, <1>2

LEMMA LeaveIInv == ASSUME IInv, NEW c \in Clients, Leave(c) PROVE IInv'
<1>1. UNCHANGED <<cfg, key, policy, gw>>  BY DEF Leave, disk
<1>2. /\ IsJob(job)' /\ Kept /\ job'.pc = job.pc /\ job'.failed = job.failed
      /\ job'.restored = job.restored /\ job'.ready = job.ready /\ job'.ok = job.ok
  BY Orphaned DEF Leave, IInv, Shapes
<1> QED
  BY <1>1, <1>2 DEF IInv, Shapes, IsGateway, KeyKept, Pending, Unsaved, Current, Saved, Untouched,
       RolledBack, AnswerIsTrue, RollbackIsHonest, DoneIsApplied, Running, With, Up, Kept

LEMMA CrashIInv == ASSUME IInv, Crash PROVE IInv'
<1>1. IsGateway(gw)'
  BY DEF Crash, IInv, Shapes, IsGateway, Partial, Running, With
<1> QED  BY <1>1, NoJobIInv DEF Crash

LEMMA CliIInv == ASSUME IInv, CliStart \/ CliStop PROVE IInv'
<1>1. IsGateway(gw)'
  BY DEF CliStart, CliStop, IsGateway, Off, Running, With
<1> QED  BY <1>1, NoJobIInv DEF CliStart, CliStop

LEMMA NextIInv == IInv /\ [Next]_vars => IInv'
<1> SUFFICES ASSUME IInv, [Next]_vars PROVE IInv'  OBVIOUS
<1>1. CASE UNCHANGED vars  BY <1>1, Unaffected DEF vars, disk, Parts
<1>2. ASSUME NEW c \in Clients, Request(c) \/ InLibrary(c) \/ Begin(c) \/ Leave(c) PROVE IInv'
  BY <1>2, RequestIInv, BeginIInv, LeaveIInv
<1>3. CASE SaveDNS
  BY <1>3, Unaffected DEF SaveDNS, disk, Parts
<1>4. CASE Helper \/ Crash \/ CliStart \/ CliStop
  BY <1>4, HelperIInv, CrashIInv, CliIInv
<1> QED  BY <1>1, <1>2, <1>3, <1>4 DEF Next

LEMMA Inductive == Spec => []IInv
  BY InitIInv, NextIInv, PTL DEF Spec

(***************************************************************************)
(* What the helper answers to a change of the configuration is true: a     *)
(* change reported as done is saved and what a running gateway uses; after *)
(* a failed reload, a configuration reported as restored is the old one    *)
(* with its auth key, and a gateway reported as ready is the one that ran  *)
(* before or one started with what was restored, never the candidate's.    *)
(***************************************************************************)
THEOREM AnswersTrue == Spec => []AnswerIsTrue
  BY Inductive, PTL DEF IInv

-----------------------------------------------------------------------------
\* One step replaces a configuration by the candidate of whoever has seen it.
Replaces == /\ cfg' # cfg => \/ cfg \in {job.was} \cap {job.seen} /\ cfg' = job.want
                             \/ cfg = job.want /\ cfg' = job.was /\ job.failed # "none"
            /\ policy' # policy /\ job.kind = "policy" => policy = job.n

LEMMA StepReplaces == IInv /\ [Next]_vars => Replaces
<1> SUFFICES ASSUME IInv, [Next]_vars PROVE Replaces  OBVIOUS
<1>1. CASE UNCHANGED <<cfg, policy>>  BY <1>1 DEF Replaces
<1>2. CASE Save
  <2>1. job.pc = "save" /\ cfg = job.was /\ Current  BY <1>2 DEF Save, Doing, IInv, Unsaved
  <2>2. cfg' \in {cfg, job.want}  BY <1>2 DEF Save
  <2>3. cfg' # cfg => cfg = job.seen  BY <2>1, <2>2 DEF Current
  <2>4. job.kind = "policy" => policy = job.n  BY <2>1 DEF Current
  <2> QED  BY <2>1, <2>2, <2>3, <2>4 DEF Replaces
<1>3. CASE Commit
  <2>1. job.pc = "commit" /\ cfg = job.was /\ Current /\ policy' = policy
    BY <1>3 DEF Commit, Doing, IInv, Unsaved
  <2>2. cfg' \in {cfg, job.want}  BY <1>3 DEF Commit
  <2>3. cfg' # cfg => cfg = job.seen  BY <2>1, <2>2 DEF Current
  <2> QED  BY <2>1, <2>2, <2>3 DEF Replaces
<1>4. CASE Rollback
  <2>1. job.pc = "rollback" /\ cfg = job.want /\ job.failed # "none" /\ policy' = policy
    BY <1>4 DEF Rollback, Doing, IInv, Saved
  <2>2. cfg' \in {cfg, job.was}  BY <1>4 DEF Rollback
  <2> QED  BY <2>1, <2>2 DEF Replaces
<1>5. CASE Check
  BY <1>5 DEF Check, Undo, Replaces
<1>6. CASE \E c \in Clients : Begin(c)
  BY <1>6 DEF Begin, Replaces, NoJob
<1>7. ASSUME NEW c \in Clients, Request(c) PROVE Replaces
  <2>1. UNCHANGED disk
    BY <1>7, ZenonT(60) DEF Request, AskApply, AskTailscale, AskTopology, AskPolicy, AskForget, AskStart,
       AskImport, AskDelete, AskOverlay, Ask
  <2> QED  BY <1>1, <2>1 DEF disk
<1>8. CASE \E c \in Clients : InLibrary(c)
  BY <1>1, <1>8 DEF InLibrary, ImportRow, ImportCredential, DeleteSnapshots, DeleteCredential,
       DeleteRow, WriteOverlay, disk
<1>9. CASE (\E c \in Clients : Leave(c)) \/ SaveDNS \/ Crash \/ CliStart \/ CliStop \/ UNCHANGED vars
  BY <1>1, <1>9 DEF Leave, SaveDNS, Crash, CliStart, CliStop, vars, disk
<1>10. CASE Takeover \/ Reload \/ Restart \/ Deliver
  <2>1. CASE Takeover  BY <1>1, <2>1 DEF Takeover
  <2>2. CASE Reload  BY <1>1, <2>2 DEF Reload
  <2>3. CASE Restart  BY <1>1, <2>3 DEF Restart
  <2>4. CASE Deliver  BY <1>1, <2>4 DEF Deliver, disk
  <2> QED  BY <1>10, <2>1, <2>2, <2>3, <2>4
<1> QED  BY <1>2, <1>3, <1>4, <1>5, <1>6, <1>7, <1>8, <1>9, <1>10 DEF Next, Helper

(***************************************************************************)
(* No accepted edit is lost. Whatever clients, the command line and the    *)
(* helper do to each other, a configuration is replaced only by a job      *)
(* whose requester has seen exactly that one, or put back by the job that  *)
(* has replaced it; device policies only by an edit of the ones there are. *)
(***************************************************************************)
THEOREM NoUpdateLost == Spec => NoLostUpdate
<1>1. IInv /\ [Next]_vars => [Replaces]_vars  BY StepReplaces
<1> QED  BY <1>1, Inductive, PTL DEF Spec, NoLostUpdate, Replaces

-----------------------------------------------------------------------------
(***************************************************************************)
(* Types.  The files, the library and the requests need them, since a      *)
(* field of a record is only known once the record has its fields.         *)
(***************************************************************************)
JobKinds == {"apply", "tailscale", "topology", "policy", "forget", "start"}
Phases   == {"none", "sent", "wait", "row", "credential", "snapshots", "entry", "write"}
Stages   == {"none", "check", "save", "commit", "takeover", "reload", "rollback", "restart", "done"}
Content  == [src : Digests \cup {"managed", "none"}, ovl : 0..1, dns : 0..1]
Requests == [kind : AllKinds \cup {"none"}, phase : Phases, match : Config,
             on : Sources \cup {"none"}, of : Content, was : Row, ts : BOOLEAN, n : 0..2,
             locks : BOOLEAN]

\* A row without a content is no row.
Whole(row) == row.cur = "none" => row = NoRow

\* What a request of each kind brings along.
Sensible(r) ==
    /\ r.phase \in {"sent", "wait"} => r.kind \in JobKinds
    /\ r.kind = "apply" => r.of \in Composed
    /\ r.kind = "overlay" => r.n \in 0..1
    /\ r.kind \in {"import", "delete"} => r.on \in Sources
    /\ r.kind = "import" => r.of.src \in Digests
    /\ Whole(r.was)

Asked == req \in [Clients -> Requests] /\ \A c \in Clients : Sensible(req[c])
Stored ==
    /\ rows \in [Sources -> Row] /\ \A s \in Sources : Whole(rows[s])
    /\ snaps \subseteq Sources \X Digests /\ creds \subseteq Sources
    /\ draft \in [ovl : 0..1, dns : 0..1]
OnDisk ==
    /\ cfg \in Config /\ files \subseteq File /\ key \in 0..2 /\ ident \in BOOLEAN
    /\ policy \in 0..2 /\ base \in File /\ gw \in Gateway
InJob ==
    /\ job.kind \in JobKinds \cup {"none"} /\ job.by \in Clients \cup {"nobody"}
    /\ job.pc \in Stages /\ (job.pc = "none" <=> job = NoJob) /\ (job.pc # "none" => job.kind # "none")
    /\ job.want \in Config /\ job.was \in Config /\ job.seen \in Config /\ job.ran \in Gateway
    /\ job.base \in File /\ job.prev \in File /\ job.key \in 0..2 /\ job.n \in 0..2
    /\ job.fresh \in BOOLEAN
Waited  == \A c \in Clients : (req[c].phase = "wait") = (job.by = c)
Counted == events \subseteq {"gone", "torn"} /\ asked \in 0..MaxRequests /\ left \in 0..MaxFaults

TypeInv == Asked /\ Stored /\ OnDisk /\ InJob /\ Waited /\ Counted

(***************************************************************************)
(* What is named is there.  A job in progress names up to three files: the *)
(* candidate's, the one it has found and the one of the gateway it has     *)
(* found; only a file of its own is removed, and that is none of the other *)
(* two.  The same goes for the device policies.                            *)
(***************************************************************************)
Named ==
    /\ cfg.prof \in files \cup {Managed} /\ gw.cfg.prof \in files \cup {Managed}
    /\ job.pc \notin {"none", "done"} =>
          /\ {job.want.prof, job.was.prof, job.ran.cfg.prof} \subseteq files \cup {Managed}
          /\ job.kind = "apply" /\ job.fresh => job.want.prof \notin {job.was.prof, job.ran.cfg.prof}

PolicyInv ==
    /\ cfg.pol => policy # 0
    /\ \A c \in Clients : req[c].kind = "policy" => req[c].n # 0
    /\ job.pc \notin {"none", "done"} =>
          /\ job.want.pol \/ job.was.pol => policy # 0
          /\ job.kind = "topology" /\ job.fresh => ~job.was.pol
          /\ job.kind = "policy" => job.n # 0

(***************************************************************************)
(* A start writes the base before the configuration, so between the two    *)
(* the base is ahead; a job of another kind never touches it.              *)
(***************************************************************************)
BaseInv ==
    /\ BaseKept
    /\ job.pc \in {"check", "save", "reload", "rollback", "restart"} => base = job.prev
    /\ job.pc \in {"commit", "takeover"} => base = job.base /\ job.kind = "start"
    /\ job.pc \in {"reload", "rollback", "restart"} => job.kind \in {"apply", "tailscale"}
    /\ job.pc \notin {"none", "done"} =>
          /\ job.kind = "start" /\ job.want.prof.by = "start" => job.base = job.want.prof
          /\ job.kind # "start" => job.base = job.prev
          /\ job.kind \notin {"start", "apply"} => job.want.prof = job.was.prof
          /\ job.kind = "apply" => job.want.prof.by = "apply"
          /\ job.was.prof.by = "start" /\ "torn" \notin events => job.prev = job.was.prof

AgreeInv == Named /\ PolicyInv /\ BaseInv

-----------------------------------------------------------------------------
LEMMA Constant ==
    /\ Managed \in File /\ Managed.of \in Composed /\ Managed.of \in Content /\ Plain \in Config
    /\ Plain.prof = Managed /\ Managed.by = "none" /\ Managed.of.src = "managed"
    /\ Off \in Gateway /\ Off.cfg = Plain /\ NoRow \in Row /\ Whole(NoRow) /\ NoRow.old = {}
    /\ Composed \subseteq Content
  BY DEF Managed, File, Composed, Content, Plain, Config, Off, Gateway, NoRow, Row, Whole

IsReq(r) ==
    r = [kind |-> r.kind, phase |-> r.phase, match |-> r.match, on |-> r.on, of |-> r.of,
         was |-> r.was, ts |-> r.ts, n |-> r.n, locks |-> r.locks]

LEMMA TypedReq ==
    ASSUME NEW r, IsReq(r), r.kind \in AllKinds \cup {"none"}, r.phase \in Phases, r.match \in Config,
           r.on \in Sources \cup {"none"}, r.of \in Content, r.was \in Row, r.ts \in BOOLEAN,
           r.n \in 0..2, r.locks \in BOOLEAN
    PROVE  r \in Requests
  BY DEF Requests, IsReq

LEMMA ReqTyped == \A r \in Requests : IsReq(r)
  BY DEF Requests, IsReq

\* One field of a request is replaced.
LEMMA Req_kind ==
    ASSUME NEW r, IsReq(r), NEW x, NEW q, q = [r EXCEPT !.kind = x]
    PROVE  /\ IsReq(q) /\ q.kind = x
           /\ q.phase = r.phase /\ q.match = r.match /\ q.on = r.on /\ q.of = r.of
           /\ q.was = r.was /\ q.ts = r.ts /\ q.n = r.n /\ q.locks = r.locks
  BY DEF IsReq

LEMMA Req_phase ==
    ASSUME NEW r, IsReq(r), NEW x, NEW q, q = [r EXCEPT !.phase = x]
    PROVE  /\ IsReq(q) /\ q.phase = x
           /\ q.kind = r.kind /\ q.match = r.match /\ q.on = r.on /\ q.of = r.of
           /\ q.was = r.was /\ q.ts = r.ts /\ q.n = r.n /\ q.locks = r.locks
  BY DEF IsReq

LEMMA Req_match ==
    ASSUME NEW r, IsReq(r), NEW x, NEW q, q = [r EXCEPT !.match = x]
    PROVE  /\ IsReq(q) /\ q.match = x
           /\ q.kind = r.kind /\ q.phase = r.phase /\ q.on = r.on /\ q.of = r.of
           /\ q.was = r.was /\ q.ts = r.ts /\ q.n = r.n /\ q.locks = r.locks
  BY DEF IsReq

LEMMA Req_on ==
    ASSUME NEW r, IsReq(r), NEW x, NEW q, q = [r EXCEPT !.on = x]
    PROVE  /\ IsReq(q) /\ q.on = x
           /\ q.kind = r.kind /\ q.phase = r.phase /\ q.match = r.match /\ q.of = r.of
           /\ q.was = r.was /\ q.ts = r.ts /\ q.n = r.n /\ q.locks = r.locks
  BY DEF IsReq

LEMMA Req_of ==
    ASSUME NEW r, IsReq(r), NEW x, NEW q, q = [r EXCEPT !.of = x]
    PROVE  /\ IsReq(q) /\ q.of = x
           /\ q.kind = r.kind /\ q.phase = r.phase /\ q.match = r.match /\ q.on = r.on
           /\ q.was = r.was /\ q.ts = r.ts /\ q.n = r.n /\ q.locks = r.locks
  BY DEF IsReq

LEMMA Req_was ==
    ASSUME NEW r, IsReq(r), NEW x, NEW q, q = [r EXCEPT !.was = x]
    PROVE  /\ IsReq(q) /\ q.was = x
           /\ q.kind = r.kind /\ q.phase = r.phase /\ q.match = r.match /\ q.on = r.on
           /\ q.of = r.of /\ q.ts = r.ts /\ q.n = r.n /\ q.locks = r.locks
  BY DEF IsReq

LEMMA Req_ts ==
    ASSUME NEW r, IsReq(r), NEW x, NEW q, q = [r EXCEPT !.ts = x]
    PROVE  /\ IsReq(q) /\ q.ts = x
           /\ q.kind = r.kind /\ q.phase = r.phase /\ q.match = r.match /\ q.on = r.on
           /\ q.of = r.of /\ q.was = r.was /\ q.n = r.n /\ q.locks = r.locks
  BY DEF IsReq

LEMMA Req_n ==
    ASSUME NEW r, IsReq(r), NEW x, NEW q, q = [r EXCEPT !.n = x]
    PROVE  /\ IsReq(q) /\ q.n = x
           /\ q.kind = r.kind /\ q.phase = r.phase /\ q.match = r.match /\ q.on = r.on
           /\ q.of = r.of /\ q.was = r.was /\ q.ts = r.ts /\ q.locks = r.locks
  BY DEF IsReq

LEMMA Req_locks ==
    ASSUME NEW r, IsReq(r), NEW x, NEW q, q = [r EXCEPT !.locks = x]
    PROVE  /\ IsReq(q) /\ q.locks = x
           /\ q.kind = r.kind /\ q.phase = r.phase /\ q.match = r.match /\ q.on = r.on
           /\ q.of = r.of /\ q.was = r.was /\ q.ts = r.ts /\ q.n = r.n
  BY DEF IsReq

LEMMA NoReqIs ==
    /\ NoReq \in Requests /\ IsReq(NoReq) /\ Sensible(NoReq)
    /\ NoReq.kind = "none" /\ NoReq.phase = "none" /\ NoReq.was = NoRow /\ NoReq.locks = FALSE
    /\ NoReq.match = Plain /\ NoReq.on = "none" /\ NoReq.of = Managed.of /\ NoReq.ts = FALSE
    /\ NoReq.n = 0
<1>1. /\ NoReq.kind = "none" /\ NoReq.phase = "none" /\ NoReq.was = NoRow /\ NoReq.locks = FALSE
      /\ NoReq.match = Plain /\ NoReq.on = "none" /\ NoReq.of = Managed.of /\ NoReq.ts = FALSE
      /\ NoReq.n = 0
  BY DEF NoReq
<1>2. IsReq(NoReq)
  BY DEF NoReq, IsReq
<1>3. NoReq \in Requests
  <2>1. NoReq.ts \in BOOLEAN /\ NoReq.locks \in BOOLEAN
    BY <1>1, Zenon
  <2>2. /\ NoReq.kind \in AllKinds \cup {"none"} /\ NoReq.phase \in Phases /\ NoReq.n \in 0..2
        /\ NoReq.match \in Config /\ NoReq.of \in Content /\ NoReq.was \in Row
        /\ NoReq.on \in Sources \cup {"none"}
    BY <1>1, Constant DEF Phases
  <2> QED  BY <1>2, <2>1, <2>2, TypedReq
<1> QED  BY <1>1, <1>2, <1>3, Constant DEF Sensible, JobKinds

LEMMA NoJobIs ==
    /\ NoJob.kind = "none" /\ NoJob.by = "nobody" /\ NoJob.pc = "none" /\ NoJob.want = Plain
    /\ NoJob.was = Plain /\ NoJob.seen = Plain /\ NoJob.ran = Off /\ NoJob.base = Managed
    /\ NoJob.prev = Managed /\ NoJob.key = 0 /\ NoJob.n = 0 /\ NoJob.fresh = FALSE
  BY DEF NoJob

\* What runs with a configuration and the stored key.
LEMMA RunningIs ==
    ASSUME NEW c \in Config, NEW k \in 0..2
    PROVE  /\ With(c, k) \in Gateway /\ With(c, k).state = "running" /\ With(c, k).cfg = c
  BY DEF With, Gateway, Config

LEMMA PartialIs ==
    ASSUME NEW c \in Config, key \in 0..2
    PROVE  /\ Running(c) \in Gateway /\ Running(c).state = "running" /\ Running(c).cfg = c
           /\ Partial(c) \in Gateway /\ Partial(c).state = "partial" /\ Partial(c).cfg = c
  BY DEF With, Gateway, Config, Running, Partial

LEMMA CountedStep ==
    ASSUME Counted, Fine \/ \E kind \in FaultKinds : Fault(kind)
    PROVE  left' \in 0..MaxFaults
  BY ConfigurationAssumption DEF Counted, Fine, Fault

-----------------------------------------------------------------------------
(* Asking.                                                                 *)

LEMMA ToIs ==
    ASSUME NEW kind \in AllKinds, NEW locks \in BOOLEAN, NEW r, r = To(kind, locks), OnDisk
    PROVE  /\ IsReq(r) /\ r \in Requests /\ r.kind = kind /\ r.phase = "sent" /\ r.match = cfg
           /\ r.on = "none" /\ r.of = Managed.of /\ r.was = NoRow /\ r.n = 0
<1> DEFINE a == [NoReq EXCEPT !.kind = kind]
           b == [a EXCEPT !.phase = "sent"]
           d == [b EXCEPT !.match = cfg]
<1>1. /\ IsReq(a) /\ a.kind = kind
      /\ a.phase = NoReq.phase /\ a.match = NoReq.match /\ a.on = NoReq.on /\ a.of = NoReq.of
      /\ a.was = NoReq.was /\ a.ts = NoReq.ts /\ a.n = NoReq.n
  BY NoReqIs, Req_kind
<1>4. r = [d EXCEPT !.locks = locks]
  BY Zenon DEF To
<1> HIDE DEF a
<1>2. /\ IsReq(b) /\ b.phase = "sent" /\ b.match = a.match /\ b.on = a.on /\ b.of = a.of
      /\ b.was = a.was /\ b.ts = a.ts /\ b.n = a.n /\ b.kind = a.kind
  <2>1. b = [a EXCEPT !.phase = "sent"]  OBVIOUS
  <2> HIDE DEF b
  <2> QED  BY <1>1, <2>1, Req_phase
<1> HIDE DEF b
<1>3. /\ IsReq(d) /\ d.match = cfg /\ d.on = b.on /\ d.of = b.of /\ d.phase = b.phase
      /\ d.was = b.was /\ d.ts = b.ts /\ d.n = b.n /\ d.kind = b.kind
  BY <1>2, Req_match
<1> HIDE DEF d
<1>5. /\ IsReq(r) /\ r.locks = locks
      /\ r.match = d.match /\ r.on = d.on /\ r.of = d.of /\ r.phase = d.phase
      /\ r.was = d.was /\ r.ts = d.ts /\ r.n = d.n /\ r.kind = d.kind
  BY <1>3, <1>4, Req_locks
<1>6. /\ r.kind = kind /\ r.phase = "sent" /\ r.match = cfg
      /\ r.on = "none" /\ r.of = Managed.of /\ r.was = NoRow /\ r.ts = FALSE /\ r.n = 0
      /\ r.locks = locks
  BY <1>1, <1>2, <1>3, <1>5, NoReqIs, ZenonT(60)
<1>7. r \in Requests
  <2>1. r.ts \in BOOLEAN /\ r.locks \in BOOLEAN
    BY <1>6, Zenon
  <2>2. /\ r.kind \in AllKinds \cup {"none"} /\ r.phase \in Phases /\ r.n \in 0..2
        /\ r.match \in Config /\ r.of \in Content /\ r.was \in Row /\ r.on \in Sources \cup {"none"}
    BY <1>6, Constant DEF OnDisk, Phases
  <2> QED  BY <1>5, <2>1, <2>2, TypedReq
<1> QED  BY <1>5, <1>6, <1>7

LEMMA AskStep ==
    ASSUME TypeInv, NEW c \in Clients, NEW r \in Requests, Sensible(r), r.phase # "wait", Ask(c, r)
    PROVE  TypeInv'
<1>1. req' = [req EXCEPT ![c] = r] /\ req[c] = NoReq /\ Fine /\ asked' = asked + 1
      /\ asked < MaxRequests
      /\ UNCHANGED <<disk, gw, library, job, events>>
  BY DEF Ask
<1>2. Asked'  BY <1>1 DEF TypeInv, Asked
<1>3. Waited'  BY <1>1, NoReqIs DEF TypeInv, Waited, Asked
<1>4. Stored' /\ OnDisk' /\ InJob'
  BY <1>1 DEF TypeInv, Stored, OnDisk, InJob, disk, library
<1>5. Counted'
  BY <1>1, ConfigurationAssumption DEF TypeInv, Counted, Fine
<1> QED  BY <1>2, <1>3, <1>4, <1>5 DEF TypeInv

(***************************************************************************)
(* What a page may ask for.                                                *)
(***************************************************************************)
Sends(c) ==
    \E r \in Requests :
       /\ Sensible(r) /\ r.phase \in {"sent", "row", "snapshots", "write"} /\ Ask(c, r)
       /\ r.kind = "delete" => Unused(r.on)
       /\ r.kind = "policy" => cfg.pol /\ r.n = policy

LEMMA SendsContent ==
    ASSUME TypeInv, NEW c \in Clients, NEW kind \in {"apply", "start"}, NEW locks \in BOOLEAN,
           NEW of \in Content, kind = "apply" => of \in Composed,
           Ask(c, [To(kind, locks) EXCEPT !.of = of])
    PROVE  Sends(c)
<1> DEFINE t  == To(kind, locks)
           r  == [t EXCEPT !.of = of]
<1>1. OnDisk  BY DEF TypeInv
<1>2. /\ IsReq(t) /\ t \in Requests /\ t.kind = kind /\ t.phase = "sent" /\ t.match = cfg
      /\ t.on = "none" /\ t.was = NoRow /\ t.n = 0
  <2>1. t = To(kind, locks) /\ kind \in AllKinds  BY DEF AllKinds
  <2> HIDE DEF t
  <2> QED  BY <1>1, <2>1, ToIs
<1>3. Ask(c, r)  OBVIOUS
<1> HIDE DEF t
<1>4. /\ IsReq(r) /\ r.of = of /\ r.kind = kind /\ r.phase = "sent" /\ r.match = cfg
      /\ r.on = "none" /\ r.was = NoRow /\ r.ts = t.ts /\ r.n = 0 /\ r.locks = t.locks
  <2>1. r = [t EXCEPT !.of = of]  OBVIOUS
  <2> HIDE DEF r
  <2> QED  BY <1>2, <2>1, Req_of
<1> HIDE DEF r
<1>5. r \in Requests
  BY <1>1, <1>2, <1>4, TypedReq, Constant DEF AllKinds, Phases, OnDisk, Requests
<1>6. Sensible(r)
  BY <1>4, Constant DEF Sensible, JobKinds
<1> QED  BY <1>3, <1>4, <1>5, <1>6 DEF Sends

LEMMA SendsNumber ==
    ASSUME TypeInv, NEW c \in Clients, NEW kind \in {"policy", "topology", "forget", "tailscale"},
           NEW locks \in BOOLEAN, NEW ts \in BOOLEAN, NEW n \in 0..2,
           kind = "policy" => cfg.pol /\ n = policy,
           \/ kind = "policy" /\ Ask(c, [To(kind, locks) EXCEPT !.n = n])
           \/ kind \in {"topology", "forget"} /\ Ask(c, To(kind, locks))
           \/ kind = "tailscale" /\ Ask(c, [To(kind, locks) EXCEPT !.ts = ts, !.n = n])
    PROVE  Sends(c)
<1> DEFINE t == To(kind, locks)
           q == [t EXCEPT !.ts = ts]
           u == [q EXCEPT !.n = n]
           v == [t EXCEPT !.n = n]
<1>1. OnDisk  BY DEF TypeInv
<1>2. /\ IsReq(t) /\ t \in Requests /\ t.kind = kind /\ t.phase = "sent" /\ t.match = cfg
      /\ t.on = "none" /\ t.was = NoRow /\ t.n = 0
  <2>1. t = To(kind, locks) /\ kind \in AllKinds  BY DEF AllKinds
  <2> HIDE DEF t
  <2> QED  BY <1>1, <2>1, ToIs
<1>3. \/ kind = "policy" /\ Ask(c, v)
      \/ kind \in {"topology", "forget"} /\ Ask(c, t)
      \/ kind = "tailscale" /\ Ask(c, u)
  BY Zenon
<1> HIDE DEF t
<1>4. /\ IsReq(q) /\ q.ts = ts /\ q.of = t.of /\ q.kind = kind /\ q.phase = "sent" /\ q.match = cfg
      /\ q.on = "none" /\ q.was = NoRow /\ q.n = 0 /\ q.locks = t.locks
  <2>1. q = [t EXCEPT !.ts = ts]  OBVIOUS
  <2> HIDE DEF q
  <2> QED  BY <1>2, <2>1, Req_ts
<1>5. /\ IsReq(v) /\ v.ts = t.ts /\ v.of = t.of /\ v.kind = kind /\ v.phase = "sent" /\ v.match = cfg
      /\ v.on = "none" /\ v.was = NoRow /\ v.n = n /\ v.locks = t.locks
  <2>1. v = [t EXCEPT !.n = n]  OBVIOUS
  <2> HIDE DEF v
  <2> QED  BY <1>2, <2>1, Req_n
<1> HIDE DEF q, v
<1>6. /\ IsReq(u) /\ u.ts = ts /\ u.of = t.of /\ u.kind = kind /\ u.phase = "sent" /\ u.match = cfg
      /\ u.on = "none" /\ u.was = NoRow /\ u.n = n /\ u.locks = t.locks
  <2>1. u = [q EXCEPT !.n = n]  OBVIOUS
  <2> HIDE DEF u
  <2> QED  BY <1>4, <2>1, Req_n
<1> HIDE DEF u
<1>7. u \in Requests /\ v \in Requests
  BY <1>1, <1>2, <1>5, <1>6, TypedReq, Constant DEF AllKinds, Phases, OnDisk, Requests
<1>8. Sensible(u) /\ Sensible(v) /\ Sensible(t)
  BY <1>2, <1>5, <1>6, Constant DEF Sensible, JobKinds
<1> QED  BY <1>2, <1>3, <1>5, <1>6, <1>7, <1>8 DEF Sends

LEMMA SendsLibrary ==
    ASSUME TypeInv, NEW c \in Clients, NEW s \in Sources, NEW d,
           NEW kind \in {"import", "delete"}, NEW locks \in BOOLEAN,
           kind = "delete" => Unused(s), kind = "import" => d \in Digests,
           \/ /\ kind = "import"
              /\ Ask(c, [To(kind, locks) EXCEPT !.phase = "row", !.on = s, !.of.src = d])
           \/ kind = "delete" /\ Ask(c, [To(kind, locks) EXCEPT !.phase = "snapshots", !.on = s])
    PROVE  Sends(c)
<1> DEFINE t == To(kind, locks)
           phase == IF kind = "import" THEN "row" ELSE "snapshots"
           q == [t EXCEPT !.phase = phase]
           u == [q EXCEPT !.on = s]
           v == [u EXCEPT !.of.src = d]
<1>1. OnDisk  BY DEF TypeInv
<1>2. /\ IsReq(t) /\ t \in Requests /\ t.kind = kind /\ t.match = cfg
      /\ t.of = Managed.of /\ t.was = NoRow /\ t.n = 0
  <2>1. t = To(kind, locks) /\ kind \in AllKinds  BY DEF AllKinds
  <2> HIDE DEF t
  <2> QED  BY <1>1, <2>1, ToIs
<1>3. (kind = "import" /\ Ask(c, v)) \/ (kind = "delete" /\ Ask(c, u))
  BY Zenon
<1> HIDE DEF t
<1>4. /\ IsReq(q) /\ q.ts = t.ts /\ q.of = Managed.of /\ q.kind = kind /\ q.phase = phase /\ q.match = cfg
      /\ q.was = NoRow /\ q.n = 0 /\ q.locks = t.locks
  <2>1. q = [t EXCEPT !.phase = phase]  OBVIOUS
  <2> HIDE DEF q
  <2> QED  BY <1>2, <2>1, Req_phase
<1> HIDE DEF q
<1>5. /\ IsReq(u) /\ u.ts = t.ts /\ u.of = Managed.of /\ u.kind = kind /\ u.phase = phase /\ u.match = cfg
      /\ u.on = s /\ u.was = NoRow /\ u.n = 0 /\ u.locks = t.locks
  <2>1. u = [q EXCEPT !.on = s]  OBVIOUS
  <2> HIDE DEF u
  <2> QED  BY <1>4, <2>1, Req_on
<1> HIDE DEF u
<1>6. /\ IsReq(v) /\ v.ts = t.ts /\ v.kind = kind /\ v.phase = phase /\ v.match = cfg
      /\ v.on = s /\ v.was = NoRow /\ v.n = 0 /\ v.locks = t.locks
      /\ v.of = [Managed.of EXCEPT !.src = d]
  <2>1. v = [u EXCEPT !.of = [u.of EXCEPT !.src = d]]  OBVIOUS
  <2> HIDE DEF v
  <2> QED  BY <1>5, <2>1, Req_of
<1> HIDE DEF v
<1>7. kind = "import" => v.of \in Content /\ v.of.src = d
  BY <1>6, Constant DEF Content
<1>8. u \in Requests /\ (kind = "import" => v \in Requests)
  BY <1>1, <1>2, <1>5, <1>6, <1>7, TypedReq, Constant DEF AllKinds, Phases, OnDisk, Requests
<1>9. (kind = "import" => Sensible(v)) /\ (kind = "delete" => Sensible(u))
  BY <1>5, <1>6, <1>7, Constant DEF Sensible, JobKinds
<1> QED  BY <1>3, <1>5, <1>6, <1>8, <1>9 DEF Sends

LEMMA SendsOverlay ==
    ASSUME TypeInv, NEW c \in Clients, NEW n \in 0..1, NEW locks \in BOOLEAN,
           Ask(c, [To("overlay", locks) EXCEPT !.phase = "write", !.n = n])
    PROVE  Sends(c)
<1> DEFINE t == To("overlay", locks)
           q == [t EXCEPT !.phase = "write"]
           u == [q EXCEPT !.n = n]
<1>1. OnDisk  BY DEF TypeInv
<1>2. /\ IsReq(t) /\ t \in Requests /\ t.kind = "overlay" /\ t.match = cfg
      /\ t.on = "none" /\ t.was = NoRow
  <2>1. t = To("overlay", locks) /\ "overlay" \in AllKinds  BY DEF AllKinds
  <2> HIDE DEF t
  <2> QED  BY <1>1, <2>1, ToIs
<1>3. Ask(c, u)  BY Zenon
<1> HIDE DEF t
<1>4. /\ IsReq(q) /\ q.ts = t.ts /\ q.of = t.of /\ q.kind = "overlay" /\ q.phase = "write" /\ q.match = cfg
      /\ q.on = "none" /\ q.was = NoRow /\ q.locks = t.locks
  <2>1. q = [t EXCEPT !.phase = "write"]  OBVIOUS
  <2> HIDE DEF q
  <2> QED  BY <1>2, <2>1, Req_phase
<1> HIDE DEF q
<1>5. /\ IsReq(u) /\ u.ts = t.ts /\ u.of = t.of /\ u.kind = "overlay" /\ u.phase = "write" /\ u.match = cfg
      /\ u.on = "none" /\ u.was = NoRow /\ u.n = n /\ u.locks = t.locks
  <2>1. u = [q EXCEPT !.n = n]  OBVIOUS
  <2> HIDE DEF u
  <2> QED  BY <1>4, <2>1, Req_n
<1> HIDE DEF u
<1>6. u \in Requests
  BY <1>1, <1>2, <1>5, TypedReq, Constant DEF AllKinds, Phases, OnDisk, Requests
<1>7. Sensible(u)
  BY <1>5, Constant DEF Sensible, JobKinds
<1> QED  BY <1>3, <1>5, <1>6, <1>7 DEF Sends

LEMMA Asks == ASSUME TypeInv, NEW c \in Clients, Request(c) PROVE Sends(c)
<1>1. OnDisk /\ Stored /\ Up \in BOOLEAN  BY DEF TypeInv, Up
<1>2. CASE AskApply(c)
  <2>1. PICK s \in Sources : /\ <<s, rows[s].cur>> \in snaps
                             /\ Ask(c, [To("apply", Up) EXCEPT !.of =
                                    [src |-> rows[s].cur, ovl |-> draft.ovl, dns |-> draft.dns]])
    BY <1>2 DEF AskApply
  <2> DEFINE of == [src |-> rows[s].cur, ovl |-> draft.ovl, dns |-> draft.dns]
  <2>2. of \in Composed /\ of \in Content
    BY <1>1, <2>1 DEF Stored, Composed, Content
  <2> QED  BY <1>1, <2>1, <2>2, SendsContent
<1>3. CASE AskStart(c)
  <2> DEFINE of == [src |-> IF Known(cfg.prof.of.src) THEN cfg.prof.of.src ELSE "none",
                    ovl |-> draft.ovl, dns |-> draft.dns]
  <2>1. of \in Content
    BY <1>1 DEF OnDisk, Config, File, Composed, Stored, Content
  <2>2. Ask(c, [To("start", TRUE) EXCEPT !.of = of])
    BY <1>3 DEF AskStart
  <2> QED  BY <2>1, <2>2, SendsContent
<1>4. CASE AskTailscale(c)
  <2>1. PICK on \in BOOLEAN, n \in {0, 2} : Ask(c, [To("tailscale", Up) EXCEPT !.ts = on, !.n = n])
    BY <1>4 DEF AskTailscale
  <2>2. n \in 0..2  OBVIOUS
  <2> QED  BY <1>1, <2>1, <2>2, SendsNumber
<1>5. CASE AskTopology(c) \/ AskForget(c)
  <2>1. PICK kind \in {"topology", "forget"}, locks \in BOOLEAN : Ask(c, To(kind, locks))
    BY <1>5 DEF AskTopology, AskForget
  <2>2. 0 \in 0..2 /\ FALSE \in BOOLEAN  OBVIOUS
  <2> QED  BY <2>1, <2>2, SendsNumber
<1>6. CASE AskPolicy(c)
  <2>1. cfg.pol /\ Ask(c, [To("policy", FALSE) EXCEPT !.n = policy]) /\ policy \in 0..2
    BY <1>1, <1>6 DEF AskPolicy, OnDisk
  <2> QED  BY <2>1, SendsNumber
<1>7. CASE AskImport(c)
  <2>1. PICK s \in Sources, d \in Digests :
            Ask(c, [To("import", FALSE) EXCEPT !.phase = "row", !.on = s, !.of.src = d])
    BY <1>7 DEF AskImport
  <2> QED  BY <2>1, SendsLibrary
<1>8. CASE AskDelete(c)
  <2>1. PICK s \in Sources : /\ rows[s] # NoRow /\ Unused(s)
                             /\ Ask(c, [To("delete", TRUE) EXCEPT !.phase = "snapshots", !.on = s])
    BY <1>8 DEF AskDelete
  <2> QED  BY <2>1, SendsLibrary
<1>9. CASE AskOverlay(c)
  <2>1. FALSE \in BOOLEAN  OBVIOUS
  <2> QED  BY <1>9, <2>1, SendsOverlay DEF AskOverlay
<1> QED  BY <1>2, <1>3, <1>4, <1>5, <1>6, <1>7, <1>8, <1>9 DEF Request

-----------------------------------------------------------------------------
(* The library.                                                            *)

LEMMA Replied ==
    ASSUME TypeInv, NEW c \in Clients, NEW r \in Requests, Sensible(r), r.phase # "wait",
           req[c].phase # "wait", req' = [req EXCEPT ![c] = r], UNCHANGED job
    PROVE  Asked' /\ Waited'
  BY DEF TypeInv, Asked, Waited

LEMMA AnswerIs ==
    ASSUME TypeInv, NEW c \in Clients, Answer(c), req[c].phase # "wait", UNCHANGED job
    PROVE  Asked' /\ Waited'
  BY Replied, NoReqIs DEF Answer

LEMMA ReachIs ==
    ASSUME TypeInv, NEW c \in Clients, NEW phase \in Phases \ {"sent", "wait"}, Reach(c, phase)
    PROVE  /\ req' = [req EXCEPT ![c] = req'[c]] /\ req'[c] \in Requests /\ Sensible(req'[c])
           /\ req'[c].phase = phase /\ req'[c].kind = req[c].kind /\ req'[c].on = req[c].on
           /\ req'[c].was = req[c].was /\ req'[c].of = req[c].of
<1> DEFINE q == [req[c] EXCEPT !.phase = phase]
<1>1. req[c] \in Requests /\ Sensible(req[c]) /\ IsReq(req[c])
  BY ReqTyped DEF TypeInv, Asked
<1>2. req' = [req EXCEPT ![c] = q] /\ req'[c] = q
  BY DEF Reach, TypeInv, Asked
<1>3. /\ IsReq(q) /\ q.phase = phase /\ q.kind = req[c].kind /\ q.match = req[c].match
      /\ q.on = req[c].on /\ q.of = req[c].of /\ q.was = req[c].was /\ q.ts = req[c].ts
      /\ q.n = req[c].n /\ q.locks = req[c].locks
  <2>1. q = [req[c] EXCEPT !.phase = phase]  OBVIOUS
  <2> HIDE DEF q
  <2> QED  BY <1>1, <2>1, Req_phase
<1> HIDE DEF q
<1>4. q \in Requests  BY <1>1, <1>3, TypedReq DEF Requests
<1>5. Sensible(q)  BY <1>1, <1>3 DEF Sensible
<1> QED  BY <1>2, <1>3, <1>4, <1>5

LEMMA Counting ==
    ASSUME TypeInv, Fine \/ \E kind \in FaultKinds : Fault(kind), UNCHANGED <<events, asked>>
    PROVE  Counted'
  BY CountedStep DEF TypeInv, Counted

LEMMA ImportRowType == ASSUME TypeInv, NEW c \in Clients, ImportRow(c) PROVE TypeInv'
<1> DEFINE s == req[c].on
           d == req[c].of.src
           row == rows[s]
           new == [cur |-> d, old |-> IF row = NoRow \/ row.cur = d THEN row.old ELSE row.old \cup {row.cur}]
<1>1. /\ req[c].kind = "import" /\ req[c].phase = "row" /\ s \in Sources /\ d \in Digests
      /\ req[c] \in Requests /\ Sensible(req[c]) /\ row \in Row /\ Whole(row)
  BY DEF ImportRow, At, TypeInv, Asked, Sensible, Stored
<1>2. new \in Row /\ Whole(new)
  BY <1>1, ConfigurationAssumption DEF Row, Whole, NoRow
<1>3. /\ rows' = [rows EXCEPT ![s] = new] /\ snaps' = snaps \cup {<<s, d>>}
      /\ UNCHANGED <<disk, gw, creds, draft, job, events, asked>> /\ Fine
      /\ Answer(c) \/ req' = [req EXCEPT ![c].phase = "credential", ![c].was = row]
  BY DEF ImportRow
<1> HIDE DEF new
<1>4. Stored'
  BY <1>1, <1>2, <1>3 DEF TypeInv, Stored
<1>5. Asked' /\ Waited'
  <2>1. CASE Answer(c)  BY <1>1, <1>3, <2>1, AnswerIs
  <2>2. CASE req' = [req EXCEPT ![c].phase = "credential", ![c].was = row]
    <3> DEFINE q == [req[c] EXCEPT !.phase = "credential"]
               u == [q EXCEPT !.was = row]
    <3>1. IsReq(req[c]) /\ "credential" \in Phases  BY <1>1, ReqTyped DEF Phases
    <3>2. req' = [req EXCEPT ![c] = u]
      BY <2>2 DEF TypeInv, Asked
    <3>3. /\ IsReq(q) /\ q.phase = "credential" /\ q.kind = req[c].kind /\ q.match = req[c].match
          /\ q.on = req[c].on /\ q.of = req[c].of /\ q.ts = req[c].ts
          /\ q.n = req[c].n /\ q.locks = req[c].locks
      <4>1. q = [req[c] EXCEPT !.phase = "credential"]  OBVIOUS
      <4> HIDE DEF q
      <4> QED  BY <3>1, <4>1, Req_phase
    <3> HIDE DEF q
    <3>4. /\ IsReq(u) /\ u.phase = q.phase /\ u.kind = q.kind /\ u.match = q.match
          /\ u.on = q.on /\ u.of = q.of /\ u.ts = q.ts
          /\ u.n = q.n /\ u.locks = q.locks /\ u.was = row
      <4>1. u = [q EXCEPT !.was = row]  OBVIOUS
      <4> HIDE DEF u
      <4> QED  BY <3>3, <4>1, Req_was
    <3> HIDE DEF u
    <3>5. u \in Requests
      BY <1>1, <3>1, <3>3, <3>4, TypedReq DEF Requests
    <3>6. Sensible(u)
      BY <1>1, <3>3, <3>4 DEF Sensible
    <3> QED  BY <1>1, <1>3, <3>2, <3>3, <3>4, <3>5, <3>6, Replied
  <2> QED  BY <1>3, <2>1, <2>2
<1>6. Counted'  BY <1>3, Counting
<1> QED  BY <1>3, <1>4, <1>5, <1>6 DEF TypeInv, OnDisk, InJob, disk

LEMMA ImportCredentialType == ASSUME TypeInv, NEW c \in Clients, ImportCredential(c) PROVE TypeInv'
<1>1. /\ req[c].kind = "import" /\ req[c].phase = "credential" /\ req[c].on \in Sources
      /\ req[c].was \in Row /\ Whole(req[c].was)
  BY DEF ImportCredential, At, TypeInv, Asked, Sensible, Requests
<1>2. Stored'
  BY <1>1 DEF ImportCredential, TypeInv, Stored
<1>3. Asked' /\ Waited'
  BY <1>1, AnswerIs DEF ImportCredential
<1>4. Counted'
  BY Counting DEF ImportCredential, FaultKinds
<1> QED  BY <1>2, <1>3, <1>4 DEF ImportCredential, TypeInv, OnDisk, InJob, disk

LEMMA DeleteType ==
    ASSUME TypeInv, NEW c \in Clients, DeleteSnapshots(c) \/ DeleteCredential(c) \/ DeleteRow(c)
    PROVE  TypeInv'
<1>1. req[c].kind = "delete" /\ req[c].phase # "wait" /\ req[c].on \in Sources
  BY DEF DeleteSnapshots, DeleteCredential, DeleteRow, At, TypeInv, Asked, Sensible
<1>2. UNCHANGED <<disk, gw, job, events, asked, draft>>
  BY DEF DeleteSnapshots, DeleteCredential, DeleteRow
<1>3. Stored'
  BY <1>1, Constant DEF DeleteSnapshots, DeleteCredential, DeleteRow, TypeInv, Stored
<1>4. Asked' /\ Waited'
  <2>1. CASE Answer(c)  BY <1>1, <1>2, <2>1, AnswerIs
  <2>2. CASE \E phase \in {"credential", "entry"} : Reach(c, phase)
    <3>1. PICK phase \in Phases \ {"sent", "wait"} : Reach(c, phase)
      BY <2>2 DEF Phases
    <3> QED  BY <1>1, <1>2, <3>1, ReachIs, Replied
  <2> QED  BY <2>1, <2>2 DEF DeleteSnapshots, DeleteCredential, DeleteRow
<1>5. Counted'
  BY <1>2, Counting DEF DeleteSnapshots, DeleteCredential, DeleteRow, FaultKinds
<1> QED  BY <1>2, <1>3, <1>4, <1>5 DEF TypeInv, OnDisk, InJob, disk

LEMMA WriteOverlayType == ASSUME TypeInv, NEW c \in Clients, WriteOverlay(c) PROVE TypeInv'
<1>1. req[c].kind = "overlay" /\ req[c].phase = "write" /\ req[c].n \in 0..1
  BY DEF WriteOverlay, At, TypeInv, Asked, Sensible
<1>2. draft' \in [ovl : 0..1, dns : 0..1]
  BY <1>1 DEF WriteOverlay, TypeInv, Stored
<1>3. Asked' /\ Waited'
  BY <1>1, AnswerIs DEF WriteOverlay
<1>4. Counted'
  BY Counting DEF WriteOverlay
<1> QED  BY <1>2, <1>3, <1>4 DEF WriteOverlay, TypeInv, Stored, OnDisk, InJob, disk

LEMMA SaveDNSType == ASSUME TypeInv, SaveDNS PROVE TypeInv'
<1>1. draft' \in [ovl : 0..1, dns : 0..1]
  BY DEF SaveDNS, TypeInv, Stored
<1>2. Counted'
  BY ConfigurationAssumption DEF SaveDNS, TypeInv, Counted, Fine
<1> QED  BY <1>1, <1>2 DEF SaveDNS, TypeInv, Asked, Waited, Stored, OnDisk, InJob, disk

-----------------------------------------------------------------------------
(* The helper.                                                             *)

Working == Check \/ Save \/ Commit \/ Takeover \/ Reload \/ Rollback \/ Restart

\* The order of the stages of a job.
Onward ==
    /\ job.pc = "check" => job'.pc \in {"save", "done"}
    /\ job.pc = "save" => \/ job'.pc = "commit" /\ job.kind = "start"
                          \/ job'.pc = "reload" /\ job.kind \in {"apply", "tailscale"}
                          \/ job'.pc = "done"
    /\ job.pc = "commit" => job'.pc \in {"takeover", "done"}
    /\ job.pc = "takeover" => job'.pc = "done"
    /\ job.pc = "reload" => job'.pc \in {"rollback", "done"}
    /\ job.pc = "rollback" => job'.pc = "restart"
    /\ job.pc = "restart" => job'.pc = "done"

\* A job goes on with what it has found, and for whom it works.
LEMMA Moves ==
    ASSUME IsJob(job), Working
    PROVE  /\ IsJob(job)' /\ Kept /\ job'.by = job.by /\ Onward
           /\ job.pc \in {"check", "save", "commit", "takeover", "reload", "rollback", "restart"}
<1>1. ASSUME NEW ok, Finish(ok)
      PROVE  IsJob(job)' /\ Kept /\ job'.by = job.by /\ job'.pc = "done"
  BY <1>1, Finished DEF Finish
<1>2. ASSUME NEW pc, job' = [job EXCEPT !.pc = pc]
      PROVE  IsJob(job)' /\ Kept /\ job'.by = job.by /\ job'.pc = pc
  BY <1>2, Moved
<1>3. CASE Check
  BY <1>1, <1>2, <1>3 DEF Check, Doing, Undo, Onward
<1>4. CASE Save
  <2>1. CASE Undo  BY <1>1, <1>4, <2>1 DEF Save, Doing, Undo, Onward
  <2>2. CASE job.kind = "start" /\ job' = [job EXCEPT !.pc = "commit"]
    BY <1>2, <1>4, <2>2 DEF Save, Doing, Onward
  <2>3. CASE Reloads(job.kind) /\ job' = [job EXCEPT !.pc = "reload"]
    BY <1>2, <1>4, <2>3 DEF Save, Doing, Onward, Reloads
  <2>4. CASE Finish(TRUE)  BY <1>1, <1>4, <2>4 DEF Save, Doing, Onward
  <2> QED  BY <1>4, <2>1, <2>2, <2>3, <2>4 DEF Save
<1>5. CASE Commit
  BY <1>1, <1>2, <1>5 DEF Commit, Doing, Onward
<1>6. CASE Takeover
  BY <1>1, <1>6 DEF Takeover, Doing, Onward
<1>7. CASE Reload
  <2>1. CASE Finish(TRUE)  BY <1>1, <1>7, <2>1 DEF Reload, Doing, Onward
  <2>2. ASSUME NEW phase, job' = [job EXCEPT !.pc = "rollback", !.failed = phase]
        PROVE  IsJob(job)' /\ Kept /\ job'.by = job.by /\ job'.pc = "rollback"
    BY <2>2, Failed
  <2> QED  BY <1>7, <2>1, <2>2 DEF Reload, Doing, Onward
<1>8. CASE Rollback
  <2>1. IsJob(job)' /\ Kept /\ job'.by = job.by /\ job'.pc = "restart"
    BY <1>2, <1>8, Reverted DEF Rollback
  <2> QED  BY <1>8, <2>1 DEF Rollback, Doing, Onward
<1>9. CASE Restart
  <2>1. PICK ready : job' = [job EXCEPT !.pc = "done", !.ready = ready]
    BY <1>9, Zenon DEF Restart
  <2>2. IsJob(job)' /\ Kept /\ job'.by = job.by /\ job'.pc = "done"
    BY <2>1, Answered
  <2> QED  BY <1>9, <2>2 DEF Restart, Doing, Onward
<1> QED  BY <1>3, <1>4, <1>5, <1>6, <1>7, <1>8, <1>9 DEF Working

LEMMA WantedIs ==
    ASSUME OnDisk, NEW r \in Requests, Sensible(r), r.kind \in JobKinds
    PROVE  /\ Wanted(r) \in Config
           /\ Wanted(r).prof = IF r.kind = "apply" THEN Applied(r.of)
                               ELSE IF r.kind = "start" THEN StartProfile(r) ELSE cfg.prof
           /\ r.kind = "topology" => Wanted(r).pol
           /\ r.kind # "topology" => Wanted(r).pol = cfg.pol
           /\ r.kind = "start" => StartProfile(r) \in File
           /\ r.kind = "apply" => Applied(r.of) \in File
<1>1. cfg \in Config /\ cfg.prof \in File /\ cfg.prof.of \in Composed /\ r.of \in Content
  BY DEF OnDisk, Config, File, Requests
<1>2. r.kind = "start" => StartProfile(r) \in File
  BY <1>1, Constant DEF StartProfile, FromDrafts, File, Composed, Content
<1>3. r.kind = "apply" => Applied(r.of) \in File
  BY DEF Sensible, Applied, File
<1>4. CASE r.kind = "apply"
  <2>1. Wanted(r) = [cfg EXCEPT !.prof = Applied(r.of)]  BY <1>4 DEF Wanted
  <2> QED  BY <1>1, <1>3, <1>4, <2>1 DEF Config
<1>5. CASE r.kind = "start"
  <2>1. Wanted(r) = [cfg EXCEPT !.prof = StartProfile(r)]  BY <1>5 DEF Wanted
  <2> QED  BY <1>1, <1>2, <1>5, <2>1 DEF Config
<1>6. CASE r.kind = "tailscale"
  <2>1. Wanted(r) = [cfg EXCEPT !.ts = r.ts]  BY <1>6 DEF Wanted
  <2> QED  BY <1>1, <1>6, <2>1 DEF Config, Requests
<1>7. CASE r.kind = "topology"
  <2> DEFINE a == [cfg EXCEPT !.net = 1 - cfg.net]
  <2>1. a \in Config /\ a.prof = cfg.prof  BY <1>1 DEF Config
  <2>2. Wanted(r) = [a EXCEPT !.pol = TRUE]  BY <1>7 DEF Wanted, Config
  <2> HIDE DEF a
  <2>3. ASSUME NEW p \in BOOLEAN, NEW w, w = [a EXCEPT !.pol = p]
        PROVE  w \in Config /\ w.prof = a.prof /\ w.pol = p
    BY <2>1, <2>3 DEF Config
  <2>4. Wanted(r) \in Config /\ Wanted(r).prof = a.prof /\ Wanted(r).pol = TRUE
    BY <2>2, <2>3, Zenon
  <2> QED  BY <1>7, <2>1, <2>4
<1>8. CASE r.kind \in {"policy", "forget"}
  <2>1. Wanted(r) = cfg  BY <1>8 DEF Wanted
  <2> QED  BY <1>1, <1>8, <2>1
<1> QED  BY <1>2, <1>3, <1>4, <1>5, <1>6, <1>7, <1>8 DEF JobKinds

LEMMA BeginIs ==
    ASSUME NEW c \in Clients, Begin(c), Accepts(req[c])
    PROVE  /\ IsJob(job)' /\ job'.kind = req[c].kind /\ job'.by = c /\ job'.pc = "check"
           /\ job'.want = Wanted(req[c]) /\ job'.was = cfg /\ job'.seen = req[c].match /\ job'.ran = gw
           /\ job'.key = key /\ job'.n = req[c].n /\ job'.fresh = Fresh(req[c])
           /\ job'.base = NewBase(req[c]) /\ job'.prev = base
<1>1. job' = NewJob(c)  BY DEF Begin
<1> QED  BY <1>1 DEF NewJob, IsJob

LEMMA BeginType == ASSUME TypeInv, NEW c \in Clients, Begin(c) PROVE TypeInv'
<1>1. /\ req[c] \in Requests /\ Sensible(req[c]) /\ req[c].kind \in JobKinds /\ IsReq(req[c])
      /\ req[c].phase = "sent" /\ job = NoJob /\ job.by = "nobody"
  BY ReqTyped, NoJobIs DEF Begin, TypeInv, Asked, Sensible
<1>2. Counted'  BY Counting DEF Begin
<1>3. CASE Accepts(req[c])
  <2>1. /\ files' = files \cup NewFiles(req[c])
        /\ key' = IF req[c].kind = "tailscale" /\ req[c].n # 0 THEN req[c].n ELSE key
        /\ policy' = IF req[c].kind = "topology" /\ Fresh(req[c]) THEN 1 ELSE policy
        /\ Reach(c, "wait") /\ UNCHANGED <<cfg, ident, base, gw, library>>
    BY <1>3 DEF Begin
  <2>2. NewFiles(req[c]) \subseteq File /\ NewBase(req[c]) \in File /\ Wanted(req[c]) \in Config
    BY <1>1, WantedIs DEF NewFiles, NewBase, TypeInv, OnDisk
  <2>3. OnDisk' /\ Stored'
    BY <2>1, <2>2, <1>1 DEF TypeInv, OnDisk, Stored, library, Requests
  <2>4. InJob'
    <3>1. /\ job'.kind = req[c].kind /\ job'.by = c /\ job'.pc = "check"
          /\ job'.want = Wanted(req[c]) /\ job'.was = cfg /\ job'.seen = req[c].match /\ job'.ran = gw
          /\ job'.key = key /\ job'.n = req[c].n /\ job'.fresh = Fresh(req[c])
          /\ job'.base = NewBase(req[c]) /\ job'.prev = base
      BY <1>3, BeginIs
    <3>2. Fresh(req[c]) \in BOOLEAN  BY DEF Fresh
    <3>3. job' # NoJob /\ job'.pc # "none"  BY <3>1, NoJobIs
    <3> QED  BY <1>1, <2>2, <3>1, <3>2, <3>3 DEF InJob, TypeInv, OnDisk, Stages, Requests, JobKinds
  <2>5. Asked' /\ Waited'
    <3> DEFINE q == [req[c] EXCEPT !.phase = "wait"]
    <3>1. req' = [req EXCEPT ![c] = q]  BY <2>1 DEF Reach, TypeInv, Asked
    <3>2. /\ IsReq(q) /\ q.phase = "wait" /\ q.kind = req[c].kind /\ q.match = req[c].match
          /\ q.on = req[c].on /\ q.of = req[c].of /\ q.was = req[c].was /\ q.ts = req[c].ts
          /\ q.n = req[c].n /\ q.locks = req[c].locks
      <4>1. q = [req[c] EXCEPT !.phase = "wait"]  OBVIOUS
      <4> HIDE DEF q
      <4> QED  BY <1>1, <4>1, Req_phase
    <3> HIDE DEF q
    <3>3. q \in Requests  BY <1>1, <3>2, TypedReq DEF Requests, Phases
    <3>4. Sensible(q)  BY <1>1, <3>2 DEF Sensible
    <3>5. job'.by = c  BY <1>3, BeginIs
    <3> QED  BY <1>1, <3>1, <3>2, <3>3, <3>4, <3>5, ConfigurationAssumption DEF TypeInv, Asked, Waited
  <2> QED  BY <1>2, <2>3, <2>4, <2>5 DEF TypeInv
<1>4. CASE ~Accepts(req[c]) /\ Answer(c) /\ UNCHANGED <<files, key, policy, job>>
  BY <1>1, <1>2, <1>4, AnswerIs DEF Begin, TypeInv, OnDisk, Stored, InJob, library
<1> QED  BY <1>3, <1>4 DEF Begin

\* Only a commit that was not taken back is a failure to remember.
LEMMA TornOnly ==
    ASSUME Working
    PROVE  /\ UNCHANGED req
           /\ events' = events \/ (job.pc = "commit" /\ events' = events \cup {"torn"})
<1>1. CASE Commit  BY <1>1 DEF Commit, Doing
<1>2. CASE Check \/ Save \/ Takeover \/ Reload \/ Rollback \/ Restart
  BY <1>2 DEF Check, Save, Takeover, Reload, Rollback, Restart, Rest
<1> QED  BY <1>1, <1>2 DEF Working

LEMMA WorkingType == ASSUME TypeInv, PolicyInv, IInv, Working PROVE TypeInv'
<1>1. IsJob(job)' /\ Kept /\ job'.by = job.by /\ Onward /\ job.pc # "none"
      /\ job.pc \in {"check", "save", "commit", "takeover", "reload", "rollback", "restart"}
  BY Moves DEF IInv, Shapes
<1>2. UNCHANGED <<rows, snaps, creds, draft, req, asked>> /\ events' \subseteq events \cup {"torn"}
  BY TornOnly DEF Working, Check, Save, Commit, Takeover, Reload, Rollback, Restart, Rest, library
<1>3. InJob'
  <2>1. job'.pc \in Stages \ {"none"}  BY <1>1 DEF Onward, Stages
  <2>2. job' # NoJob  BY <2>1, NoJobIs
  <2> QED  BY <1>1, <2>1, <2>2 DEF TypeInv, InJob, Kept
<1>4. Counted'
  <2>1. Fine \/ \E kind \in FaultKinds : Fault(kind)
    BY DEF Working, Check, Save, Commit, Takeover, Reload, Rollback, Restart, FaultKinds
  <2> QED  BY <1>2, <2>1, CountedStep DEF TypeInv, Counted
<1>5. cfg' \in Config /\ base' \in File /\ key' \in 0..2 /\ files' \subseteq File
  BY DEF Working, Check, Save, Commit, Takeover, Reload, Rollback, Restart, Undo, TypeInv, InJob, OnDisk
<1>6. policy' \in 0..2
  <2>1. CASE Save
    <3>1. job.kind = "policy" => policy # 0
      BY <2>1 DEF Save, Doing, PolicyInv, IInv, Current
    <3>2. policy' \in {0, policy} \/ (job.kind = "policy" /\ policy' = 3 - policy)
      BY <2>1 DEF Save, Undo
    <3> QED  BY <3>1, <3>2 DEF TypeInv, OnDisk
  <2>2. CASE Check
    <3>1. policy' \in {0, policy}  BY <2>2 DEF Check, Undo
    <3> QED  BY <3>1 DEF TypeInv, OnDisk
  <2>3. CASE Commit \/ Takeover \/ Reload \/ Rollback \/ Restart
    BY <2>3 DEF Commit, Takeover, Reload, Rollback, Restart, TypeInv, OnDisk
  <2> QED  BY <2>1, <2>2, <2>3 DEF Working
<1>7. ident' \in BOOLEAN
  BY DEF Working, Check, Save, Commit, Takeover, Reload, Rollback, Restart, TypeInv, OnDisk
<1>8. gw' \in Gateway
  <2>1. /\ cfg \in Config /\ key \in 0..2 /\ gw \in Gateway /\ Off \in Gateway
        /\ Running(cfg) \in Gateway /\ Partial(cfg) \in Gateway
    BY PartialIs, Constant DEF TypeInv, OnDisk
  <2>2. [gw EXCEPT !.state = "partial"] \in Gateway
    BY <2>1 DEF Gateway
  <2>3. CASE Check \/ Save \/ Commit \/ Rollback
    BY <2>1, <2>3 DEF Check, Save, Commit, Rollback
  <2>4. CASE Takeover  BY <2>1, <2>4 DEF Takeover
  <2>5. CASE Reload  BY <2>1, <2>2, <2>5 DEF Reload
  <2>6. CASE Restart  BY <2>1, <2>6 DEF Restart
  <2> QED  BY <2>3, <2>4, <2>5, <2>6 DEF Working
<1> QED
  BY <1>1, <1>2, <1>3, <1>4, <1>5, <1>6, <1>7, <1>8 DEF TypeInv, Asked, Waited, Stored, OnDisk

LEMMA EndType ==
    ASSUME TypeInv, job' = NoJob, req' = [c \in Clients |-> IF c = job.by THEN NoReq ELSE req[c]]
    PROVE  InJob' /\ Asked' /\ Waited'
<1>1. InJob'
  <2>1. job'.fresh = FALSE /\ job'.fresh \in BOOLEAN  BY NoJobIs, Zenon
  <2> QED  BY <2>1, NoJobIs, Constant DEF InJob, Stages
<1>2. Asked'  BY NoReqIs DEF TypeInv, Asked
<1>3. Waited'  BY NoReqIs, NoJobIs, ConfigurationAssumption DEF TypeInv, Waited
<1> QED  BY <1>1, <1>2, <1>3

LEMMA OtherType ==
    ASSUME TypeInv, IsJob(job), Deliver \/ Crash \/ CliStart \/ CliStop \/ \E c \in Clients : Leave(c)
    PROVE  TypeInv'
<1>1. CASE Deliver
  <2>1. InJob' /\ Asked' /\ Waited'  BY <1>1, EndType DEF Deliver
  <2>2. Counted'  BY <1>1, Counting DEF Deliver
  <2> QED  BY <1>1, <2>1, <2>2 DEF Deliver, TypeInv, Stored, OnDisk, disk, library
<1>2. CASE Crash
  <2>1. InJob' /\ Asked' /\ Waited'  BY <1>2, EndType DEF Crash
  <2>2. Counted'
    <3>1. left' \in 0..MaxFaults
      BY <1>2, CountedStep DEF Crash, FaultKinds, TypeInv
    <3> QED  BY <1>2, <3>1 DEF Crash, TypeInv, Counted
  <2>3. gw' \in Gateway
    BY <1>2, PartialIs DEF Crash, TypeInv, OnDisk
  <2> QED  BY <1>2, <2>1, <2>2, <2>3 DEF Crash, TypeInv, Stored, OnDisk, disk, library
<1>3. CASE CliStart \/ CliStop
  <2>1. gw' \in Gateway /\ ident' \in BOOLEAN
    BY <1>3, PartialIs, Constant DEF CliStart, CliStop, TypeInv, OnDisk, disk
  <2> QED
    <3>1. UNCHANGED <<cfg, files, key, policy, base, library, req, job, events, bounds>>
      BY <1>3 DEF CliStart, CliStop, disk
    <3>2. Asked' /\ Waited' /\ InJob' /\ Counted'
      BY <3>1 DEF TypeInv, Asked, Waited, InJob, Counted, bounds
    <3>3. Stored' /\ OnDisk'
      BY <2>1, <3>1 DEF TypeInv, Stored, OnDisk, library
    <3> QED  BY <3>2, <3>3 DEF TypeInv
<1>4. ASSUME NEW c \in Clients, Leave(c) PROVE TypeInv'
  <2>1. IsJob(job)' /\ Kept /\ job'.pc = job.pc /\ job.by = c /\ job.pc # "none"
    BY <1>4, Orphaned, NoJobIs, ConfigurationAssumption DEF Leave, TypeInv, Waited, InJob
  <2>2. job'.by = "nobody"
    BY <1>4 DEF Leave, IsJob
  <2>3. InJob'
    BY <2>1, <2>2, NoJobIs DEF TypeInv, InJob, Kept
  <2>4. Asked'  BY <1>4, NoReqIs DEF Leave, Answer, TypeInv, Asked
  <2>5. Waited'
    BY <1>4, <2>1, <2>2, NoReqIs, ConfigurationAssumption DEF Leave, Answer, TypeInv, Waited, Asked
  <2>6. Counted'
    <3>1. left' \in 0..MaxFaults
      BY <1>4, CountedStep DEF Leave, FaultKinds, TypeInv
    <3> QED  BY <1>4, <3>1 DEF Leave, TypeInv, Counted
  <2> QED  BY <1>4, <2>3, <2>4, <2>5, <2>6 DEF Leave, TypeInv, Stored, OnDisk, disk, library
<1> QED  BY <1>1, <1>2, <1>3, <1>4

-----------------------------------------------------------------------------
(* The files that are named.                                               *)

LEMMA AgreeInit == Init => AgreeInv
<1> SUFFICES ASSUME Init PROVE AgreeInv  OBVIOUS
<1>1. /\ job = NoJob /\ req = [c \in Clients |-> NoReq]
      /\ cfg.prof \in files \cup {Managed} /\ (cfg.pol => policy # 0)
      /\ (cfg.prof.by = "start" => base = cfg.prof) /\ gw \in {Off, Running(cfg)}
  <2>1. PICK s \in Sources, d \in Digests, on \in BOOLEAN, k \in 0..1, p \in BOOLEAN :
          /\ rows = [t \in Sources |-> IF t = s THEN [cur |-> d, old |-> {}] ELSE NoRow]
          /\ snaps = {<<s, d>>} /\ creds = {s}
          /\ key = k /\ ident = (k = 1 /\ on) /\ policy \in IF p THEN {1} ELSE 0..1
          /\ \E prof \in {Managed, [by |-> "apply", of |-> [Managed.of EXCEPT !.src = d]],
                          [by |-> "start", of |-> [Managed.of EXCEPT !.ovl = 1]]} :
                /\ cfg = [prof |-> prof, ts |-> k = 1, net |-> 0, pol |-> p]
                /\ files = {prof} \ {Managed}
                /\ base = IF prof.by = "start" THEN prof ELSE Managed
                /\ draft = [ovl |-> prof.of.ovl, dns |-> 0]
          /\ gw = IF on THEN Running(cfg) ELSE Off
    BY Zenon DEF Init
  <2> QED  BY <2>1 DEF Init
<1>2. gw.cfg.prof \in {cfg.prof, Managed}
  BY <1>1, Constant DEF Running, With
<1> QED
  BY <1>1, <1>2, NoJobIs, NoReqIs DEF AgreeInv, Named, PolicyInv, BaseInv, BaseKept

\* What the invariant speaks of does not change.
LEMMA AgreeSame ==
    ASSUME AgreeInv, UNCHANGED <<cfg, files, policy, base, gw, job, events>>,
           \A c \in Clients : req'[c].kind = "policy" => req'[c].n # 0
    PROVE  AgreeInv'
  BY DEF AgreeInv, Named, PolicyInv, BaseInv, BaseKept

LEMMA AgreeRequest ==
    ASSUME TypeInv, AgreeInv, NEW c \in Clients, Request(c)
    PROVE  AgreeInv'
<1>1. PICK r \in Requests : /\ Ask(c, r) /\ (r.kind = "policy" => cfg.pol /\ r.n = policy)
  BY Asks DEF Sends
<1>2. UNCHANGED <<cfg, files, policy, base, gw, job, events>> /\ req' = [req EXCEPT ![c] = r]
  BY <1>1 DEF Ask, disk
<1> QED  BY <1>1, <1>2, AgreeSame DEF AgreeInv, PolicyInv, TypeInv, Asked

LEMMA AgreeLibrary ==
    ASSUME TypeInv, AgreeInv, NEW c \in Clients, InLibrary(c) \/ SaveDNS
    PROVE  AgreeInv'
<1>1. UNCHANGED <<cfg, files, policy, base, gw, job, events>>
  BY DEF InLibrary, ImportRow, ImportCredential, DeleteSnapshots, DeleteCredential, DeleteRow,
     WriteOverlay, SaveDNS, disk
<1>2. ASSUME NEW d \in Clients, req'[d].kind = "policy" PROVE req'[d].n # 0
  <2>1. req[d] \in Requests /\ req \in [Clients -> Requests] /\ (req[d].kind = "policy" => req[d].n # 0)
    BY DEF TypeInv, Asked, AgreeInv, PolicyInv
  <2>2. CASE req' = req  BY <1>2, <2>1, <2>2
  <2>3. CASE Answer(c)  BY <1>2, <2>1, <2>3, NoReqIs DEF Answer
  <2>4. CASE At(c, "import", "row") \/ At(c, "delete", "snapshots") \/ At(c, "delete", "credential")
    <3>1. (\E phase : Reach(c, phase)) \/ req' = [req EXCEPT ![c].phase = "credential", ![c].was = rows[req[c].on]]
          \/ Answer(c) \/ req' = req
      BY <2>4 DEF InLibrary, ImportRow, ImportCredential, DeleteSnapshots, DeleteCredential, DeleteRow,
         WriteOverlay, SaveDNS
    <3> SUFFICES ASSUME req' # req PROVE req'[d].n # 0  BY <1>2, <2>1
    <3>2. d # c => req'[d] = req[d]
      BY <3>1, <2>1 DEF Reach, Answer
    <3>3. req'[c].kind \in {"import", "delete", "none"}
      BY <3>1, <2>1, <2>4, NoReqIs DEF Reach, Answer, At, TypeInv, Asked, Requests
    <3> QED  BY <1>2, <2>1, <2>2, <3>2, <3>3
  <2> QED
    BY <2>2, <2>3, <2>4 DEF InLibrary, ImportRow, ImportCredential, DeleteSnapshots, DeleteCredential,
       DeleteRow, WriteOverlay, SaveDNS
<1> QED  BY <1>1, <1>2, AgreeSame

LEMMA AgreeBegin == ASSUME TypeInv, AgreeInv, NEW c \in Clients, Begin(c) PROVE AgreeInv'
<1>1. /\ req[c] \in Requests /\ Sensible(req[c]) /\ req[c].kind \in JobKinds
      /\ job = NoJob /\ job.pc = "none" /\ OnDisk /\ UNCHANGED <<cfg, base, gw, events>>
  BY NoJobIs DEF Begin, TypeInv, Asked, Sensible
<1>2. CASE Accepts(req[c])
  <2> DEFINE r == req[c]
  <2>1. /\ files' = files \cup NewFiles(r)
        /\ policy' = IF r.kind = "topology" /\ Fresh(r) THEN 1 ELSE policy
        /\ Reach(c, "wait")
    BY <1>2 DEF Begin
  <2>2. /\ job'.kind = r.kind /\ job'.pc = "check"
        /\ job'.want = Wanted(r) /\ job'.was = cfg /\ job'.ran = gw /\ job'.n = r.n
        /\ job'.fresh = Fresh(r) /\ job'.base = NewBase(r) /\ job'.prev = base
    BY <1>2, BeginIs
  <2>3. /\ Wanted(r).prof = IF r.kind = "apply" THEN Applied(r.of)
                            ELSE IF r.kind = "start" THEN StartProfile(r) ELSE cfg.prof
        /\ r.kind = "topology" => Wanted(r).pol
        /\ r.kind # "topology" => Wanted(r).pol = cfg.pol
    BY <1>1, WantedIs
  <2>4. Applied(r.of).by = "apply" /\ Managed.by = "none"  BY Constant DEF Applied
  <2>5. Named'
    <3>1. NewFiles(r) = IF r.kind = "apply" THEN {Applied(r.of)}
                        ELSE IF r.kind = "start" THEN {StartProfile(r)} \ {Managed} ELSE {}
      BY DEF NewFiles
    <3>2. r.kind = "apply" /\ Fresh(r) => Applied(r.of) \notin files  BY DEF Fresh
    <3> HIDE DEF r
    <3> QED  BY <1>1, <2>1, <2>2, <2>3, <2>4, <3>1, <3>2 DEF AgreeInv, Named
  <2>6. PolicyInv'
    <3>1. r.kind = "topology" => (Fresh(r) <=> ~cfg.pol /\ policy = 0)  BY DEF Fresh
    <3>2. \A d \in Clients : req'[d].kind = "policy" => req'[d].n # 0
      BY <2>1 DEF Reach, TypeInv, Asked, AgreeInv, PolicyInv, Requests
    <3>3. r.kind = "policy" => r.n # 0  BY DEF AgreeInv, PolicyInv
    <3> HIDE DEF r
    <3> QED  BY <1>1, <2>1, <2>2, <2>3, <3>1, <3>2, <3>3 DEF AgreeInv, PolicyInv
  <2>7. BaseInv'
    <3>1. NewBase(r) = IF r.kind = "start" /\ StartProfile(r).by = "start" THEN StartProfile(r) ELSE base
      BY DEF NewBase
    <3> HIDE DEF r
    <3> QED  BY <1>1, <2>2, <2>3, <2>4, <3>1 DEF AgreeInv, BaseInv, BaseKept
  <2> QED  BY <2>5, <2>6, <2>7 DEF AgreeInv
<1>3. CASE ~Accepts(req[c]) /\ Answer(c) /\ UNCHANGED <<files, key, policy, job>>
  BY <1>1, <1>3, AgreeSame, NoReqIs DEF Answer, AgreeInv, PolicyInv, TypeInv, Asked
<1> QED  BY <1>2, <1>3 DEF Begin

\* What is taken back is nobody else's.
LEMMA AgreeUndo ==
    ASSUME TypeInv, AgreeInv, IInv, Undo, job.pc \in {"check", "save"},
           UNCHANGED <<cfg, base, gw, req, events>>
    PROVE  AgreeInv'
<1>1. /\ cfg = job.was /\ gw = job.ran /\ job'.pc = "done"
      /\ files' = IF job.kind = "apply" /\ job.fresh THEN files \ {job.want.prof} ELSE files
      /\ policy' = IF job.kind = "topology" /\ job.fresh THEN 0 ELSE policy
  BY Finished DEF Undo, Finish, IInv, Unsaved, Shapes
<1>2. Named'  BY <1>1 DEF AgreeInv, Named
<1>3. PolicyInv'  BY <1>1 DEF AgreeInv, PolicyInv
<1>4. BaseInv'  BY <1>1 DEF AgreeInv, BaseInv, BaseKept
<1> QED  BY <1>2, <1>3, <1>4 DEF AgreeInv

\* A step of a job that writes none of the files named.
LEMMA AgreeStep ==
    ASSUME TypeInv, AgreeInv, IInv, Working, UNCHANGED <<files, req>>,
           cfg' \in {cfg, job.want, job.was},
           gw'.cfg.prof \in {gw.cfg.prof, job.ran.cfg.prof, cfg.prof, Managed},
           policy # 0 => policy' # 0, BaseInv'
    PROVE  AgreeInv'
<1>1. /\ IsJob(job)' /\ Kept /\ Onward
      /\ job.pc \in {"check", "save", "commit", "takeover", "reload", "rollback", "restart"}
  BY Moves DEF IInv, Shapes
<1>2. Named'  BY <1>1 DEF AgreeInv, Named, Kept
<1>3. PolicyInv'  BY <1>1 DEF AgreeInv, PolicyInv, Kept
<1> QED  BY <1>2, <1>3 DEF AgreeInv

LEMMA AgreeWorking == ASSUME TypeInv, AgreeInv, IInv, Working PROVE AgreeInv'
<1>1. /\ IsJob(job)' /\ Kept /\ Onward
      /\ job.pc \in {"check", "save", "commit", "takeover", "reload", "rollback", "restart"}
  BY Moves DEF IInv, Shapes
<1>2. /\ UNCHANGED req /\ OnDisk
      /\ events' = events \/ (job.pc = "commit" /\ events' = events \cup {"torn"})
  BY TornOnly DEF TypeInv
<1>3. /\ Running(cfg).cfg = cfg /\ Partial(cfg).cfg = cfg /\ Off.cfg.prof = Managed
  BY <1>2, PartialIs, Constant DEF OnDisk
<1>4. CASE Check
  <2>1. CASE Undo  BY <1>2, <1>4, <2>1, AgreeUndo DEF Check, Doing
  <2>2. CASE job' = [job EXCEPT !.pc = "save"] /\ UNCHANGED <<key, files, policy>>
    <3>1. job'.pc = "save" /\ job.pc = "check" /\ UNCHANGED <<cfg, base>>
      BY <1>4, <2>2, Moved DEF Check, Doing, IInv, Shapes
    <3>2. BaseInv'  BY <1>1, <1>2, <3>1 DEF AgreeInv, BaseInv, BaseKept, Kept
    <3> QED  BY <1>2, <1>4, <2>2, <3>1, <3>2, AgreeStep DEF Check
  <2> QED  BY <1>4, <2>1, <2>2 DEF Check
<1>5. CASE Save
  <2>1. CASE Undo /\ UNCHANGED <<cfg, ident, base>>
    BY <1>2, <1>5, <2>1, AgreeUndo DEF Save, Doing
  <2>2. CASE /\ UNCHANGED <<files, key>>
             /\ cfg' = IF job.kind = "start" THEN cfg ELSE job.want
             /\ base' = job.base
             /\ policy' = IF job.kind = "policy" THEN 3 - policy ELSE policy
             /\ IF job.kind = "start" THEN job' = [job EXCEPT !.pc = "commit"]
                ELSE IF Reloads(job.kind) THEN job' = [job EXCEPT !.pc = "reload"] ELSE Finish(TRUE)
    <3>1. job.pc = "save" /\ cfg = job.was /\ gw' = gw
      BY <1>5 DEF Save, Doing, IInv, Unsaved
    <3>2. job.kind = "start" <=> job'.pc = "commit"
      BY <1>1, <2>2, <3>1, Moved, Finished DEF Onward, Finish, IInv, Shapes
    <3>3. policy # 0 => policy' # 0
      BY <2>2 DEF TypeInv, OnDisk
    <3>4. BaseInv'
      BY <1>1, <1>2, <2>2, <3>1, <3>2 DEF AgreeInv, BaseInv, BaseKept, Kept, Onward
    <3> QED  BY <1>2, <1>5, <2>2, <3>1, <3>3, <3>4, AgreeStep
  <2> QED  BY <1>5, <2>1, <2>2 DEF Save
<1>6. CASE Commit
  <2>1. job.pc = "commit" /\ cfg = job.was /\ UNCHANGED <<files, policy, gw>>
    BY <1>6 DEF Commit, Doing, IInv, Unsaved
  <2>2. \/ cfg' = job.want /\ job'.pc = "takeover" /\ UNCHANGED base
        \/ cfg' = cfg /\ job'.pc = "done" /\ base' = job.prev
        \/ /\ cfg' \in {cfg, job.want} /\ job'.pc = "done" /\ base' \in {base, job.prev}
           /\ "torn" \in events'
    BY <1>6, Moved, Finished DEF Commit, Finish, IInv, Shapes
  <2>3. BaseInv'
    BY <1>1, <1>2, <2>1, <2>2 DEF AgreeInv, BaseInv, BaseKept, Kept
  <2> QED  BY <1>2, <1>6, <2>1, <2>2, <2>3, AgreeStep
<1>7. CASE Takeover
  <2>1. job.pc = "takeover" /\ job'.pc = "done" /\ UNCHANGED <<cfg, files, policy, base>>
    BY <1>1, <1>7 DEF Takeover, Doing, Onward
  <2>2. gw'.cfg.prof \in {cfg.prof, Managed}
    BY <1>3, <1>7 DEF Takeover
  <2>3. BaseInv'
    BY <1>1, <1>2, <2>1 DEF AgreeInv, BaseInv, BaseKept, Kept
  <2> QED  BY <1>2, <1>7, <2>1, <2>2, <2>3, AgreeStep
<1>8. CASE Reload
  <2>1. job.pc = "reload" /\ job'.pc \in {"rollback", "done"} /\ UNCHANGED <<cfg, files, policy, base>>
    BY <1>1, <1>8 DEF Reload, Doing, Onward
  <2>2. [gw EXCEPT !.state = "partial"].cfg = gw.cfg
    BY <1>2 DEF OnDisk, Gateway
  <2>3. gw'.cfg.prof \in {cfg.prof, gw.cfg.prof, Managed}
    BY <1>3, <1>8, <2>2 DEF Reload
  <2>4. BaseInv'
    BY <1>1, <1>2, <2>1 DEF AgreeInv, BaseInv, BaseKept, Kept
  <2> QED  BY <1>2, <1>8, <2>1, <2>3, <2>4, AgreeStep
<1>9. CASE Rollback
  <2>1. /\ job.pc = "rollback" /\ job'.pc = "restart" /\ UNCHANGED <<files, policy, base, gw>>
        /\ cfg' \in {cfg, job.was}
    BY <1>1, <1>9 DEF Rollback, Doing, Onward
  <2>2. BaseInv'
    BY <1>1, <1>2, <2>1 DEF AgreeInv, BaseInv, BaseKept, Kept
  <2> QED  BY <1>2, <1>9, <2>1, <2>2, AgreeStep
<1>10. CASE Restart
  <2>1. job.pc = "restart" /\ job'.pc = "done" /\ UNCHANGED <<cfg, policy, base>>
    BY <1>1, <1>10 DEF Restart, Doing, Onward
  <2>2. BaseInv'
    BY <1>1, <1>2, <2>1 DEF AgreeInv, BaseInv, BaseKept, Kept
  <2>3. PICK started \in BOOLEAN, seen \in BOOLEAN :
          /\ started => job.restored /\ ~Up
          /\ gw' \in IF started THEN {Running(cfg)}
                     ELSE IF job.restored /\ ~Up THEN {Off, Partial(cfg)} ELSE {gw}
          /\ files' = IF \/ job.restored /\ Preserved(started) /\ seen
                         \/ job.restored /\ seen /\ gw'.state = "stopped"
                      THEN IF job.kind = "apply" /\ job.fresh THEN files \ {job.want.prof} ELSE files
                      ELSE files
    BY <1>10, Zenon DEF Restart
  <2>4. gw'.cfg.prof \in {cfg.prof, gw.cfg.prof, Managed}
    BY <1>3, <2>3
  <2>5. CASE files' = files
    BY <1>2, <1>10, <2>1, <2>2, <2>4, <2>5, AgreeStep
  <2>6. CASE /\ files' = files \ {job.want.prof} /\ job.kind = "apply" /\ job.fresh /\ job.restored
             /\ Preserved(started) \/ gw'.state = "stopped"
    <3>1. cfg = job.was /\ (job.failed # "start" /\ gw.state = "running" => gw = job.ran)
      BY <2>1, <2>6 DEF IInv, RolledBack, Untouched
    <3>2. gw'.cfg.prof \in {job.was.prof, job.ran.cfg.prof, Managed}
      <4>1. CASE started  BY <1>3, <2>3, <3>1, <4>1
      <4>2. CASE ~started /\ Preserved(started)
        <5>1. gw.state = "running" /\ gw = job.ran  BY <3>1, <4>2 DEF Preserved
        <5>2. gw' = gw  BY <2>3, <4>2, <5>1 DEF Up
        <5> QED  BY <5>1, <5>2
      <4>3. CASE ~started /\ gw'.state = "stopped"
        <5>1. Partial(cfg).state = "partial"  BY <1>2, PartialIs DEF OnDisk
        <5>2. gw' = Off  BY <2>3, <2>6, <4>3, <5>1 DEF Up
        <5> QED  BY <1>3, <5>2
      <4> QED  BY <2>6, <4>1, <4>2, <4>3
    <3>3. Named'
      BY <2>1, <2>6, <3>1, <3>2 DEF AgreeInv, Named
    <3>4. PolicyInv'
      BY <1>2, <2>1 DEF AgreeInv, PolicyInv
    <3> QED  BY <2>2, <3>3, <3>4 DEF AgreeInv
  <2> QED  BY <2>3, <2>5, <2>6
<1> QED  BY <1>4, <1>5, <1>6, <1>7, <1>8, <1>9, <1>10 DEF Working

LEMMA AgreeOther ==
    ASSUME TypeInv, AgreeInv, IInv,
           Deliver \/ Crash \/ CliStart \/ CliStop \/ \E c \in Clients : Leave(c)
    PROVE  AgreeInv'
<1>1. /\ Running(cfg).cfg = cfg /\ Partial(cfg).cfg = cfg /\ Off.cfg.prof = Managed
  BY PartialIs, Constant DEF TypeInv, OnDisk
<1>2. UNCHANGED <<cfg, files, policy, base>>
  BY DEF Deliver, Crash, CliStart, CliStop, Leave, disk
<1>3. \A c \in Clients : req'[c].kind = "policy" => req'[c].n # 0
  <2>1. \A c \in Clients : req'[c] \in {req[c], NoReq}
    BY DEF Deliver, Crash, CliStart, CliStop, Leave, Answer, TypeInv, Asked
  <2> QED  BY <2>1, NoReqIs DEF AgreeInv, PolicyInv
<1>4. gw'.cfg.prof \in {gw.cfg.prof, cfg.prof, Managed}
  BY <1>1 DEF Deliver, Crash, CliStart, CliStop, Leave
<1>5. CASE Deliver \/ Crash \/ CliStart \/ CliStop
  <2>1. job' = NoJob /\ job'.pc = "none"
    BY <1>5, NoJobIs DEF Deliver, Crash, CliStart, CliStop
  <2>2. BaseKept'
    <3>1. CASE Crash
      BY <1>2, <3>1, <2>1 DEF Crash, AgreeInv, BaseInv, BaseKept
    <3>2. CASE Deliver \/ CliStart \/ CliStop
      BY <1>2, <3>2, <2>1, NoJobIs DEF Deliver, Doing, CliStart, CliStop, AgreeInv, BaseInv, BaseKept
    <3> QED  BY <1>5, <3>1, <3>2
  <2> QED
    BY <1>2, <1>3, <1>4, <2>1, <2>2 DEF AgreeInv, Named, PolicyInv, BaseInv
<1>6. ASSUME NEW c \in Clients, Leave(c) PROVE AgreeInv'
  <2>1. IsJob(job)' /\ Kept /\ job'.pc = job.pc
    BY <1>6, Orphaned DEF Leave, IInv, Shapes
  <2>2. gw' = gw /\ events' = events \cup {"gone"}
    BY <1>6 DEF Leave
  <2>3. Named' /\ PolicyInv'
    BY <1>2, <1>3, <2>1, <2>2 DEF AgreeInv, Named, PolicyInv, Kept
  <2>4. BaseInv'
    BY <1>2, <2>1, <2>2 DEF AgreeInv, BaseInv, BaseKept, Kept
  <2> QED  BY <2>3, <2>4 DEF AgreeInv
<1> QED  BY <1>5, <1>6

-----------------------------------------------------------------------------
LEMMA TypeInit == Init => TypeInv
<1> SUFFICES ASSUME Init PROVE TypeInv  OBVIOUS
<1>1. PICK s \in Sources, d \in Digests, on \in BOOLEAN, k \in 0..1, p \in BOOLEAN :
        /\ rows = [t \in Sources |-> IF t = s THEN [cur |-> d, old |-> {}] ELSE NoRow]
        /\ snaps = {<<s, d>>} /\ creds = {s}
        /\ key = k /\ ident = (k = 1 /\ on) /\ policy \in IF p THEN {1} ELSE 0..1
        /\ \E prof \in {Managed, [by |-> "apply", of |-> [Managed.of EXCEPT !.src = d]],
                        [by |-> "start", of |-> [Managed.of EXCEPT !.ovl = 1]]} :
              /\ cfg = [prof |-> prof, ts |-> k = 1, net |-> 0, pol |-> p]
              /\ files = {prof} \ {Managed}
              /\ base = IF prof.by = "start" THEN prof ELSE Managed
              /\ draft = [ovl |-> prof.of.ovl, dns |-> 0]
        /\ gw = IF on THEN Running(cfg) ELSE Off
  BY Zenon DEF Init
<1>2. PICK prof \in {Managed, [by |-> "apply", of |-> [Managed.of EXCEPT !.src = d]],
                     [by |-> "start", of |-> [Managed.of EXCEPT !.ovl = 1]]} :
        /\ cfg = [prof |-> prof, ts |-> k = 1, net |-> 0, pol |-> p]
        /\ files = {prof} \ {Managed}
        /\ base = IF prof.by = "start" THEN prof ELSE Managed
        /\ draft = [ovl |-> prof.of.ovl, dns |-> 0]
  BY <1>1
<1>3. prof \in File /\ prof.of \in Composed
  <2>1. [Managed.of EXCEPT !.src = d] \in Composed /\ [Managed.of EXCEPT !.ovl = 1] \in Composed
    BY Constant DEF Composed
  <2> QED  BY <1>2, <2>1, Constant DEF File
<1>4. cfg \in Config /\ files \subseteq File /\ base \in File
  <2>1. (k = 1) \in BOOLEAN  OBVIOUS
  <2>2. cfg \in Config  BY <1>2, <1>3, <2>1 DEF Config
  <2> QED  BY <1>2, <1>3, <2>2, Constant
<1>5. key \in 0..2 /\ policy \in 0..2 /\ ident \in BOOLEAN
  BY <1>1
<1>6. gw \in Gateway
  BY <1>1, <1>4, <1>5, PartialIs, Constant
<1>7. Stored
  <2>1. draft \in [ovl : 0..1, dns : 0..1]
    BY <1>2, <1>3 DEF Composed
  <2>2. [cur |-> d, old |-> {}] \in Row /\ Whole([cur |-> d, old |-> {}])
    BY ConfigurationAssumption DEF Row, Whole
  <2>3. rows \in [Sources -> Row] /\ \A t \in Sources : Whole(rows[t])
    BY <1>1, <2>2, Constant
  <2>4. snaps \subseteq Sources \X Digests /\ creds \subseteq Sources
    BY <1>1
  <2> QED  BY <2>1, <2>3, <2>4 DEF Stored
<1>8. job = NoJob /\ req = [c \in Clients |-> NoReq] /\ events = {} /\ asked = 0 /\ left = MaxFaults
  BY DEF Init
<1>9. InJob
  <2>1. job.fresh = FALSE /\ job.fresh \in BOOLEAN  BY <1>8, NoJobIs, Zenon
  <2> QED  BY <1>8, <2>1, NoJobIs, Constant DEF InJob, Stages
<1>10. Asked /\ Waited
  BY <1>8, NoReqIs, NoJobIs, ConfigurationAssumption DEF Asked, Waited
<1>11. Counted  BY <1>8, ConfigurationAssumption DEF Counted
<1> QED  BY <1>4, <1>5, <1>6, <1>7, <1>9, <1>10, <1>11 DEF TypeInv, OnDisk

LEMMA BothNext ==
    ASSUME TypeInv, AgreeInv, IInv, [Next]_vars
    PROVE  TypeInv' /\ AgreeInv'
<1>1. CASE UNCHANGED vars
  <2>1. TypeInv'
    BY <1>1 DEF vars, disk, library, bounds, TypeInv, Asked, Stored, OnDisk, InJob, Waited, Counted
  <2>2. AgreeInv'
    BY <1>1, AgreeSame DEF vars, disk, library, bounds, AgreeInv, PolicyInv
  <2> QED  BY <2>1, <2>2
<1>2. ASSUME NEW c \in Clients, Request(c) PROVE TypeInv' /\ AgreeInv'
  <2>1. PICK r \in Requests : Sensible(r) /\ r.phase # "wait" /\ Ask(c, r)
    BY <1>2, Asks DEF Sends
  <2> QED  BY <1>2, <2>1, AskStep, AgreeRequest
<1>3. ASSUME NEW c \in Clients, InLibrary(c) PROVE TypeInv' /\ AgreeInv'
  BY <1>3, ImportRowType, ImportCredentialType, DeleteType, WriteOverlayType, AgreeLibrary DEF InLibrary
<1>4. CASE SaveDNS
  <2>1. req' = req  BY <1>4 DEF SaveDNS
  <2> QED
    BY <1>4, <2>1, SaveDNSType, AgreeSame DEF SaveDNS, disk, AgreeInv, PolicyInv
<1>5. ASSUME NEW c \in Clients, Begin(c) PROVE TypeInv' /\ AgreeInv'
  BY <1>5, BeginType, AgreeBegin
<1>6. CASE Working
  BY <1>6, WorkingType, AgreeWorking DEF AgreeInv
<1>7. CASE Deliver \/ Crash \/ CliStart \/ CliStop \/ \E c \in Clients : Leave(c)
  BY <1>7, OtherType, AgreeOther DEF IInv, Shapes
<1> QED
  BY <1>1, <1>2, <1>3, <1>4, <1>5, <1>6, <1>7 DEF Next, Helper, Working

LEMMA AgreeInductive == Spec => [](TypeInv /\ AgreeInv /\ IInv)
<1>1. Init => TypeInv /\ AgreeInv /\ IInv
  BY TypeInit, AgreeInit, InitIInv
<1>2. TypeInv /\ AgreeInv /\ IInv /\ [Next]_vars => TypeInv' /\ AgreeInv' /\ IInv'
  BY BothNext, NextIInv
<1> QED  BY <1>1, <1>2, PTL DEF Spec

(***************************************************************************)
(* Every variable keeps its type: among others that a client waits for the *)
(* helper exactly as long as the job in progress is its own.               *)
(***************************************************************************)
THEOREM TypeCorrect == Spec => []TypeOK
<1>1. TypeInv => TypeOK
  <2> SUFFICES ASSUME TypeInv PROVE TypeOK  OBVIOUS
  <2>1. ASSUME NEW c \in Clients
        PROVE  /\ req[c].kind \in AllKinds \cup {"none"} /\ req[c].match \in Config
               /\ req[c].of \in [src : Digests \cup {"managed", "none"}, ovl : 0..1, dns : 0..1]
               /\ (req[c].phase = "wait") = (job.by = c)
    BY <2>1 DEF TypeInv, Asked, Requests, Content, Waited
  <2> QED  BY <2>1 DEF TypeInv, TypeOK, Stored, OnDisk, InJob, Counted
<1> QED  BY <1>1, AgreeInductive, PTL

(***************************************************************************)
(* What config.yaml, the running gateway and base.json name is there and   *)
(* is what was composed, after any sequence of failed changes, clean-ups,  *)
(* roll-backs and deaths of the helper: a job removes only a file it has   *)
(* added itself, and never one the configuration it leaves behind or the   *)
(* gateway it leaves running still names.                                  *)
(***************************************************************************)
THEOREM FilesAgreeAlways == Spec => []FilesAgree
<1>1. AgreeInv => FilesAgree
  <2> SUFFICES ASSUME AgreeInv PROVE FilesAgree  OBVIOUS
  <2>1. FilesKept
    BY DEF AgreeInv, Named, PolicyInv, FilesKept
  <2> QED  BY <2>1 DEF AgreeInv, BaseInv, FilesAgree
<1> QED  BY <1>1, AgreeInductive, PTL

-----------------------------------------------------------------------------
(***************************************************************************)
(* The library.  One request at a time changes it; it knows the content of *)
(* every snapshot; what a deletion has cleared stays cleared; and as long  *)
(* as everybody waits for the helper, a job works for a request of its     *)
(* kind, and only an applied profile has another source than the one       *)
(* before.                                                                 *)
(***************************************************************************)
OneByOne == \A c, d \in Clients : UsesLibrary(req[c].kind) /\ UsesLibrary(req[d].kind) => c = d
Contents(row) == row.old \cup {row.cur}
Listed == \A s \in Sources, d \in Digests : <<s, d>> \in snaps => d \in Contents(rows[s])
Revocable ==
    \A c \in Clients, d \in Digests :
        At(c, "import", "credential") /\ <<req[c].on, d>> \in snaps =>
            d \in Contents(req[c].was) \cup {req[c].of.src}
Cleared ==
    \A c \in Clients, d \in Digests :
        At(c, "delete", "credential") \/ At(c, "delete", "entry") => <<req[c].on, d>> \notin snaps
Selected == cfg.prof.of.src
Unselected ==
    "gone" \notin events =>
        \A c \in Clients : At(c, "delete", "snapshots") => Selected \notin Contents(rows[req[c].on])
OneSource ==
    /\ job.pc # "none" /\ job.kind # "apply" => job.want.prof.of.src = job.was.prof.of.src
    /\ job.pc # "none" /\ "gone" \notin events => \E c \in Clients : c = job.by /\ req[c].kind = job.kind

LibraryInv == OneByOne /\ Listed /\ Revocable /\ Cleared /\ Unselected /\ OneSource

LEMMA LibraryInit == Init => LibraryInv
<1> SUFFICES ASSUME Init PROVE LibraryInv  OBVIOUS
<1>1. job = NoJob /\ req = [c \in Clients |-> NoReq]  BY DEF Init
<1>2. Listed
  <2>1. PICK s \in Sources, d \in Digests :
          /\ rows = [t \in Sources |-> IF t = s THEN [cur |-> d, old |-> {}] ELSE NoRow]
          /\ snaps = {<<s, d>>}
    BY DEF Init
  <2> QED  BY <2>1 DEF Listed, Contents
<1> QED
  BY <1>1, <1>2, NoReqIs, NoJobIs DEF LibraryInv, OneByOne, Revocable, Cleared, Unselected, OneSource, At,
     UsesLibrary

\* A new request begins no import's second half and no deletion's.
LEMMA LibraryRequest == ASSUME TypeInv, LibraryInv, NEW c \in Clients, Request(c) PROVE LibraryInv'
<1>1. PICK r \in Requests : /\ r.phase \in {"sent", "row", "snapshots", "write"} /\ Ask(c, r)
                            /\ r.kind = "delete" => Unused(r.on)
  BY Asks DEF Sends
<1>2. /\ req' = [req EXCEPT ![c] = r] /\ req[c] = NoReq /\ UNCHANGED <<cfg, rows, snaps, job, events>>
      /\ req \in [Clients -> Requests]
      /\ UsesLibrary(r.kind) => \A d \in Clients : ~UsesLibrary(req[d].kind)
  BY <1>1 DEF Ask, SourcesFree, disk, library, TypeInv, Asked
<1>3. OneByOne'  BY <1>2 DEF LibraryInv, OneByOne
<1>4. Listed'  BY <1>2 DEF LibraryInv, Listed
<1>5. Revocable' /\ Cleared'
  BY <1>1, <1>2 DEF LibraryInv, Revocable, Cleared, At
<1>6. Unselected'
  <2>1. r.kind = "delete" => Selected \notin Contents(rows[r.on])
    BY <1>1 DEF Unused, Selected, Contents
  <2> QED  BY <1>2, <2>1 DEF LibraryInv, Unselected, At, Selected
<1>7. OneSource'
  BY <1>2, NoJobIs, NoReqIs DEF LibraryInv, OneSource, TypeInv, InJob
<1> QED  BY <1>3, <1>4, <1>5, <1>6, <1>7 DEF LibraryInv

\* A step of the only request that uses the library.
LEMMA LibraryStep ==
    ASSUME TypeInv, LibraryInv, NEW c \in Clients, req[c].kind \in {"import", "delete"},
           NEW r, req' = [req EXCEPT ![c] = r], r.kind \in {req[c].kind, "none"},
           UNCHANGED <<cfg, job, events>>, req[c].phase # "wait",
           r.kind = "import" => r.phase # "credential" \/ Revocable',
           r.kind = "delete" => /\ r.phase # "snapshots"
                                /\ \A d \in Digests : <<r.on, d>> \notin snaps',
           Listed'
    PROVE  LibraryInv'
<1>1. \A d \in Clients \ {c} : req'[d] = req[d] /\ req[d].kind \notin {"import", "delete"}
  BY DEF LibraryInv, OneByOne, UsesLibrary, TypeInv, Asked
<1>2. req'[c] = r  BY DEF TypeInv, Asked
<1>3. OneByOne'  BY <1>1, <1>2 DEF LibraryInv, OneByOne, UsesLibrary
<1>4. Revocable'  BY <1>1, <1>2 DEF Revocable, At
<1>5. Cleared'  BY <1>1, <1>2 DEF Cleared, At
<1>6. Unselected'  BY <1>1, <1>2 DEF Unselected, At
<1>7. OneSource'
  <2>1. job.by # c  BY DEF TypeInv, Waited
  <2> QED  BY <1>1, <2>1 DEF LibraryInv, OneSource
<1> QED  BY <1>3, <1>4, <1>5, <1>6, <1>7 DEF LibraryInv

LEMMA LibraryImportRow == ASSUME TypeInv, LibraryInv, NEW c \in Clients, ImportRow(c) PROVE LibraryInv'
<1> DEFINE s == req[c].on
           d == req[c].of.src
           row == rows[s]
           new == [cur |-> d, old |-> IF row = NoRow \/ row.cur = d THEN row.old ELSE row.old \cup {row.cur}]
<1>1. /\ req[c].kind = "import" /\ req[c].phase = "row" /\ s \in Sources /\ d \in Digests
      /\ req \in [Clients -> Requests] /\ rows \in [Sources -> Row] /\ row \in Row
  BY DEF ImportRow, At, TypeInv, Asked, Sensible, Stored
<1>2. /\ rows' = [rows EXCEPT ![s] = new] /\ snaps' = snaps \cup {<<s, d>>}
      /\ UNCHANGED <<cfg, job, events>>
      /\ Answer(c) \/ req' = [req EXCEPT ![c].phase = "credential", ![c].was = row]
  BY DEF ImportRow, disk
<1>3. \A e \in Digests : e \in Contents(row) => e \in Contents(new)
  BY <1>1, ConfigurationAssumption DEF Contents, NoRow
<1>4. d \in Contents(new)  BY DEF Contents
<1>5. \A e \in Digests : <<s, e>> \in snaps => e \in Contents(row)
  BY <1>1 DEF LibraryInv, Listed
<1> HIDE DEF new
<1>6. Listed'
  BY <1>1, <1>2, <1>3, <1>4 DEF LibraryInv, Listed
<1>7. CASE Answer(c)
  BY <1>1, <1>2, <1>6, <1>7, NoReqIs, LibraryStep DEF Answer
<1>8. CASE req' = [req EXCEPT ![c].phase = "credential", ![c].was = row]
  <2> DEFINE q == [req[c] EXCEPT !.phase = "credential"]
             r == [q EXCEPT !.was = row]
  <2>1. req' = [req EXCEPT ![c] = r]  BY <1>1, <1>8
  <2>2. IsReq(req[c])  BY <1>1, ReqTyped
  <2>3. IsReq(q) /\ q.kind = "import" /\ q.on = s /\ q.of = req[c].of
    <3>1. q = [req[c] EXCEPT !.phase = "credential"]  OBVIOUS
    <3> HIDE DEF q
    <3> QED  BY <1>1, <2>2, <3>1, Req_phase
  <2> HIDE DEF q
  <2>4. r.kind = "import" /\ r.on = s /\ r.of = req[c].of /\ r.was = row
    <3>1. r = [q EXCEPT !.was = row]  OBVIOUS
    <3> HIDE DEF r
    <3> QED  BY <2>3, <3>1, Req_was
  <2> HIDE DEF r
  <2>5. \A e \in Clients \ {c} : req'[e] = req[e] /\ req[e].kind # "import"
    BY <1>1, <2>1 DEF LibraryInv, OneByOne, UsesLibrary
  <2>6. req'[c] = r  BY <1>1, <2>1
  <2>7. Revocable'
    BY <1>1, <1>2, <1>5, <2>4, <2>5, <2>6 DEF Revocable, At
  <2> QED  BY <1>1, <1>2, <1>6, <2>1, <2>4, <2>7, LibraryStep
<1> QED  BY <1>2, <1>7, <1>8

LEMMA LibraryImportCredential ==
    ASSUME TypeInv, LibraryInv, NEW c \in Clients, ImportCredential(c) PROVE LibraryInv'
<1>1. /\ req[c].kind = "import" /\ req[c].phase = "credential" /\ req[c].on \in Sources
      /\ rows \in [Sources -> Row]
  BY DEF ImportCredential, At, TypeInv, Asked, Sensible, Stored
<1>2. /\ UNCHANGED <<cfg, job, events>> /\ Answer(c)
      /\ \/ UNCHANGED <<rows, snaps>>
         \/ rows' = [rows EXCEPT ![req[c].on] = req[c].was] /\ snaps' = snaps \ {<<req[c].on, req[c].of.src>>}
  BY DEF ImportCredential, disk
<1>3. \A d \in Digests : <<req[c].on, d>> \in snaps => d \in Contents(req[c].was) \cup {req[c].of.src}
  BY <1>1 DEF LibraryInv, Revocable, At
<1>4. Listed'
  BY <1>1, <1>2, <1>3 DEF LibraryInv, Listed
<1> QED  BY <1>1, <1>2, <1>4, NoReqIs, LibraryStep DEF Answer

LEMMA LibraryDelete ==
    ASSUME TypeInv, LibraryInv, NEW c \in Clients, DeleteSnapshots(c) \/ DeleteCredential(c) \/ DeleteRow(c)
    PROVE  LibraryInv'
<1>1. /\ req[c].kind = "delete" /\ req[c].phase \in {"snapshots", "credential", "entry"}
      /\ req[c].on \in Sources /\ rows \in [Sources -> Row] /\ snaps \subseteq Sources \X Digests
  BY DEF DeleteSnapshots, DeleteCredential, DeleteRow, At, TypeInv, Asked, Sensible, Stored
<1>2. UNCHANGED <<cfg, job, events>>
  BY DEF DeleteSnapshots, DeleteCredential, DeleteRow, disk
<1>3. snaps' \subseteq snaps
  BY DEF DeleteSnapshots, DeleteCredential, DeleteRow
<1>4. CASE UNCHANGED rows /\ Answer(c)
  <2>1. Listed'  BY <1>3, <1>4 DEF LibraryInv, Listed
  <2> QED  BY <1>1, <1>2, <1>4, <2>1, NoReqIs, LibraryStep DEF Answer
<1>5. CASE DeleteRow(c)
  <2>1. \A d \in Digests : <<req[c].on, d>> \notin snaps
    BY <1>5 DEF DeleteRow, LibraryInv, Cleared
  <2>2. Listed'
    BY <1>1, <1>5, <2>1 DEF DeleteRow, LibraryInv, Listed
  <2> QED  BY <1>1, <1>2, <1>5, <2>2, NoReqIs, LibraryStep DEF Answer, DeleteRow
<1>6. CASE \/ DeleteSnapshots(c) /\ Reach(c, "credential") /\ snaps' = {x \in snaps : x[1] # req[c].on}
           \/ DeleteCredential(c) /\ Reach(c, "entry")
  <2>1. UNCHANGED rows  BY <1>6 DEF DeleteSnapshots, DeleteCredential
  <2>2. Listed'  BY <1>3, <2>1 DEF LibraryInv, Listed
  <2>3. \A d \in Digests : <<req[c].on, d>> \notin snaps'
    BY <1>3, <1>6 DEF DeleteCredential, LibraryInv, Cleared
  <2>4. PICK phase \in Phases \ {"sent", "wait"} : Reach(c, phase) /\ phase # "snapshots"
    BY <1>6 DEF Phases
  <2>5. /\ req' = [req EXCEPT ![c] = req'[c]] /\ req'[c].phase = phase /\ req'[c].kind = "delete"
        /\ req'[c].on = req[c].on
    BY <1>1, <2>4, ReachIs
  <2> QED  BY <1>1, <1>2, <2>2, <2>3, <2>4, <2>5, LibraryStep
<1> QED  BY <1>4, <1>5, <1>6 DEF DeleteSnapshots, DeleteCredential

\* A step outside the library ends requests or lets them wait, and selects
\* another source only when nothing is being deleted.
LEMMA LibraryElsewhere ==
    ASSUME TypeInv, LibraryInv, UNCHANGED <<rows, snaps>>, events \subseteq events',
           \A c \in Clients : \/ req'[c] \in {req[c], NoReq}
                              \/ req'[c].kind = req[c].kind /\ req'[c].phase = "wait",
           "gone" \notin events /\ Deleting => Selected' = Selected,
           OneSource'
    PROVE  LibraryInv'
<1>1. OneByOne'  BY NoReqIs DEF LibraryInv, OneByOne, UsesLibrary
<1>2. Listed'  BY DEF LibraryInv, Listed
<1>3. Revocable' /\ Cleared'
  BY NoReqIs DEF LibraryInv, Revocable, Cleared, At
<1>4. Unselected'
  BY NoReqIs DEF LibraryInv, Unselected, At, Deleting
<1> QED  BY <1>1, <1>2, <1>3, <1>4 DEF LibraryInv

LEMMA LibraryBegin == ASSUME TypeInv, LibraryInv, NEW c \in Clients, Begin(c) PROVE LibraryInv'
<1>1. /\ req[c] \in Requests /\ Sensible(req[c]) /\ req[c].kind \in JobKinds /\ req \in [Clients -> Requests]
      /\ OnDisk /\ UNCHANGED <<cfg, rows, snaps, events>>
  BY DEF Begin, TypeInv, Asked, Sensible, library
<1>2. CASE Accepts(req[c])
  <2>1. Reach(c, "wait")  BY <1>2 DEF Begin
  <2>2. \A d \in Clients \ {c} : req'[d] = req[d]
    BY <1>1, <2>1 DEF Reach
  <2>3. req'[c].kind = req[c].kind /\ req'[c].phase = "wait"
    BY <1>1, <2>1 DEF Reach, Requests
  <2>4. /\ job'.kind = req[c].kind /\ job'.by = c
        /\ job'.want = Wanted(req[c]) /\ job'.was = cfg
    BY <1>2, BeginIs
  <2>5. req[c].kind # "apply" => Wanted(req[c]).prof.of.src = cfg.prof.of.src
    <3>1. req[c].kind # "apply" =>
            Wanted(req[c]).prof = IF req[c].kind = "start" THEN StartProfile(req[c]) ELSE cfg.prof
      BY <1>1, WantedIs
    <3>2. req[c].of \in Content  BY <1>1 DEF Requests
    <3>3. StartProfile(req[c]).of.src = cfg.prof.of.src
      BY <3>2, Constant DEF StartProfile, FromDrafts, Content
    <3> QED  BY <3>1, <3>3
  <2>6. OneSource'
    BY <2>3, <2>4, <2>5 DEF OneSource
  <2> QED  BY <1>1, <2>2, <2>3, <2>6, LibraryElsewhere DEF Selected
<1>3. CASE Answer(c) /\ UNCHANGED job
  <2>1. \A d \in Clients : req'[d] \in {req[d], NoReq}
    BY <1>1, <1>3 DEF Answer
  <2>2. OneSource'
    <3>1. req[c].phase # "wait"  BY DEF Begin
    <3>2. job.by # c  BY <3>1 DEF TypeInv, Waited
    <3> QED  BY <1>1, <1>3, <3>2 DEF LibraryInv, OneSource, Answer
  <2> QED  BY <1>1, <2>1, <2>2, LibraryElsewhere DEF Selected
<1> QED  BY <1>2, <1>3 DEF Begin

\* While something is deleted, no job applies a profile.
LEMMA SelectedStays ==
    ASSUME TypeInv, LibraryInv, IInv, Working, "gone" \notin events, Deleting
    PROVE  Selected' = Selected
<1>1. job.pc \in {"check", "save", "commit", "takeover", "reload", "rollback", "restart"}
  BY Moves DEF IInv, Shapes
<1>2. job.kind # "apply"
  BY <1>1 DEF Deleting, At, LibraryInv, OneByOne, OneSource, UsesLibrary
<1>3. job.want.prof.of.src = job.was.prof.of.src
  BY <1>1, <1>2 DEF LibraryInv, OneSource
<1>4. \/ job.pc \in {"check", "save", "commit"} /\ cfg = job.was /\ cfg' \in {cfg, job.want}
      \/ job.pc \in {"takeover", "reload", "rollback"} /\ cfg = job.want /\ cfg' \in {cfg, job.was}
      \/ cfg' = cfg
  BY DEF Working, Check, Save, Commit, Takeover, Reload, Rollback, Restart, Doing, IInv, Unsaved, Saved
<1> QED  BY <1>3, <1>4 DEF Selected

LEMMA LibraryOther ==
    ASSUME TypeInv, LibraryInv, IInv,
           \/ Working \/ Deliver \/ Crash \/ CliStart \/ CliStop \/ SaveDNS \/ UNCHANGED vars
           \/ \E c \in Clients : Leave(c) \/ WriteOverlay(c)
    PROVE  LibraryInv'
<1>1. UNCHANGED <<rows, snaps>>
  BY DEF Working, Check, Save, Commit, Takeover, Reload, Rollback, Restart, Rest, Deliver, Crash,
     CliStart, CliStop, SaveDNS, Leave, WriteOverlay, vars, library
<1>2. CASE Working
  <2>1. UNCHANGED req /\ events \subseteq events'
    BY <1>2, TornOnly
  <2>2. IsJob(job)' /\ Kept /\ job'.by = job.by /\ job.pc # "none"
    BY <1>2, Moves DEF IInv, Shapes
  <2>3. OneSource'
    BY <2>1, <2>2 DEF LibraryInv, OneSource, Kept
  <2> QED  BY <1>1, <1>2, <2>1, <2>3, SelectedStays, LibraryElsewhere
<1>3. CASE Deliver \/ Crash \/ CliStart \/ CliStop
  <2>1. job' = NoJob /\ UNCHANGED cfg /\ events \subseteq events'
    BY <1>3 DEF Deliver, Crash, CliStart, CliStop, disk
  <2>2. \A c \in Clients : req'[c] \in {req[c], NoReq}
    BY <1>3 DEF Deliver, Crash, CliStart, CliStop
  <2>3. OneSource'
    BY <2>1, NoJobIs DEF OneSource
  <2> QED  BY <1>1, <2>1, <2>2, <2>3, LibraryElsewhere DEF Selected
<1>4. CASE SaveDNS \/ UNCHANGED vars
  <2>1. UNCHANGED <<cfg, req, job, events>>
    BY <1>4 DEF SaveDNS, vars, disk
  <2>2. OneSource'
    BY <2>1 DEF LibraryInv, OneSource
  <2> QED  BY <1>1, <2>1, <2>2, LibraryElsewhere DEF Selected
<1>5. ASSUME NEW c \in Clients, Leave(c) PROVE LibraryInv'
  <2>1. UNCHANGED cfg /\ events' = events \cup {"gone"} /\ Answer(c)
    BY <1>5 DEF Leave, disk
  <2>2. \A d \in Clients : req'[d] \in {req[d], NoReq}
    BY <2>1 DEF Answer, TypeInv, Asked
  <2>3. IsJob(job)' /\ Kept /\ job'.pc = job.pc
    BY <1>5, Orphaned DEF Leave, IInv, Shapes
  <2>4. OneSource'
    BY <2>1, <2>3 DEF LibraryInv, OneSource, Kept
  <2> QED  BY <1>1, <2>1, <2>2, <2>4, LibraryElsewhere DEF Selected
<1>6. ASSUME NEW c \in Clients, WriteOverlay(c) PROVE LibraryInv'
  <2>1. UNCHANGED <<cfg, job, events>> /\ Answer(c) /\ req[c].phase # "wait"
    BY <1>6 DEF WriteOverlay, disk, At
  <2>2. \A d \in Clients : req'[d] = IF d = c THEN NoReq ELSE req[d]
    BY <2>1 DEF Answer, TypeInv, Asked
  <2>3. job.by # c  BY <2>1 DEF TypeInv, Waited
  <2>4. OneSource'
    BY <2>1, <2>2, <2>3 DEF LibraryInv, OneSource
  <2> QED  BY <1>1, <2>1, <2>2, <2>4, LibraryElsewhere DEF Selected
<1> QED  BY <1>2, <1>3, <1>4, <1>5, <1>6

LEMMA LibraryNext ==
    ASSUME TypeInv, LibraryInv, IInv, [Next]_vars
    PROVE  LibraryInv'
<1>1. ASSUME NEW c \in Clients, InLibrary(c) PROVE LibraryInv'
  BY <1>1, LibraryImportRow, LibraryImportCredential, LibraryDelete, LibraryOther DEF InLibrary
<1> QED
  BY <1>1, LibraryRequest, LibraryBegin, LibraryOther DEF Next, Helper, Working

\* What vanishes while a source is deleted is a snapshot of that source.
Keeps == Deleting /\ "gone" \notin events => \A x \in snaps \ snaps' : x[2] # cfg.prof.of.src

LEMMA StepKeeps == ASSUME TypeInv, LibraryInv, [Next]_vars PROVE Keeps
<1> SUFFICES ASSUME NEW e \in Clients, At(e, "delete", "snapshots"), "gone" \notin events,
                    NEW x \in snaps, x \notin snaps'
             PROVE  x[2] # cfg.prof.of.src
  BY DEF Keeps, Deleting
<1>1. PICK c \in Clients : DeleteSnapshots(c) \/ ImportCredential(c)
  <2>1. CASE UNCHANGED vars  BY <2>1 DEF vars, library
  <2>2. ASSUME NEW c \in Clients, Request(c) PROVE FALSE
    <3>1. PICK r \in Requests : Ask(c, r)  BY <2>2, Asks DEF Sends
    <3> QED  BY <3>1 DEF Ask, library
  <2>3. CASE \E c \in Clients : Begin(c) \/ Leave(c)
    BY <2>3 DEF Begin, Leave, library
  <2>4. CASE Helper
    BY <2>4 DEF Helper, Check, Save, Commit, Takeover, Reload, Rollback, Restart, Rest, Deliver, library
  <2>5. CASE SaveDNS \/ Crash \/ CliStart \/ CliStop
    BY <2>5 DEF SaveDNS, Crash, CliStart, CliStop, library
  <2>6. ASSUME NEW c \in Clients, InLibrary(c)
        PROVE  DeleteSnapshots(c) \/ ImportCredential(c)
    BY <2>6 DEF InLibrary, ImportRow, DeleteCredential, DeleteRow, WriteOverlay
  <2> QED  BY <2>1, <2>2, <2>3, <2>4, <2>5, <2>6 DEF Next
<1>2. e = c /\ DeleteSnapshots(c)
  BY <1>1 DEF DeleteSnapshots, ImportCredential, At, LibraryInv, OneByOne, UsesLibrary
<1>3. x[1] = req[c].on /\ x \in Sources \X Digests
  BY <1>2 DEF DeleteSnapshots, TypeInv, Stored
<1>4. x = <<x[1], x[2]>> /\ x[1] \in Sources /\ x[2] \in Digests  BY <1>3
<1>5. x[2] \in Contents(rows[x[1]])  BY <1>4 DEF LibraryInv, Listed
<1> QED  BY <1>2, <1>3, <1>5 DEF LibraryInv, Unselected, Selected

(***************************************************************************)
(* As long as no request ends before the helper is done with it, a source  *)
(* that the configuration selects, in any of its versions, is never        *)
(* deleted: whatever else is asked for, imported, applied, started or      *)
(* rolled back while the deletion is under way.                            *)
(***************************************************************************)
THEOREM SelectedKeptAlways == Spec => SelectedKeptByWaiting
<1>1. Init => LibraryInv  BY LibraryInit
<1>2. TypeInv /\ IInv /\ LibraryInv /\ [Next]_vars => LibraryInv'  BY LibraryNext
<1>3. TypeInv /\ LibraryInv /\ [Next]_vars => [Keeps]_vars  BY StepKeeps
<1> QED  BY <1>1, <1>2, <1>3, AgreeInductive, PTL DEF Spec, SelectedKeptByWaiting, Keeps

=============================================================================
