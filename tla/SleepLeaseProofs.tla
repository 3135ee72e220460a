-------------------------- MODULE SleepLeaseProofs --------------------------
(***************************************************************************)
(* For every number of connections and of failures: the marker is on disk  *)
(* whenever our write of the flag is outstanding, as long as a pmset call  *)
(* that reports a failure has not taken effect; what the service shows as  *)
(* active is held by the helper; and another tool's flag is left alone.    *)
(***************************************************************************)
EXTENDS SleepLease, FiniteSetTheorems, TLAPS

\* Between the commands of one operation the flag and the marker are in step.
Stepwise ==
    /\ ours => marker
    /\ step = "set" => marker
    /\ step \in {"unmark", "inspect", "mark", "set"} => ~ours

\* While "late" failures are excluded, Stepwise is inductive.
LEMMA StepwiseInvariant == ASSUME "late" \notin Faults
                           PROVE  Spec => []Stepwise
<1> USE DEF Stepwise, Begin, Unlock, Failed, Released, Fault, Fine, mutex,
            system, hlp, service
<1>1. Init => Stepwise
  BY DEF Init
<1>2. ASSUME Stepwise, [Next]_vars PROVE Stepwise'
  <2>1. CASE UNCHANGED vars
    BY <1>2, <2>1 DEF vars
  <2>2. ASSUME NEW c \in Conns, BeginAcquire(c) PROVE Stepwise'
    BY <1>2, <2>2 DEF BeginAcquire, Idle
  <2>3. ASSUME NEW c \in Conns, BeginRelease(c) PROVE Stepwise'
    BY <1>2, <2>3 DEF BeginRelease, Idle
  <2>4. CASE BeginRetry
    BY <1>2, <2>4 DEF BeginRetry, Idle
  <2>5. CASE Clear
    BY <1>2, <2>5 DEF Clear
  <2>6. CASE Unmark
    BY <1>2, <2>6 DEF Unmark
  <2>7. CASE Inspect
    BY <1>2, <2>7 DEF Inspect
  <2>8. CASE Mark
    BY <1>2, <2>8 DEF Mark
  <2>9. CASE Set
    <3>1. step' = "free"
      BY <2>9 DEF Set
    <3>2. CASE ours' = ours
      BY <1>2, <2>9, <3>1, <3>2 DEF Set
    <3>3. CASE ours' = TRUE /\ UNCHANGED marker
      BY <1>2, <2>9, <3>1, <3>3 DEF Set
    <3> QED
      BY <2>9, <3>2, <3>3 DEF Set
  <2>10. CASE HelperCrash \/ HelperStart
    BY <1>2, <2>10 DEF HelperCrash, HelperStart
  <2>11. CASE ServiceStep \/ Enable \/ Disable \/ Quit \/ Exit
    BY <1>2, <2>11 DEF ServiceStep, Granted, NotGranted, CloseLease, Observe,
       Enable, Disable, Quit, Exit, CallDone
  <2>12. ASSUME NEW c \in Conns, Forget(c) PROVE Stepwise'
    BY <1>2, <2>12 DEF Forget
  <2>13. CASE OtherTool
    BY <1>2, <2>13 DEF OtherTool
  <2> QED
    BY <1>2, <2>1, <2>2, <2>3, <2>4, <2>5, <2>6, <2>7, <2>8, <2>9, <2>10,
       <2>11, <2>12, <2>13 DEF Next, HelperStep
<1> QED
  BY <1>1, <1>2, PTL DEF Spec

\* The flag is never ours without the marker (sleep_prevention_helper.go:
\* the marker is created before the write and removed after it is undone).
THEOREM OursIsMarkedAlways == ASSUME "late" \notin Faults
                              PROVE  Spec => []OursIsMarked
<1>1. Stepwise => OursIsMarked
  BY DEF Stepwise, OursIsMarked
<1> QED
  BY <1>1, StepwiseInvariant, PTL

-----------------------------------------------------------------------------
(***************************************************************************)
(* What the service shows as active is held.  The helper counts the        *)
(* connections that hold; whoever has its mutex works only while that      *)
(* count is zero, so that a release or a retry never meets a new holder.   *)
(***************************************************************************)
Holding == {c \in Conns : hend[c] = "holding" /\ c # who}
Counted == holders = Cardinality(Holding)

Shapes ==
    /\ flag \in BOOLEAN /\ ours \in BOOLEAN /\ other \in {"no", "first", "late"}
    /\ marker \in BOOLEAN /\ helper \in {"down", "serving"}
    /\ holders \in Nat /\ retriers \in Nat
    /\ who \in Conns \cup {None, "retry", "boot"}
    /\ step \in {"free", "clear", "unmark", "inspect", "mark", "set"}
    /\ hend \in [Conns -> HelperEnds] /\ cend \in [Conns -> ClientEnds]
    /\ requested \in BOOLEAN /\ quitting \in BOOLEAN
    /\ call \in {"none", "acquire", "close"}
    /\ target \in Conns \cup {None} /\ lease \in Conns \cup {None}
    /\ left \in 0..MaxFaults

\* Whose turn it is.
Turn ==
    /\ step = "free" <=> who = None
    /\ step # "free" => holders = 0 /\ helper = "serving"
    /\ helper = "down" => holders = 0
    /\ step \in {"inspect", "mark", "set"} => Acquiring
    /\ who \in Conns => hend[who] \in {"queued", "holding"}
    /\ who \in Conns /\ hend[who] = "holding" => cend[who] = "closed"
    /\ who = "retry" => retriers > 0

\* What marker and flag say of the holders and of another tool.
Marks ==
    /\ holders > 0 \/ step \in {"clear", "unmark", "set"} => marker
    /\ other # "no" \/ ours => flag
    /\ other = "first" => ~marker /\ step \in {"free", "inspect"}

\* What the service knows of its lease.
Client ==
    /\ lease # None => cend[lease] = "held"
    /\ call # "none" => lease = None /\ target \in Conns
    /\ call = "acquire" => cend[target] = "waiting"
    /\ ~quitting /\ (lease # None \/ call = "acquire") => requested

IInv == Shapes /\ Turn /\ Counted /\ Marks /\ Client

\* Each part speaks of a few variables only.
LEMMA HoldingFinite == IsFiniteSet(Holding)
  BY SleepAssumption, FS_Subset DEF Holding

LEMMA InitInv == Init => IInv
  <1> SUFFICES ASSUME Init PROVE IInv
    OBVIOUS
  <1>1. Holding = {}
    BY DEF Init, Holding
  <1>2. Counted
    BY <1>1, FS_EmptySet DEF Init, Counted
  <1>3. Shapes
    <2>1. left \in 0..MaxFaults
      BY SleepAssumption DEF Init
    <2>2. hend \in [Conns -> HelperEnds] /\ cend \in [Conns -> ClientEnds]
      BY DEF Init, HelperEnds, ClientEnds
    <2> QED BY <2>1, <2>2 DEF Init, Shapes
  <1>4. Turn /\ Marks /\ Client
    BY SleepAssumption DEF Init, Turn, Marks, Client
  <1> QED BY <1>2, <1>3, <1>4 DEF IInv

\* A budget is never overdrawn.
LEMMA Budget ==
    ASSUME Shapes, NEW kind, Fine \/ Fault(kind) PROVE left' \in 0..MaxFaults
  BY SleepAssumption DEF Fault, Fine, Shapes

LEMMA FailedStep ==
    ASSUME IInv, step # "free", Failed
    PROVE  /\ Holding' = Holding /\ who' = None /\ step' = "free"
           /\ hend' \in [Conns -> HelperEnds] /\ retriers' \in Nat
           /\ UNCHANGED <<helper, holders>>
  <1> USE DEF IInv, Shapes, Turn, Failed, Unlock, Begin, Holding, HelperEnds
  <1>1. CASE who \in Conns /\ hend[who] = "queued"
    BY <1>1, SleepAssumption
  <1>2. CASE ~(who \in Conns /\ hend[who] = "queued")
    BY <1>2, SleepAssumption
  <1> QED BY <1>1, <1>2

LEMMA ReleasedStep ==
    ASSUME IInv, step # "free", Released
    PROVE  /\ Holding' = Holding /\ who' = None /\ step' = "free"
           /\ hend' \in [Conns -> HelperEnds] /\ retriers' \in Nat
           /\ UNCHANGED <<helper, holders>>
  BY SleepAssumption
     DEF IInv, Shapes, Turn, Released, Unlock, Begin, Holding, HelperEnds

LEMMA StepInv == IInv /\ [Next]_vars => IInv'
  <1> SUFFICES ASSUME IInv, [Next]_vars PROVE IInv'
    OBVIOUS
  <1> USE DEF IInv
  <1>s. ASSUME UNCHANGED <<hend, who, holders>> PROVE Counted'
    BY <1>s DEF Counted, Holding
  <1>h. ASSUME Holding' = Holding, UNCHANGED holders PROVE Counted'
    BY <1>h DEF Counted
  <1>1. ASSUME NEW c \in Conns, BeginAcquire(c) PROVE IInv'
    <2>1. CASE holders > 0
      <3>1. /\ holders' = holders + 1 /\ hend' = [hend EXCEPT ![c] = "holding"]
            /\ UNCHANGED <<who, step>>
        BY <1>1, <2>1 DEF BeginAcquire, mutex
      <3>2. who = None /\ c # None
        BY <1>1, SleepAssumption DEF BeginAcquire, Idle, Turn
      <3>3. Holding' = Holding \cup {c} /\ c \notin Holding
        BY <1>1, <3>1, <3>2 DEF BeginAcquire, Holding, Shapes
      <3>4. Counted'
        BY <3>1, <3>3, HoldingFinite, FS_AddElement DEF Counted
      <3>5. Shapes'
        BY <1>1, <3>1 DEF BeginAcquire, Shapes, HelperEnds, system, service, Fine
      <3>6. Turn' /\ Marks' /\ Client'
        BY <1>1, <2>1, <3>1, <3>2
           DEF BeginAcquire, Shapes, Turn, Marks, Client, system, service, Acquiring
      <3> QED BY <3>4, <3>5, <3>6
    <2>2. CASE ~(holders > 0)
      <3>1. /\ who' = c /\ step' = (IF marker THEN "clear" ELSE "inspect")
            /\ UNCHANGED <<holders, hend>>
        BY <1>1, <2>2 DEF BeginAcquire, Begin
      <3>2. Holding' = Holding
        BY <1>1, <3>1, SleepAssumption DEF BeginAcquire, Idle, Holding, Turn
      <3>3. Shapes'
        BY <1>1, <3>1 DEF BeginAcquire, Shapes, system, service, Fine
      <3>4. Turn' /\ Marks' /\ Client'
        BY <1>1, <2>2, <3>1, SleepAssumption
           DEF BeginAcquire, Idle, Shapes, Turn, Marks, Client, system, service,
               Acquiring
      <3> QED BY <1>h, <3>1, <3>2, <3>3, <3>4
    <2> QED BY <2>1, <2>2
  <1>2. ASSUME NEW c \in Conns, BeginRelease(c) PROVE IInv'
    <2>1. who = None /\ c # None /\ hend[c] = "holding" /\ cend[c] = "closed"
      BY <1>2, SleepAssumption DEF BeginRelease, Idle, Turn
    <2>2. c \in Holding
      BY <2>1 DEF Holding
    <2>3. holders > 0
      BY <2>2, HoldingFinite, FS_EmptySet, FS_CardinalityType DEF Counted
    <2>4. CASE holders = 1 /\ marker
      <3>1. who' = c /\ step' = "clear" /\ holders' = 0 /\ UNCHANGED hend
        BY <1>2, <2>4 DEF BeginRelease, Begin
      <3>2. Holding' = Holding \ {c}
        BY <2>1, <3>1, SleepAssumption DEF Holding
      <3>3. Counted'
        <4>1. Cardinality(Holding \ {c}) = Cardinality(Holding) - 1
          BY <2>2, HoldingFinite, FS_RemoveElement
        <4> QED BY <2>4, <3>1, <3>2, <4>1 DEF Counted
      <3>4. Shapes'
        BY <1>2, <3>1 DEF BeginRelease, Shapes, system, service, Fine
      <3>5. Turn' /\ Marks' /\ Client'
        BY <1>2, <2>1, <2>3, <2>4, <3>1, SleepAssumption
           DEF BeginRelease, Idle, Turn, Marks, Client, system, service, Acquiring
      <3> QED BY <3>3, <3>4, <3>5
    <2>5. CASE ~(holders = 1 /\ marker)
      <3>1. /\ hend' = [hend EXCEPT ![c] = "none"] /\ holders' = holders - 1
            /\ UNCHANGED <<who, step>>
        BY <1>2, <2>5 DEF BeginRelease, mutex
      <3>2. Holding' = Holding \ {c}
        BY <2>1, <3>1, SleepAssumption DEF Holding, Shapes
      <3>3. Counted'
        BY <2>2, <3>1, <3>2, HoldingFinite, FS_RemoveElement DEF Counted
      <3>4. Shapes'
        BY <1>2, <2>3, <3>1 DEF BeginRelease, Shapes, HelperEnds, system, service, Fine
      <3>5. Turn' /\ Marks' /\ Client'
        BY <1>2, <2>1, <2>3, <3>1, SleepAssumption
           DEF BeginRelease, Idle, Shapes, Turn, Marks, Client, system, service,
               Acquiring
      <3> QED BY <3>3, <3>4, <3>5
    <2> QED BY <2>4, <2>5
  <1>3. CASE BeginRetry
    <2>1. UNCHANGED <<holders, hend, marker, helper, system, service>>
      BY <1>3 DEF BeginRetry
    <2>2. \/ retriers' = retriers - 1 /\ UNCHANGED <<who, step>>
          \/ /\ holders = 0 /\ marker /\ who' = "retry" /\ step' = "clear"
             /\ UNCHANGED retriers
      BY <1>3 DEF BeginRetry, Begin, mutex, Shapes
    <2>3. step = "free" /\ who = None /\ retriers > 0 /\ helper = "serving"
      BY <1>3 DEF BeginRetry, Idle, Turn
    <2>4. Holding' = Holding
      BY <2>1, <2>2, <2>3, SleepAssumption DEF Holding
    <2>5. Shapes'
      BY <1>3, <2>1, <2>2, <2>3 DEF BeginRetry, Shapes, system, service, Fine
    <2>6. Turn' /\ Marks' /\ Client'
      BY <2>1, <2>2, <2>3, SleepAssumption
         DEF Turn, Marks, Client, system, service, Acquiring
    <2> QED BY <1>h, <2>1, <2>4, <2>5, <2>6
  <1>f. ASSUME step # "free", Failed, UNCHANGED service, Shapes',
               marker' \in BOOLEAN, other' # "no" \/ ours' => flag',
               other' = "first" => ~marker'
        PROVE  IInv'
    <2>1. /\ Holding' = Holding /\ who' = None /\ step' = "free"
          /\ UNCHANGED <<helper, holders>>
      BY <1>f, FailedStep
    <2>2. holders = 0 /\ helper = "serving"
      BY <1>f DEF Turn
    <2>3. Turn'
      BY <2>1, <2>2, SleepAssumption DEF Turn
    <2>4. Marks'
      BY <1>f, <2>1, <2>2 DEF Marks
    <2>5. Client'
      BY <1>f DEF Client, service
    <2> QED BY <1>f, <1>h, <2>1, <2>3, <2>4, <2>5
  <1>4. CASE Clear
    <2>1. step = "clear" /\ UNCHANGED <<marker, service>> /\ marker
      BY <1>4 DEF Clear, Marks
    <2>2. CASE Failed
      <3>1. Shapes'
        BY <1>4, <2>1, <2>2, Budget, FailedStep, ZenonT(60)
           DEF Clear, Shapes, Failed, Unlock, Begin, service, system
      <3>2. other' # "first" /\ (other' # "no" \/ ours' => flag')
        BY <1>4, <2>1 DEF Clear, Marks, system
      <3> QED BY <1>f, <2>1, <2>2, <3>1, <3>2 DEF Shapes
    <2>3. CASE /\ flag' = FALSE /\ ours' = FALSE /\ other' = "no" /\ Fine
               /\ step' = "unmark" /\ UNCHANGED <<who, helper, holders, retriers, hend>>
      <3>1. Shapes'
        BY <2>1, <2>3 DEF Shapes, service, Fine
      <3>2. Turn' /\ Marks' /\ Client'
        BY <2>1, <2>3 DEF Turn, Marks, Client, service, Acquiring
      <3> QED BY <1>s, <2>3, <3>1, <3>2
    <2> QED BY <1>4, <2>2, <2>3 DEF Clear
  <1>5. CASE Unmark
    <2>1. step = "unmark" /\ UNCHANGED <<system, service>>
      BY <1>5 DEF Unmark
    <2>2. CASE UNCHANGED marker /\ Failed /\ Fault("file")
      <3>1. Shapes'
        BY <2>1, <2>2, Budget, FailedStep
           DEF Shapes, Failed, Unlock, Begin, service, system
      <3> QED BY <1>f, <2>1, <2>2, <3>1 DEF Marks, system, Shapes
    <2>3. CASE marker' = FALSE /\ Fine /\ Acquiring
      <3>1. step' = "inspect" /\ UNCHANGED <<who, helper, holders, retriers, hend>>
        <4>1. marker
          BY <2>1 DEF Marks
        <4>2. marker' # marker
          BY Zenon, <2>3, <4>1
        <4>3. ~UNCHANGED marker
          BY Zenon, <4>2
        <4>4. IF Acquiring
              THEN Begin(who, "inspect") /\ UNCHANGED <<helper, holders, retriers, hend>>
              ELSE Released
          BY Zenon, <1>5, <4>3 DEF Unmark
        <4> QED BY <2>3, <4>4 DEF Begin
      <3>2. Shapes'
        <4>1. marker' \in BOOLEAN
          BY <2>3
        <4> QED BY <2>1, <2>3, <3>1, <4>1 DEF Shapes, service, system, Fine
      <3>3. Turn' /\ Marks' /\ Client'
        BY <2>1, <2>3, <3>1 DEF Turn, Marks, Client, service, system, Acquiring
      <3> QED BY <1>s, <3>1, <3>2, <3>3
    <2>4. CASE marker' = FALSE /\ Fine /\ ~Acquiring /\ Released
      <3>1. /\ Holding' = Holding /\ who' = None /\ step' = "free"
            /\ hend' \in [Conns -> HelperEnds] /\ retriers' \in Nat
            /\ UNCHANGED <<helper, holders>>
        BY <2>1, <2>4, ReleasedStep
      <3>2. Shapes'
        BY <2>1, <2>4, <3>1 DEF Shapes, service, system, Fine
      <3>3. Turn' /\ Marks' /\ Client'
        BY <2>1, <2>4, <3>1, SleepAssumption
           DEF Turn, Marks, Client, service, system
      <3> QED BY <1>h, <3>1, <3>2, <3>3
    <2> QED BY <1>5, <2>2, <2>3, <2>4 DEF Unmark
  <1>6. CASE Inspect
    <2>1. step = "inspect" /\ UNCHANGED <<system, service, marker>>
      BY <1>6 DEF Inspect
    <2>2. CASE Failed
      <3>1. Shapes'
        BY <1>6, <2>1, <2>2, Budget, FailedStep
           DEF Inspect, Shapes, Failed, Unlock, Begin, service, system
      <3> QED BY <1>f, <2>1, <2>2, <3>1 DEF Marks, system, Shapes
    <2>3. CASE /\ ~flag /\ step' = "mark" /\ Fine
               /\ UNCHANGED <<who, helper, holders, retriers, hend>>
      <3>1. Shapes'
        BY <2>1, <2>3 DEF Shapes, service, system, Fine
      <3>2. Turn' /\ Marks' /\ Client'
        BY <2>1, <2>3 DEF Turn, Marks, Client, service, system, Acquiring
      <3> QED BY <1>s, <2>3, <3>1, <3>2
    <2> QED BY <1>6, <2>2, <2>3 DEF Inspect
  <1>7. CASE Mark
    <2>1. step = "mark" /\ UNCHANGED <<system, service>>
      BY <1>7 DEF Mark
    <2>2. CASE UNCHANGED marker /\ Failed /\ Fault("file")
      <3>1. Shapes'
        BY <2>1, <2>2, Budget, FailedStep
           DEF Shapes, Failed, Unlock, Begin, service, system
      <3> QED BY <1>f, <2>1, <2>2, <3>1 DEF Marks, system, Shapes
    <2>3. CASE /\ marker' = TRUE /\ step' = "set" /\ Fine
               /\ UNCHANGED <<who, helper, holders, retriers, hend>>
      <3>1. Shapes'
        BY <2>1, <2>3 DEF Shapes, service, system, Fine
      <3>2. Turn' /\ Marks' /\ Client'
        BY <2>1, <2>3 DEF Turn, Marks, Client, service, system, Acquiring
      <3> QED BY <1>s, <2>3, <3>1, <3>2
    <2> QED BY <1>7, <2>2, <2>3 DEF Mark
  <1>8. CASE Set
    <2>1. step = "set" /\ UNCHANGED <<other, service>> /\ other # "first"
      BY <1>8 DEF Set, Marks
    <2>2. CASE Failed
      <3>1. Shapes'
        <4>1. flag' \in BOOLEAN /\ ours' \in BOOLEAN
          BY <1>8, <2>1 DEF Set, Shapes
        <4>2. marker' \in BOOLEAN
          BY <1>8 DEF Set, Shapes, UnmarkIgnored
        <4>3. left' \in 0..MaxFaults
          BY <1>8, Budget DEF Set
        <4> QED BY <2>1, <2>2, <4>1, <4>2, <4>3, FailedStep DEF Shapes, service
      <3>2. other' # "no" \/ ours' => flag'
        BY <1>8, <2>1 DEF Set, Marks
      <3> QED BY <1>f, <2>1, <2>2, <3>1, <3>2 DEF Shapes
    <2>3. CASE /\ flag' = TRUE /\ ours' = TRUE /\ UNCHANGED <<marker, helper, retriers>>
               /\ holders' = 1 /\ hend' = [hend EXCEPT ![who] = "holding"]
               /\ Unlock /\ Fine
      <3>1. who \in Conns /\ holders = 0 /\ helper = "serving" /\ marker
        BY <2>1 DEF Turn, Acquiring, Marks
      <3>2. Holding = {}
        BY <3>1, HoldingFinite, FS_EmptySet DEF Counted
      <3>3. who' = None /\ step' = "free"
        BY <2>3 DEF Unlock, Begin
      <3>4. Holding' = {who}
        BY <2>3, <3>1, <3>2, <3>3, SleepAssumption DEF Holding, Shapes
      <3>5. Counted'
        BY <2>3, <3>4, FS_Singleton DEF Counted
      <3>6. Shapes'
        BY <2>1, <2>3, <3>1, <3>3 DEF Shapes, HelperEnds, service, Fine
      <3>7. Turn' /\ Marks' /\ Client'
        BY <2>1, <2>3, <3>1, <3>3, SleepAssumption DEF Turn, Marks, Client, service
      <3> QED BY <3>5, <3>6, <3>7
    <2> QED BY <1>8, <2>2, <2>3 DEF Set
  <1>9. CASE HelperCrash
    <2>1. Holding' = {}
      BY <1>9 DEF HelperCrash, Holding
    <2>2. Counted'
      BY <1>9, <2>1, FS_EmptySet DEF HelperCrash, Counted
    <2>3. Shapes'
      BY <1>9, SleepAssumption
         DEF HelperCrash, Shapes, HelperEnds, Unlock, Begin, system, service, Fault
    <2>4. Turn' /\ Marks' /\ Client'
      BY <1>9, SleepAssumption
         DEF HelperCrash, Turn, Marks, Client, Unlock, Begin, system, service
    <2> QED BY <2>2, <2>3, <2>4
  <1>10. CASE HelperStart
    <2>1. UNCHANGED <<marker, holders, retriers, hend, system, service>>
          /\ helper = "down" /\ helper' = "serving" /\ step = "free" /\ who = None
          /\ holders = 0
      BY <1>10 DEF HelperStart, Turn
    <2>2. \/ marker /\ who' = "boot" /\ step' = "clear"
          \/ UNCHANGED <<who, step>>
      BY <1>10 DEF HelperStart, Begin, mutex
    <2>3. Holding' = Holding
      BY <2>1, <2>2, SleepAssumption DEF Holding
    <2>4. Shapes'
      BY <1>10, <2>1, <2>2 DEF HelperStart, Shapes, system, service, Fine
    <2>5. Turn' /\ Marks' /\ Client'
      BY <2>1, <2>2, SleepAssumption DEF Turn, Marks, Client, system, service, Acquiring
    <2> QED BY <1>h, <2>1, <2>3, <2>4, <2>5
  <1>11. CASE ServiceStep \/ Disable \/ Quit \/ Exit
    <2>1. UNCHANGED <<hlp, system>>
      BY <1>11 DEF ServiceStep, Granted, NotGranted, CloseLease, Observe, Disable,
                   Quit, Exit
    <2>2. left' \in 0..MaxFaults
      BY <1>11, Budget DEF ServiceStep, Granted, NotGranted, CloseLease, Observe,
                           Disable, Quit, Exit
    <2> DEFINE ServiceShapes ==
                 /\ cend \in [Conns -> ClientEnds]
                 /\ requested \in BOOLEAN /\ quitting \in BOOLEAN
                 /\ call \in {"none", "acquire", "close"}
                 /\ target \in Conns \cup {None} /\ lease \in Conns \cup {None}
               Kept == \A c \in Conns : cend[c] = "closed" => cend'[c] = "closed"
    <2>g. ServiceShapes
      BY DEF Shapes
    <2>3. ServiceShapes' /\ Client' /\ Kept
      <3>1. CASE Granted
        BY <3>1, <2>g, SleepAssumption DEF Granted, CallDone, ClientEnds, Client
      <3>2. CASE NotGranted
        BY <3>2, <2>g, SleepAssumption DEF NotGranted, CallDone, ClientEnds, Client
      <3>3. CASE CloseLease
        BY <3>3, <2>g, SleepAssumption DEF CloseLease, CallDone, ClientEnds, Client
      <3>4. CASE Observe
        BY <3>4, <2>g, SleepAssumption DEF Observe, ClientEnds, Client
      <3>5. CASE Disable
        BY <3>5, <2>g, SleepAssumption DEF Disable, ClientEnds, Client
      <3>6. CASE Quit
        BY <3>6, <2>g, SleepAssumption DEF Quit, ClientEnds, Client
      <3>7. CASE Exit
        BY <3>7, <2>g, SleepAssumption DEF Exit, ClientEnds, Client
      <3> QED BY <1>11, <3>1, <3>2, <3>3, <3>4, <3>5, <3>6, <3>7 DEF ServiceStep
    <2>4. Shapes'
      BY <2>1, <2>2, <2>3 DEF Shapes, hlp, system
    <2>5. Turn' /\ Marks' /\ Counted'
      <3>1. UNCHANGED <<hend, who, holders, step, helper, retriers, marker, flag,
                        ours, other>>
        BY <2>1 DEF hlp, system
      <3>2. Turn'
        BY <2>3, <3>1 DEF Turn, Acquiring
      <3>3. Marks'
        BY <3>1 DEF Marks
      <3> QED BY <1>s, <3>1, <3>2, <3>3
    <2> QED BY <2>3, <2>4, <2>5
  <1>12. CASE Enable
    <2>1. UNCHANGED <<marker, helper, holders, who, step, retriers, lease, quitting,
                      system>> /\ Fine /\ lease = None /\ call = "none"
      BY <1>12 DEF Enable
    <2>2. CASE requested' = FALSE /\ UNCHANGED <<call, target, cend, hend>>
      <3>1. Shapes'
        <4>1. requested' \in BOOLEAN
          BY <2>2
        <4> QED BY <2>1, <2>2, <4>1 DEF Shapes, system, Fine
      <3>2. Turn' /\ Marks' /\ Client'
        BY <2>1, <2>2 DEF Turn, Marks, Client, system, Acquiring
      <3> QED BY <1>s, <2>1, <2>2, <3>1, <3>2
    <2>3. ASSUME NEW c \in Conns, cend[c] = "free", hend[c] = "none", target' = c,
                 cend' = [cend EXCEPT ![c] = "waiting"],
                 hend' = [hend EXCEPT ![c] = "queued"],
                 call' = "acquire", requested' = TRUE
          PROVE  IInv'
      <3>1. c # who
        BY <2>3 DEF Turn
      <3>2. Holding' = Holding
        BY <2>1, <2>3 DEF Holding, Shapes
      <3>3. Shapes'
        BY <2>1, <2>3 DEF Shapes, HelperEnds, ClientEnds, system, Fine
      <3>4. Turn' /\ Marks' /\ Client'
        BY <2>1, <2>3, <3>1 DEF Shapes, Turn, Marks, Client, system, Acquiring
      <3> QED BY <1>h, <2>1, <3>2, <3>3, <3>4
    <2> QED BY <1>12, <2>2, <2>3 DEF Enable
  <1>13. ASSUME NEW c \in Conns, Forget(c) PROVE IInv'
    <2>1. c # who
      BY <1>13 DEF Forget, Turn
    <2>2. Holding' = Holding
      BY <1>13 DEF Forget, Holding, Shapes
    <2>3. Shapes'
      BY <1>13 DEF Forget, Shapes, HelperEnds, ClientEnds, system, Fine
    <2>4. Turn' /\ Marks' /\ Client'
      BY <1>13, <2>1 DEF Forget, Shapes, Turn, Marks, Client, system, Acquiring
    <2> QED BY <1>13, <1>h, <2>2, <2>3, <2>4 DEF Forget
  <1>14. CASE OtherTool
    <2>1. UNCHANGED <<hlp, service>>
      BY <1>14 DEF OtherTool
    <2>2. Shapes'
      <3>1. flag' \in BOOLEAN /\ ours' \in BOOLEAN
        <4>1. (flag' = TRUE /\ ours' = ours) \/ (flag' = FALSE /\ ours' = FALSE)
          BY Zenon, <1>14 DEF OtherTool
        <4>2. ours \in BOOLEAN
          BY DEF Shapes
        <4>3. CASE flag' = TRUE /\ ours' = ours
          BY <4>2, <4>3
        <4>4. CASE flag' = FALSE /\ ours' = FALSE
          BY <4>4
        <4> QED BY <4>1, <4>3, <4>4
      <3>3. other' \in {"no", "first", "late"}
        BY <1>14 DEF OtherTool
      <3>2. left' \in 0..MaxFaults
        BY <1>14, Budget DEF OtherTool
      <3> QED BY <2>1, <3>1, <3>2, <3>3 DEF Shapes, hlp, service
    <2>3. Marks'
      BY <1>14, <2>1 DEF OtherTool, Shapes, Marks, Looked, hlp
    <2>4. Turn' /\ Client'
      BY <2>1 DEF Turn, Client, hlp, service, Acquiring
    <2> QED BY <1>s, <2>1, <2>2, <2>3, <2>4 DEF hlp
  <1>15. CASE UNCHANGED vars
    BY <1>s, <1>15 DEF Shapes, Turn, Marks, Client, Acquiring, vars, system, hlp, service
  <1> QED BY <1>1, <1>2, <1>3, <1>4, <1>5, <1>6, <1>7, <1>8, <1>9, <1>10, <1>11,
             <1>12, <1>13, <1>14, <1>15 DEF Next, HelperStep

LEMMA Invariant == Spec => []IInv
  BY InitInv, StepInv, PTL DEF Spec

\* Every variable keeps its type; the helper never counts more holders than there
\* are connections.
THEOREM TypeCorrect == Spec => []TypeOK
  <1>1. IInv => TypeOK
    <2> SUFFICES ASSUME IInv PROVE TypeOK
      OBVIOUS
    <2>1. Cardinality(Holding) <= Cardinality(Conns)
      BY SleepAssumption, FS_Subset DEF Holding
    <2>2. Cardinality(Conns) \in Nat
      BY SleepAssumption, FS_CardinalityType
    <2> QED BY <2>1, <2>2 DEF IInv, Shapes, Counted, TypeOK
  <1> QED BY <1>1, Invariant, PTL

\* What the service shows as active was asked for and is held by the helper,
\* through late answers, a disable in between and retries of old releases, for
\* any number of connections and any failures, "late" ones included.
THEOREM ActiveIsTrueAlways == Spec => []ActiveIsTrue
  <1>1. IInv => ActiveIsTrue
    <2> SUFFICES ASSUME IInv PROVE ActiveIsTrue
      OBVIOUS
    <2>1. ActiveIsRequested
      BY DEF IInv, Client, ActiveIsRequested
    <2>2. ASSUME lease # None, hend[lease] = "holding"
          PROVE  /\ holders = Cardinality({c \in Conns : hend[c] = "holding" /\ c # who})
                 /\ holders > 0 /\ marker /\ (other = "no" /\ ours => flag)
                 /\ step \notin {"clear", "unmark"}
      <3>1. lease \in Conns /\ cend[lease] = "held"
        BY <2>2 DEF IInv, Shapes, Client
      <3>2. lease \in Holding
        BY <2>2, <3>1 DEF IInv, Turn, Holding
      <3>3. holders > 0
        BY <3>2, HoldingFinite, FS_EmptySet, FS_CardinalityType DEF IInv, Counted
      <3> QED BY <3>3 DEF IInv, Counted, Holding, Turn, Marks
    <2> QED BY <2>1, <2>2 DEF ActiveIsTrue, ActiveIsHeld
  <1> QED BY <1>1, Invariant, PTL

\* A flag that another tool had set before the helper looked is cleared by that
\* tool alone.
THEOREM OthersFlagIsKept == Spec => OthersFlagKept
  <1>1. ASSUME IInv, [Next]_vars
        PROVE  [other = "first" /\ other' # "first" =>
                  left' < left /\ UNCHANGED <<hlp, service>>]_vars
    <2> SUFFICES ASSUME Next, other = "first", other' # "first"
                 PROVE  left' < left /\ UNCHANGED <<hlp, service>>
      BY <1>1 DEF vars
    <2>1. step \in {"free", "inspect"}
      BY <1>1 DEF IInv, Marks
    <2>2. CASE OtherTool
      BY <1>1, <2>2 DEF OtherTool, Fault, IInv, Shapes
    <2>3. CASE HelperStep \/ HelperCrash \/ HelperStart
      BY <2>1, <2>3 DEF HelperStep, BeginAcquire, BeginRelease, BeginRetry, Clear,
         Unmark, Inspect, Mark, Set, HelperCrash, HelperStart, system
    <2>4. CASE \/ ServiceStep \/ Enable \/ Disable \/ Quit \/ Exit
               \/ \E c \in Conns : Forget(c)
      BY <2>4 DEF ServiceStep, Granted, NotGranted, CloseLease, Observe, Enable,
         Disable, Quit, Exit, Forget, system
    <2> QED BY <2>2, <2>3, <2>4 DEF Next
  <1>2. IInv /\ [Next]_vars =>
          [other = "first" /\ other' # "first" =>
             left' < left /\ UNCHANGED <<hlp, service>>]_vars
    BY <1>1
  <1> QED BY <1>2, Invariant, PTL DEF Spec, OthersFlagKept
=============================================================================
