-------------------------- MODULE LanAccessProofs --------------------------
(***************************************************************************)
(* What the listener for the local network promises about its socket, about*)
(* networks it was paused on and about the sessions of those who logged in,*)
(* proved for any number of requests, sessions, bindings, saves, moves and *)
(* failures.                                                               *)
(***************************************************************************)
EXTENDS LanAccess, TLAPS, FiniteSetTheorems

(***************************************************************************)
(* The socket.  A generation is never 0, the mark of no listener.          *)
(***************************************************************************)
Numbered == gen \in Nat /\ \A p \in port : p.gen # 0

SocketInv == Numbered /\ NoStraySocket

LEMMA SocketInit == Init => SocketInv
  BY DEF Init, SocketInv, Numbered, NoStraySocket

LEMMA SocketSame == SocketInv /\ UNCHANGED listener => SocketInv'
  BY DEF listener, SocketInv, Numbered, NoStraySocket

\* Closing the server in use leaves the sockets nobody serves yet.
LEMMA SocketStop == SocketInv /\ Stop => SocketInv'
  BY DEF Stop, SocketInv, Numbered, NoStraySocket

LEMMA SocketReconcile == ASSUME SocketInv, reconcile PROVE SocketInv'
<1>1. CASE Pause  BY <1>1, SocketStop DEF Pause
<1>2. CASE Listen /\ ~UNCHANGED listener
  <2>1. /\ server = 0 /\ server' = gen + 1 /\ gen' = gen + 1 /\ unserved' = unserved \cup {gen + 1}
        /\ port' = port \cup {[gen |-> gen + 1, bind |-> config.bind]}
        /\ \A p \in port : p.bind # config.bind
    BY <1>2 DEF Listen, listener
  <2> QED  BY <2>1 DEF SocketInv, Numbered, NoStraySocket
<1>3. CASE RetryPause \/ NothingToDo \/ UNCHANGED listener
  BY <1>3, SocketSame DEF RetryPause, NothingToDo, listener
<1> QED  BY <1>1, <1>2, <1>3 DEF reconcile

LEMMA SocketNext == SocketInv /\ [Next]_vars => SocketInv'
<1> SUFFICES ASSUME SocketInv, [Next]_vars PROVE SocketInv'  OBVIOUS
<1>1. CASE Tick \/ Rebind  BY <1>1, SocketReconcile DEF Tick, Rebind
<1>2. CASE Swap \/ Close
  BY <1>2, SocketStop, SocketSame DEF Swap, Close, listener
<1>3. CASE Boot \/ ExpireSessions \/ AskConfig \/ AskReset \/ Persist
  BY <1>3, SocketSame DEF Boot, ExpireSessions, AskConfig, AskReset, Persist, listener
<1>4. ASSUME NEW g \in unserved, Serve(g) PROVE SocketInv'
  BY <1>4 DEF Serve, SocketInv, Numbered, NoStraySocket
<1>5. CASE ServeFails
  BY <1>5 DEF ServeFails, SocketInv, Numbered, NoStraySocket
<1>6. CASE Exit
  BY <1>6 DEF Exit, SocketInv, Numbered, NoStraySocket
<1>7. ASSUME NEW r \in Requests, Network(r) PROVE SocketInv'
  BY <1>7, SocketSame DEF Network, Arrive, Auth, Answer, PasswordCheck, Login, Logout, ChangePassword,
     listener
<1>8. CASE Move \/ (\E s \in sessions : Age(s)) \/ UNCHANGED vars
  BY <1>8, SocketSame DEF Move, Age, vars, listener
<1> QED
  BY <1>1, <1>2, <1>3, <1>4, <1>5, <1>6, <1>7, <1>8 DEF Next, Local

(***************************************************************************)
(* No socket outlives the listener it belongs to: the system holds the one *)
(* in use and those whose goroutine has not run yet, and never two on one  *)
(* address.                                                                *)
(***************************************************************************)
THEOREM NoStraySocketAlways == Spec => []NoStraySocket
<1>1. SocketInv => NoStraySocket  BY DEF SocketInv
<1> QED  BY <1>1, SocketInit, SocketNext, PTL DEF Spec

-----------------------------------------------------------------------------
(***************************************************************************)
(* The pause.  Somebody has said that the listener may be open, unless the *)
(* service died before it could write down that it may not.                *)
(***************************************************************************)
Permitted == confirmed \/ forgot

IsConfig(c) ==
    /\ c = [on |-> c.on, bind |-> c.bind, pass |-> c.pass, paused |-> c.paused]
    /\ c.on \in BOOLEAN /\ c.paused \in BOOLEAN

IsOp(o) == o = [phase |-> o.phase, want |-> o.want, rebind |-> o.rebind, by |-> o.by]

Shapes == IsConfig(disk) /\ IsConfig(config) /\ IsOp(op) /\ IsConfig(op.want)

\* A service that does not run holds nothing.
Down == ~up => op.phase = "free" /\ ~dirty /\ server = 0

\* What is saved is open only with permission, or is about to be written again.
SavedOpen == disk.on /\ ~disk.paused => Permitted \/ dirty

\* What is in force is open only with permission; a pause is shown, and is
\* never what a file that could not be read left.
ConfigOpen == up => /\ config.on /\ ~config.paused => Permitted
                    /\ config.paused => problem \notin {"none", "configuration_invalid"}

\* A password keeps the rest of the settings; a new binding is a permission.
Keeps   == op.phase \in {"persist", "swap"} /\ ~op.rebind =>
               op.want.on = config.on /\ op.want.paused = config.paused
Permits == op.phase \in {"persist", "swap"} /\ op.rebind => ~op.want.paused
Written == op.phase = "swap" => disk = op.want /\ (op.rebind /\ op.want.on => confirmed)

PauseInv == Shapes /\ Down /\ SavedOpen /\ ConfigOpen /\ Keeps /\ Permits /\ Written /\ NeverReopened

PauseParts == <<disk, up, config, problem, dirty, server, op, confirmed, forgot>>

LEMMA PauseInit == Init => PauseInv
<1> SUFFICES ASSUME Init PROVE PauseInv  OBVIOUS
<1>1. IsConfig(Default) /\ IsOp(Free) /\ ~Default.on /\ ~Default.paused
  BY DEF IsConfig, IsOp, Default, Free
<1>2. IsConfig(disk)
  <2>1. CASE disk = Default  BY <1>1, <2>1
  <2>2. CASE disk \in [on : {TRUE}, bind : Bindings, pass : {1}, paused : BOOLEAN]
    BY <2>2 DEF IsConfig
  <2> QED  BY <2>1, <2>2 DEF Init
<1> QED
  BY <1>1, <1>2 DEF Init, PauseInv, Shapes, IsConfig, IsOp, Down, SavedOpen, ConfigOpen, Keeps, Permits, Written,
     NeverReopened, Permitted, Default, Free

LEMMA PauseSame == PauseInv /\ UNCHANGED PauseParts => PauseInv'
  BY DEF PauseParts, PauseInv, Shapes, IsConfig, IsOp, Down, SavedOpen, ConfigOpen, Keeps, Permits,
     Written, NeverReopened, Permitted

\* reconcile, with op free or freed by the same step.
LEMMA PauseReconcile ==
    ASSUME PauseInv, reconcile, up, up' = up, forgot' = forgot, op.phase \in {"free", "reconcile"},
           op' \in {op, Free}
    PROVE  PauseInv'
<1>1. IsOp(op)' /\ IsConfig(op.want)' /\ op'.phase \in {"free", "reconcile"}
  <2>1. CASE op' = op  BY <2>1 DEF PauseInv, Shapes, IsOp, IsConfig
  <2>2. CASE op' = Free  BY <2>2 DEF IsOp, IsConfig, Free, Default
  <2> QED  BY <2>1, <2>2
<1>2. CASE Pause
  <2>1. config' = [on |-> config.on, bind |-> config.bind, pass |-> config.pass, paused |-> TRUE]
    BY <1>2 DEF Pause, PauseInv, Shapes, IsConfig
  <2>2. /\ disk' = config' \/ (disk' = disk /\ dirty')
        /\ server' = 0 /\ problem' = "address_unavailable"
    BY <1>2 DEF Pause, WritePause, Stop
  <2>3. IsConfig(config)' /\ config'.paused  BY <2>1 DEF PauseInv, Shapes, IsConfig
  <2>4. IsConfig(disk)' /\ SavedOpen'
    BY <2>2, <2>3 DEF PauseInv, Shapes, IsConfig, SavedOpen
  <2>5. ConfigOpen'  BY <2>2, <2>3 DEF ConfigOpen
  <2> QED
    BY <1>1, <2>2, <2>3, <2>4, <2>5 DEF PauseInv, Shapes, Down, Keeps, Permits, Written, NeverReopened
<1>3. CASE Listen
  <2>1. /\ UNCHANGED <<disk, config, dirty, confirmed>> /\ config.on /\ problem = "none"
        /\ (problem' = problem \/ problem' = "listen_failed")
    BY <1>3 DEF Listen, Active
  <2>2. Permitted  BY <2>1 DEF PauseInv, ConfigOpen
  <2> QED
    BY <1>1, <2>1, <2>2 DEF PauseInv, Shapes, IsConfig, Down, SavedOpen, ConfigOpen, Keeps, Permits,
       Written, NeverReopened, Permitted
<1>4. CASE RetryPause
  <2>1. /\ UNCHANGED <<config, problem, server, confirmed>>
        /\ disk' = config \/ (disk' = disk /\ dirty' = dirty)
    BY <1>4 DEF RetryPause, listener
  <2> QED
    BY <1>1, <2>1 DEF PauseInv, Shapes, IsConfig, Down, SavedOpen, ConfigOpen, Keeps, Permits, Written,
       NeverReopened, Permitted
<1>5. CASE NothingToDo
  <2>1. UNCHANGED <<disk, config, problem, dirty, server, confirmed>>
    BY <1>5 DEF NothingToDo, settings, listener
  <2> QED
    BY <1>1, <2>1 DEF PauseInv, Shapes, IsConfig, Down, SavedOpen, ConfigOpen, Keeps, Permits, Written,
       NeverReopened, Permitted
<1> QED  BY <1>2, <1>3, <1>4, <1>5 DEF reconcile

\* What the settings page and a change of the password ask for.
LEMMA PauseAsk ==
    ASSUME PauseInv, NEW want, NEW rebind, NEW by, Begin(want, rebind, by), IsConfig(want),
           UNCHANGED <<disk, up, config, problem, dirty, server, confirmed, forgot>>,
           IF rebind THEN ~want.paused ELSE want.on = config.on /\ want.paused = config.paused
    PROVE  PauseInv'
  BY DEF Begin, PauseInv, Shapes, IsConfig, IsOp, Down, SavedOpen, ConfigOpen, Keeps, Permits, Written,
     NeverReopened, Permitted

LEMMA NewPassword ==
    ASSUME IsConfig(config), NEW pass
    PROVE  LET want == [config EXCEPT !.pass = pass] IN
           IsConfig(want) /\ want.on = config.on /\ want.paused = config.paused
<1>1. [config EXCEPT !.pass = pass] =
        [on |-> config.on, bind |-> config.bind, pass |-> pass, paused |-> config.paused]
  BY DEF IsConfig
<1> QED  BY <1>1 DEF IsConfig

LEMMA PausePersist == ASSUME PauseInv, Persist PROVE PauseInv'
<1>1. UNCHANGED <<config, problem, dirty, up, server, forgot>> /\ op.phase = "persist" /\ up
  BY DEF Persist, listener, PauseInv, Down
<1>2. CASE /\ disk' = op.want /\ op' = [op EXCEPT !.phase = "swap"]
           /\ confirmed' = (confirmed \/ (op.rebind /\ op.want.on))
  <2>1. op' = [phase |-> "swap", want |-> op.want, rebind |-> op.rebind, by |-> op.by]
    BY <1>2 DEF PauseInv, Shapes, IsOp
  <2>2. disk'.on /\ ~disk'.paused => Permitted'
    BY <1>1, <1>2 DEF PauseInv, ConfigOpen, Keeps, Permitted
  <2> QED
    BY <1>1, <1>2, <2>1, <2>2 DEF PauseInv, Shapes, IsConfig, IsOp, Down, SavedOpen, ConfigOpen, Keeps,
       Permits, Written, NeverReopened, Permitted
<1>3. CASE UNCHANGED <<disk, confirmed>> /\ op' = Free
  BY <1>1, <1>3 DEF PauseInv, Shapes, IsConfig, IsOp, Down, SavedOpen, ConfigOpen, Keeps, Permits,
     Written, NeverReopened, Permitted, Free, Default
<1> QED  BY <1>2, <1>3 DEF Persist, Release

LEMMA PauseSwap == ASSUME PauseInv, Swap PROVE PauseInv'
<1>1. /\ UNCHANGED <<disk, up, confirmed, forgot>> /\ op.phase = "swap" /\ config' = op.want /\ dirty' = FALSE
      /\ up /\ disk = op.want
  BY DEF Swap, history, PauseInv, Down, Written
<1>2. CASE op.rebind
  <2>1. problem' = "none" /\ server' = 0 /\ op' = [op EXCEPT !.phase = "reconcile"]
    BY <1>2 DEF Swap, Stop
  <2>2. op' = [phase |-> "reconcile", want |-> op.want, rebind |-> op.rebind, by |-> op.by]
    BY <2>1 DEF PauseInv, Shapes, IsOp
  <2> QED
    BY <1>1, <1>2, <2>1, <2>2 DEF PauseInv, Shapes, IsConfig, IsOp, Down, SavedOpen, ConfigOpen, Keeps,
       Permits, Written, NeverReopened, Permitted
<1>3. CASE ~op.rebind
  <2>1. UNCHANGED server /\ op' = Free
        /\ problem' = IF problem = "configuration_invalid" THEN "none" ELSE problem
    BY <1>3 DEF Swap, Release, listener
  <2> QED
    BY <1>1, <1>3, <2>1 DEF PauseInv, Shapes, IsConfig, IsOp, Down, SavedOpen, ConfigOpen, Keeps,
       Permits, Written, NeverReopened, Permitted, Free, Default
<1> QED  BY <1>2, <1>3

LEMMA PauseNext == PauseInv /\ [Next]_vars => PauseInv'
<1> SUFFICES ASSUME PauseInv, [Next]_vars PROVE PauseInv'  OBVIOUS
<1>1. CASE Boot
  <2>1. /\ up' /\ op.phase = "free" /\ ~dirty /\ UNCHANGED <<disk, dirty, server, op, confirmed, forgot>>
    BY <1>1 DEF Boot, listener, PauseInv, Down
  <2>2. CASE config' = disk /\ problem' = (IF disk.paused THEN "address_unavailable" ELSE "none")
    BY <2>1, <2>2 DEF PauseInv, Shapes, IsConfig, IsOp, Down, SavedOpen, ConfigOpen, Keeps, Permits,
       Written, NeverReopened, Permitted
  <2>3. CASE config' = Default
    <3>1. IsConfig(Default) /\ ~Default.on /\ ~Default.paused  BY DEF IsConfig, Default
    <3>  QED
      BY <2>1, <2>3, <3>1 DEF PauseInv, Shapes, IsConfig, IsOp, Down, SavedOpen, ConfigOpen, Keeps,
         Permits, Written, NeverReopened, Permitted
  <2> QED  BY <1>1, <2>2, <2>3 DEF Boot
<1>2. CASE Tick
  BY <1>2, PauseReconcile DEF Tick, Free
<1>3. CASE Rebind
  BY <1>3, PauseReconcile DEF Rebind, PauseInv, Down
<1>4. CASE AskConfig
  <2>1. PICK on \in BOOLEAN, new \in BOOLEAN, b \in Bindings :
          LET pass == IF new THEN saved' ELSE config.pass IN
          Begin([on |-> on, bind |-> IF on THEN b ELSE config.bind, pass |-> pass, paused |-> FALSE],
                TRUE, "local")
    BY <1>4, Zenon DEF AskConfig
  <2> QED
    BY <1>4, <2>1, PauseAsk DEF AskConfig, settings, listener, IsConfig
<1>5. CASE AskReset
  <2>1. Begin([config EXCEPT !.pass = saved'], FALSE, "local") /\ IsConfig(config)
    BY <1>5 DEF AskReset, PauseInv, Shapes
  <2>2. UNCHANGED <<disk, up, config, problem, dirty, server, confirmed, forgot>>
    BY <1>5 DEF AskReset, settings, listener
  <2> QED  BY <2>1, <2>2, PauseAsk, NewPassword
<1>6. CASE Persist  BY <1>6, PausePersist
<1>7. CASE Swap  BY <1>7, PauseSwap
<1>8. CASE Close
  <2>1. UNCHANGED <<disk, config, problem, dirty, up, op, confirmed, forgot>> /\ server' = 0
    BY <1>8 DEF Close, Stop, settings, history
  <2> QED
    BY <2>1 DEF PauseInv, Shapes, IsConfig, IsOp, Down, SavedOpen, ConfigOpen, Keeps, Permits, Written,
       NeverReopened, Permitted
<1>9. CASE ServeFails
  <2>1. /\ UNCHANGED <<disk, config, dirty, up, op, confirmed, forgot>>
        /\ server' = 0 /\ problem' = "listen_failed"
    BY <1>9 DEF ServeFails
  <2> QED
    BY <2>1 DEF PauseInv, Shapes, IsConfig, IsOp, Down, SavedOpen, ConfigOpen, Keeps, Permits, Written,
       NeverReopened, Permitted
<1>10. CASE Exit
  BY <1>10 DEF Exit, PauseInv, Shapes, IsConfig, IsOp, Down, SavedOpen, ConfigOpen, Keeps, Permits,
     Written, NeverReopened, Permitted, Free, Default
<1>11. ASSUME NEW r \in Requests, Network(r) PROVE PauseInv'
  <2>1. CASE UNCHANGED PauseParts  BY <2>1, PauseSame
  <2>2. CASE ChangePassword(r) /\ ~UNCHANGED op
    <3>1. Begin([config EXCEPT !.pass = saved'], FALSE, r) /\ IsConfig(config)
      BY <2>2 DEF ChangePassword, PauseInv, Shapes
    <3>2. UNCHANGED <<disk, up, config, problem, dirty, server, confirmed, forgot>>
      BY <2>2 DEF ChangePassword, settings, listener
    <3> QED  BY <3>1, <3>2, PauseAsk, NewPassword
  <2> QED
    BY <1>11, <2>1, <2>2 DEF Network, Arrive, Auth, Answer, PasswordCheck, Login, Logout, ChangePassword,
       settings, listener, history, PauseParts
<1>12. CASE ExpireSessions \/ Move \/ (\E g \in unserved : Serve(g)) \/ UNCHANGED vars
            \/ (\E s \in sessions : Age(s))
  BY <1>12, PauseSame DEF ExpireSessions, Move, Serve, Age, vars, settings, listener, history, PauseParts
<1> QED
  BY <1>1, <1>2, <1>3, <1>4, <1>5, <1>6, <1>7, <1>8, <1>9, <1>10, <1>11, <1>12 DEF Next, Local

(***************************************************************************)
(* A listener that was paused because its network had gone is opened again *)
(* only after somebody has saved its binding anew, across restarts of the  *)
(* service too, unless the service died before the pause could be written. *)
(***************************************************************************)
THEOREM NeverReopenedAlways == Spec => []NeverReopened
<1>1. PauseInv => NeverReopened  BY DEF PauseInv
<1> QED  BY <1>1, PauseInit, PauseNext, PTL DEF Spec

-----------------------------------------------------------------------------
Ops == [phase : {"free", "persist", "swap", "reconcile"}, want : Config,
        rebind : BOOLEAN, by : Requests \cup {"local"}]
Settled ==
    /\ disk \in Config /\ config \in Config /\ up \in BOOLEAN /\ here \subseteq Bindings
    /\ problem \in {"none", "address_unavailable", "listen_failed", "configuration_invalid"}
    /\ op \in Ops
    /\ saved \in Nat /\ moved \in Nat /\ left \in Nat
Listening ==
    /\ gen \in Nat /\ unserved \subseteq 1..gen /\ server \in {0, gen}
    /\ port \subseteq [gen : 1..gen, bind : Bindings]
Sessions == [tok : 1..issued, pass : Nat, gen : Nat, aged : BOOLEAN]
People ==
    /\ issued \in Nat /\ sessions \subseteq Sessions
    /\ IsFiniteSet(sessions) /\ Cardinality(sessions) <= MaxSessions
    /\ req \in [Requests -> Request]

\* The type invariant is made of its parts.
LEMMA TypeParts == TypeOK <=> Settled /\ Listening /\ People
  BY DEF TypeOK, Settled, Listening, People, Sessions, Ops

\* Among any sessions one is the oldest.
Ordered == \A T \in SUBSET sessions : T # {} => \E t \in T : \A u \in T : t.tok <= u.tok

-----------------------------------------------------------------------------
(* What becomes of the settings.                                           *)

LEMMA FaultLeft == ASSUME left \in Nat, Fine \/ Fault PROVE left' \in Nat
<1>1. \A n \in Nat : n > 0 => n - 1 \in Nat
  OBVIOUS
<1> QED BY <1>1 DEF Fine, Fault

LEMMA DefaultIsConfig == Default \in Config /\ Free \in Ops
  BY DEF Default, Config, Free, Ops

LEMMA SettledReconcile ==
    ASSUME Settled, reconcile,
           UNCHANGED <<up, here, saved, moved>>, op' \in {op, Free}
    PROVE  Settled'
<1> USE DEF Settled
<1>1. op' \in Ops
  BY DefaultIsConfig
<1>2. left' \in Nat
  BY FaultLeft DEF reconcile, Pause, WritePause, Listen, RetryPause, NothingToDo, Fine
<1>3. disk' \in Config /\ config' \in Config
  <2>1. CASE Pause
    <3>1. config' \in Config
      BY <2>1 DEF Pause, Config
    <3> QED BY <2>1, <3>1 DEF Pause, WritePause
  <2>2. CASE Listen \/ RetryPause \/ NothingToDo
    BY <2>2 DEF Listen, RetryPause, NothingToDo, settings
  <2> QED BY <2>1, <2>2 DEF reconcile
<1>4. problem' \in {"none", "address_unavailable", "listen_failed", "configuration_invalid"}
  BY DEF reconcile, Pause, WritePause, Listen, RetryPause, NothingToDo, settings, Stop
<1> QED BY <1>1, <1>2, <1>3, <1>4

LEMMA SettledBegin ==
    ASSUME Settled, NEW want \in Config, NEW rebind \in BOOLEAN,
           NEW by \in Requests \cup {"local"}, Begin(want, rebind, by)
    PROVE  op' \in Ops
  BY DEF Begin, Ops

LEMMA SettledNext == Settled /\ Listening /\ [Next]_vars => Settled'
<1> SUFFICES ASSUME Settled, [Next]_vars PROVE Settled'
  OBVIOUS
<1>1. CASE Boot
  BY <1>1, FaultLeft, DefaultIsConfig DEF Boot, Settled
<1>2. CASE Tick
  BY <1>2, SettledReconcile DEF Tick
<1>3. CASE Rebind
  BY <1>3, SettledReconcile DEF Rebind
<1>4. CASE AskConfig
  <2>1. saved' \in Nat
    BY <1>4 DEF AskConfig, Settled
  <2>2. PICK on \in BOOLEAN, new \in BOOLEAN, b \in Bindings :
          LET pass == IF new THEN saved' ELSE config.pass IN
          Begin([on |-> on, bind |-> IF on THEN b ELSE config.bind, pass |-> pass,
                 paused |-> FALSE], TRUE, "local")
    BY <1>4, Zenon DEF AskConfig
  <2>3. [on |-> on, bind |-> IF on THEN b ELSE config.bind,
         pass |-> IF new THEN saved' ELSE config.pass, paused |-> FALSE] \in Config
    BY <2>1 DEF Config, Settled
  <2>4. op' \in Ops
    BY <2>2, <2>3, SettledBegin
  <2> QED BY <1>4, <2>1, <2>4 DEF AskConfig, Settled, settings
<1>5. CASE AskReset
  <2>1. saved' \in Nat
    BY <1>5 DEF AskReset, Settled
  <2>2. [config EXCEPT !.pass = saved'] \in Config
    BY <2>1 DEF Config, Settled
  <2>3. op' \in Ops
    BY <1>5, <2>2, SettledBegin DEF AskReset
  <2> QED BY <1>5, <2>1, <2>3 DEF AskReset, Settled, settings
<1>6. CASE Persist
  <2>1. op' \in Ops
    BY <1>6, DefaultIsConfig DEF Persist, Settled, Release, Ops
  <2> QED BY <1>6, <2>1, FaultLeft DEF Persist, Settled, Ops
<1>7. CASE Swap
  <2>1. op' \in Ops
    BY <1>7, DefaultIsConfig DEF Swap, Settled, Release, Ops
  <2> QED BY <1>7, <2>1 DEF Swap, Settled, Ops, history
<1>8. CASE ServeFails
  BY <1>8, FaultLeft DEF ServeFails, Settled
<1>9. CASE Exit
  BY <1>9, FaultLeft, DefaultIsConfig DEF Exit, Settled
<1>10. CASE Move
  BY <1>10 DEF Move, Settled, settings
<1>11. CASE Close \/ ExpireSessions
  BY <1>11 DEF Close, ExpireSessions, Settled, settings, history
<1>12. ASSUME NEW r \in Requests, Network(r) PROVE Settled'
  <2>1. CASE ChangePassword(r) /\ ~UNCHANGED <<saved, op>>
    <3>1. /\ saved' = saved + 1 /\ Begin([config EXCEPT !.pass = saved'], FALSE, r)
          /\ UNCHANGED <<settings, up, here, moved, left>>
      BY <2>1 DEF ChangePassword
    <3>2. [config EXCEPT !.pass = saved'] \in Config /\ saved' \in Nat
      BY <3>1 DEF Config, Settled
    <3>3. op' \in Ops
      BY <3>1, <3>2, SettledBegin
    <3> QED BY <3>1, <3>2, <3>3 DEF Settled, settings
  <2>2. CASE UNCHANGED <<settings, up, here, op, saved, moved, left>>
    BY <2>2 DEF Settled, settings
  <2>3. CASE Arrive(r) \/ Auth(r) \/ Answer(r)
    BY <2>2, <2>3 DEF Arrive, Auth, Answer, history
  <2>4. CASE PasswordCheck(r) \/ Login(r) \/ Logout(r)
    BY <2>2, <2>4 DEF PasswordCheck, Login, Logout, history
  <2>5. CASE ChangePassword(r)
    BY <2>1, <2>2, <2>5 DEF ChangePassword
  <2> QED BY <1>12, <2>3, <2>4, <2>5 DEF Network
<1>13. CASE (\E g \in unserved : Serve(g)) \/ UNCHANGED vars \/ (\E s \in sessions : Age(s))
  BY <1>13 DEF Serve, Age, vars, settings, history, Settled
<1> QED
  BY <1>1, <1>2, <1>3, <1>4, <1>5, <1>6, <1>7, <1>8, <1>9, <1>10, <1>11, <1>12, <1>13
     DEF Next, Local

-----------------------------------------------------------------------------
(* What becomes of the listener.                                           *)

LEMMA ListeningStop == Listening /\ Stop => Listening'
  BY DEF Listening, Stop

LEMMA ListeningReconcile == ASSUME Settled, Listening, reconcile PROVE Listening'
<1>1. CASE UNCHANGED listener
  BY <1>1 DEF Listening, listener
<1>2. CASE Pause
  BY <1>2, ListeningStop DEF Pause
<1>3. CASE Listen /\ ~UNCHANGED listener
  <2>1. /\ gen' = gen + 1 /\ server' = gen + 1 /\ unserved' = unserved \cup {gen + 1}
        /\ port' = port \cup {[gen |-> gen + 1, bind |-> config.bind]}
        /\ config.bind \in Bindings
    BY <1>3 DEF Listen, Settled
  <2>2. gen \in Nat /\ 1..gen \subseteq 1..(gen + 1) /\ gen + 1 \in 1..(gen + 1)
    BY DEF Listening
  <2>3. port' \subseteq [gen : 1..(gen + 1), bind : Bindings]
    BY <2>1, <2>2 DEF Listening
  <2> QED BY <2>1, <2>2, <2>3 DEF Listening
<1> QED BY <1>1, <1>2, <1>3 DEF reconcile, RetryPause, NothingToDo, Listen

LEMMA ListeningNext == ASSUME Settled, Listening, [Next]_vars PROVE Listening'
<1>1. CASE UNCHANGED listener
  BY <1>1 DEF Listening, listener
<1>2. CASE Stop
  BY <1>2, ListeningStop
<1>3. CASE Tick \/ Rebind
  BY <1>3, ListeningReconcile DEF Tick, Rebind
<1>4. CASE \E g \in unserved : Serve(g)
  BY <1>4 DEF Serve, Listening
<1>5. CASE ServeFails
  BY <1>5 DEF ServeFails, Listening
<1>6. CASE Exit
  BY <1>6 DEF Exit, Listening
<1>7. CASE UNCHANGED vars \/ Boot \/ ExpireSessions \/ AskConfig \/ AskReset \/ Persist \/ Move
           \/ (\E s \in sessions : Age(s))
  BY <1>1, <1>7 DEF vars, Boot, ExpireSessions, AskConfig, AskReset, Persist, Move, Age, listener
<1>8. CASE \E r \in Requests : Network(r)
  BY <1>1, <1>8 DEF Network, Arrive, Auth, Answer, PasswordCheck, Login, Logout, ChangePassword,
     listener
<1>9. CASE Swap \/ Close
  BY <1>1, <1>2, <1>9 DEF Swap, Close, listener
<1> QED
  BY <1>3, <1>4, <1>5, <1>6, <1>7, <1>8, <1>9 DEF Next, Local

-----------------------------------------------------------------------------
(* What becomes of the sessions and the requests.                          *)

LEMMA IdleIsRequest == Idle \in Request /\ Idle.phase = "none"
  BY DEF Idle, Request

LEMMA CutIs ==
    ASSUME NEW gone, NEW r \in Requests
    PROVE  Cut(gone)[r] = IF req[r].phase = "reading" /\ req[r].tok \in gone THEN Idle ELSE req[r]
  BY DEF Cut

LEMMA CutType ==
    ASSUME req \in [Requests -> Request], NEW gone
    PROVE  Cut(gone) \in [Requests -> Request]
  BY IdleIsRequest DEF Cut

\* Fewer sessions are not more than before.
LEMMA Fewer ==
    ASSUME People, NEW T \in SUBSET sessions
    PROVE  /\ IsFiniteSet(T) /\ Cardinality(T) <= MaxSessions /\ T \subseteq Sessions
           /\ Cardinality(T) \in Nat
<1>1. /\ IsFiniteSet(T) /\ Cardinality(T) <= Cardinality(sessions)
      /\ Cardinality(T) \in Nat /\ Cardinality(sessions) \in Nat
  BY FS_Subset, FS_CardinalityType DEF People
<1>2. MaxSessions \in Nat
  BY LanAssumption
<1> QED BY <1>1, <1>2 DEF People

LEMMA PeopleFewer ==
    ASSUME People, NEW T \in SUBSET sessions, sessions' = T, UNCHANGED issued,
           req' \in [Requests -> Request]
    PROVE  People'
  BY Fewer DEF People, Sessions

\* A login makes room for itself.
LEMMA Room ==
    ASSUME People, Ordered, NEW T \in SUBSET sessions, NEW keep \in SUBSET T,
           Cardinality(T) >= MaxSessions => \A s \in keep : s.tok \notin Oldest(T)
    PROVE  IsFiniteSet(keep) /\ Cardinality(keep) + 1 <= MaxSessions
<1>1. /\ IsFiniteSet(keep) /\ IsFiniteSet(T)
      /\ Cardinality(keep) \in Nat /\ Cardinality(T) \in Nat
      /\ Cardinality(T) <= MaxSessions /\ MaxSessions \in Nat \ {0}
  BY Fewer, LanAssumption
<1>2. CASE Cardinality(T) < MaxSessions
  <2>1. Cardinality(keep) <= Cardinality(T)
    BY <1>1, FS_Subset
  <2> QED BY <1>1, <1>2, <2>1
<1>3. CASE Cardinality(T) >= MaxSessions
  <2>1. Cardinality(T) # 0
    BY <1>1, <1>3
  <2>2. T # {}
    BY <2>1, FS_EmptySet
  <2>3. PICK t \in T : \A u \in T : t.tok <= u.tok
    BY <2>2 DEF Ordered
  <2>4. t.tok \in Oldest(T)
    BY <2>3 DEF Oldest
  <2>5. keep \subseteq T \ {t}
    BY <1>3, <2>4
  <2>6. /\ IsFiniteSet(T \ {t})
        /\ Cardinality(T \ {t}) = IF t \in T THEN Cardinality(T) - 1 ELSE Cardinality(T)
    BY ONLY <1>1, FS_RemoveElement
  <2>7. Cardinality(T \ {t}) = Cardinality(T) - 1
    BY <2>3, <2>6
  <2>8. Cardinality(keep) <= Cardinality(T \ {t})
    BY <2>5, <2>6, FS_Subset
  <2> QED BY <1>1, <2>7, <2>8
<1> QED BY <1>1, <1>2, <1>3

\* The sessions that a step keeps, and the one it may open.
LEMMA PeopleLogin ==
    ASSUME People, Ordered, NEW r \in Requests, Login(r)
    PROVE  People' /\ Ordered'
<1> DEFINE q == req[r]
           rest == Without(Aged \cup {q.tok})
           gone == Aged \cup {q.tok} \cup (IF Cardinality(rest) >= MaxSessions THEN Oldest(rest) ELSE {})
           new == [tok |-> issued + 1, pass |-> q.seen, gen |-> q.gen, aged |-> FALSE]
<1>1. q \in Request /\ req \in [Requests -> Request] /\ issued \in Nat
  BY DEF People
<1>2. CASE Accepted(q)
  <2>1. /\ issued' = issued + 1 /\ sessions' = Without(gone) \cup {new}
        /\ req' = [Cut(gone) EXCEPT ![r] = Idle]
    BY <1>2 DEF Login
  <2>2. rest \subseteq sessions /\ Without(gone) \subseteq rest
    BY DEF Without
  <2>3. Cardinality(rest) >= MaxSessions => \A s \in Without(gone) : s.tok \notin Oldest(rest)
    BY DEF Without
  <2> HIDE DEF rest, gone
  <2>4. IsFiniteSet(Without(gone)) /\ Cardinality(Without(gone)) + 1 <= MaxSessions
    BY <2>2, <2>3, Room
  <2>5. /\ IsFiniteSet(Without(gone) \cup {new})
        /\ Cardinality(Without(gone) \cup {new}) =
             IF new \in Without(gone) THEN Cardinality(Without(gone)) ELSE Cardinality(Without(gone)) + 1
    BY <2>4, FS_AddElement
  <2>6. Cardinality(Without(gone)) \in Nat /\ MaxSessions \in Nat
    BY <2>4, FS_CardinalityType, LanAssumption
  <2>7. Cardinality(sessions') <= MaxSessions
    BY <2>1, <2>4, <2>5, <2>6
  <2>8. req' \in [Requests -> Request]
    BY <1>1, <2>1, CutType, IdleIsRequest
  <2>9. new \in [tok : 1..(issued + 1), pass : Nat, gen : Nat, aged : BOOLEAN]
    BY <1>1 DEF Request
  <2>10. sessions \subseteq [tok : 1..(issued + 1), pass : Nat, gen : Nat, aged : BOOLEAN]
    BY <1>1 DEF People, Sessions
  <2>11. sessions' \subseteq Sessions'
    BY <2>1, <2>2, <2>9, <2>10 DEF Sessions
  <2>12. People'
    BY <1>1, <2>1, <2>5, <2>7, <2>8, <2>11 DEF People
  <2>13. ASSUME NEW T \in SUBSET sessions', T # {}
         PROVE  \E t \in T : \A u \in T : t.tok <= u.tok
    <3>1. \A u \in sessions : u.tok \in Nat /\ u.tok <= issued + 1
      BY <1>1 DEF People, Sessions
    <3>2. T \ {new} \subseteq sessions
      BY <2>1, <2>2
    <3>3. CASE T \ {new} = {}
      <4>1. T = {new}
        BY <2>13, <3>3
      <4>2. new.tok <= new.tok
        BY <1>1
      <4> QED BY <4>1, <4>2
    <3>4. CASE T \ {new} # {}
      <4>1. PICK t \in T \ {new} : \A u \in T \ {new} : t.tok <= u.tok
        BY <3>2, <3>4 DEF Ordered
      <4>2. t.tok <= new.tok
        BY <3>1, <3>2, <4>1
      <4> QED BY <4>1, <4>2
    <3> QED BY <3>3, <3>4
  <2> QED BY <2>12, <2>13 DEF Ordered
<1>3. CASE ~Accepted(q)
  <2>1. UNCHANGED <<issued, sessions>> /\ req' = [req EXCEPT ![r] = Idle]
    BY <1>3 DEF Login
  <2>2. req' \in [Requests -> Request]
    BY <1>1, <2>1, IdleIsRequest
  <2> QED BY <2>1, <2>2, PeopleFewer DEF Ordered
<1> QED BY <1>2, <1>3

\* A session grows old and stays where it is.
LEMMA PeopleAge ==
    ASSUME People, Ordered, NEW s \in sessions, Age(s)
    PROVE  People' /\ Ordered'
<1> DEFINE new == [s EXCEPT !.aged = TRUE]
<1>1. /\ sessions' = (sessions \ {s}) \cup {new} /\ UNCHANGED <<issued, req>>
      /\ s \in Sessions
  BY DEF Age, history, People
<1>2. new \in Sessions /\ new.tok = s.tok
  BY <1>1 DEF Sessions
<1> HIDE DEF new
<1>3. /\ IsFiniteSet(sessions \ {s}) /\ Cardinality(sessions \ {s}) = Cardinality(sessions) - 1
  BY FS_RemoveElement DEF People
<1>4. /\ IsFiniteSet(sessions')
      /\ Cardinality(sessions') = IF new \in sessions \ {s} THEN Cardinality(sessions \ {s})
                                  ELSE Cardinality(sessions \ {s}) + 1
  BY <1>1, <1>3, FS_AddElement
<1>5. /\ Cardinality(sessions) \in Nat /\ MaxSessions \in Nat
  BY FS_CardinalityType, LanAssumption DEF People
<1>6. People'
  BY <1>1, <1>2, <1>3, <1>4, <1>5 DEF People, Sessions
<1>7. ASSUME NEW T \in SUBSET sessions', T # {}
      PROVE  \E t \in T : \A u \in T : t.tok <= u.tok
  <2>1. CASE new \notin T
    BY <1>1, <1>7, <2>1 DEF Ordered
  <2>2. CASE new \in T
    <3> DEFINE old == (T \ {new}) \cup {s}
    <3>1. old \in SUBSET sessions /\ old # {}
      BY <1>1
    <3>2. PICK t \in old : \A u \in old : t.tok <= u.tok
      BY <3>1 DEF Ordered
    <3>3. CASE t = s
      BY <1>2, <2>2, <3>2, <3>3
    <3>4. CASE t # s
      <4>1. t \in T
        BY <3>2, <3>4
      <4>2. t.tok <= new.tok
        BY <1>2, <3>2
      <4> QED BY <3>2, <4>1, <4>2
    <3> QED BY <3>3, <3>4
  <2> QED BY <2>1, <2>2
<1> QED BY <1>6, <1>7 DEF Ordered

\* A step that opens no session.
LEMMA OrderedFewer ==
    ASSUME Ordered, NEW T \in SUBSET sessions, sessions' = T
    PROVE  Ordered'
  BY DEF Ordered

LEMMA PeopleSame == People /\ Ordered /\ UNCHANGED <<issued, sessions, req>> => People' /\ Ordered'
  BY DEF People, Ordered, Sessions

LEMMA PeopleRevoke ==
    ASSUME People, Ordered, NEW gone, Revoke(gone), UNCHANGED issued
    PROVE  People' /\ Ordered'
<1>1. Without(gone) \in SUBSET sessions
  BY DEF Without
<1>2. Cut(gone) \in [Requests -> Request]
  BY CutType DEF People
<1> QED BY <1>1, <1>2, PeopleFewer, OrderedFewer DEF Revoke

LEMMA PeopleStop == People /\ Ordered /\ Stop /\ UNCHANGED issued => People' /\ Ordered'
  BY PeopleRevoke DEF Stop

LEMMA PeopleReconcile ==
    ASSUME People, Ordered, reconcile, UNCHANGED issued
    PROVE  People' /\ Ordered'
<1>1. CASE Pause
  BY <1>1, PeopleStop DEF Pause
<1>2. CASE Listen \/ RetryPause \/ NothingToDo
  BY <1>2, PeopleSame DEF Listen, RetryPause, NothingToDo
<1> QED BY <1>1, <1>2 DEF reconcile

\* A request that goes on keeps its type.
LEMMA PeopleAuth ==
    ASSUME People, Ordered, NEW r \in Requests, Auth(r)
    PROVE  People' /\ Ordered'
<1>1. Without(Aged) \in SUBSET sessions
  BY DEF Without
<1>2. Cut(Aged) \in [Requests -> Request] /\ req[r] \in Request
  BY CutType DEF People
<1>3. /\ [req[r] EXCEPT !.phase = "reading"] \in Request
      /\ [req[r] EXCEPT !.phase = "authentic"] \in Request
  BY <1>2 DEF Request
<1>4. req' \in [Requests -> Request]
  BY <1>2, <1>3, IdleIsRequest DEF Auth
<1>5. sessions' = Without(Aged) /\ UNCHANGED issued
  BY DEF Auth, history
<1> QED BY <1>1, <1>4, <1>5, PeopleFewer, OrderedFewer

LEMMA PeopleChange ==
    ASSUME People, Ordered, NEW r \in Requests, ChangePassword(r)
    PROVE  People' /\ Ordered'
<1>1. Without(Aged) \in SUBSET sessions
  BY DEF Without
<1>2. Cut(Aged) \in [Requests -> Request]
  BY CutType DEF People
<1>3. req' \in {[Cut(Aged) EXCEPT ![r].phase = "changing"], [Cut(Aged) EXCEPT ![r] = Idle]}
  BY DEF ChangePassword
<1>4. req' \in [Requests -> Request]
  BY <1>2, <1>3, IdleIsRequest DEF Request
<1>5. sessions' = Without(Aged) /\ UNCHANGED issued
  BY DEF ChangePassword
<1> QED BY <1>1, <1>4, <1>5, PeopleFewer, OrderedFewer

LEMMA PeopleArrive ==
    ASSUME People, Listening, NEW r \in Requests, Arrive(r)
    PROVE  req' \in [Requests -> Request] /\ UNCHANGED <<sessions, issued>>
<1>1. PICK kind \in {"login", "read", "write", "change", "logout"}, tok \in Tokens \cup {0},
           right \in BOOLEAN :
        req' = [req EXCEPT ![r] = [Idle EXCEPT !.kind = kind, !.phase = "admitted",
                                               !.gen = server, !.tok = tok, !.right = right]]
  BY ZenonT(60) DEF Arrive
<1>2. tok \in Nat /\ server \in Nat
  BY DEF Tokens, People, Sessions, Listening
<1>3. [Idle EXCEPT !.kind = kind, !.phase = "admitted", !.gen = server, !.tok = tok,
                   !.right = right] \in Request
  BY <1>2 DEF Idle, Request
<1> QED BY <1>1, <1>3 DEF Arrive, People, history

LEMMA PeopleNetwork ==
    ASSUME Settled, Listening, People, Ordered, NEW r \in Requests, Network(r)
    PROVE  People' /\ Ordered'
<1>1. CASE Arrive(r)
  BY <1>1, PeopleArrive, PeopleFewer, OrderedFewer
<1>2. CASE Auth(r)
  BY <1>2, PeopleAuth
<1>3. CASE Answer(r)
  BY <1>3, IdleIsRequest, PeopleFewer, OrderedFewer DEF Answer, People, history
<1>4. CASE PasswordCheck(r)
  <2>1. req[r] \in Request /\ config.pass \in Nat
    BY DEF People, Settled, Config
  <2>2. ASSUME NEW phase \in {"hashing", "waiting"}
        PROVE  [req[r] EXCEPT !.phase = phase, !.seen = config.pass] \in Request
    BY <2>1 DEF Request
  <2>3. /\ UNCHANGED <<sessions, issued>>
        /\ \/ req' = [req EXCEPT ![r] = Idle]
           \/ \E phase \in {"hashing", "waiting"} :
                req' = [req EXCEPT ![r] = [req[r] EXCEPT !.phase = phase, !.seen = config.pass]]
    BY <1>4 DEF PasswordCheck, history
  <2>4. req' \in [Requests -> Request]
    BY <2>2, <2>3, IdleIsRequest DEF People
  <2> QED BY <2>3, <2>4, PeopleFewer, OrderedFewer
<1>5. CASE Login(r)
  BY <1>5, PeopleLogin
<1>6. CASE Logout(r)
  <2>1. /\ sessions' = Without({req[r].tok}) /\ req' = [Cut({req[r].tok}) EXCEPT ![r] = Idle]
        /\ UNCHANGED issued
    BY <1>6 DEF Logout, history
  <2>2. Without({req[r].tok}) \in SUBSET sessions
    BY DEF Without
  <2>3. req' \in [Requests -> Request]
    BY <2>1, CutType, IdleIsRequest DEF People
  <2> QED BY <2>1, <2>2, <2>3, PeopleFewer, OrderedFewer
<1>7. CASE ChangePassword(r)
  BY <1>7, PeopleChange
<1> QED BY <1>1, <1>2, <1>3, <1>4, <1>5, <1>6, <1>7 DEF Network

LEMMA PeopleNext ==
    ASSUME Settled, Listening, People, Ordered, [Next]_vars
    PROVE  People' /\ Ordered'
<1>1. CASE UNCHANGED <<issued, sessions, req>>
  BY <1>1, PeopleSame
<1>2. CASE Tick \/ Rebind
  BY <1>2, PeopleReconcile DEF Tick, Rebind
<1>3. CASE Close
  BY <1>3, PeopleStop DEF Close, history
<1>4. CASE ServeFails
  BY <1>4, PeopleRevoke DEF ServeFails
<1>5. CASE ExpireSessions
  BY <1>5, PeopleRevoke DEF ExpireSessions, history
<1>6. CASE Exit
  <2>1. {} \in SUBSET sessions
    OBVIOUS
  <2>2. [r \in Requests |-> Idle] \in [Requests -> Request]
    BY IdleIsRequest
  <2> QED BY <1>6, <2>1, <2>2, PeopleFewer, OrderedFewer DEF Exit
<1>7. CASE Swap
  <2>1. CASE Stop
    BY <1>7, <2>1, PeopleStop DEF Swap, history
  <2>2. CASE sessions' = {} /\ Release(Cut(Tokens))
    <3>1. {} \in SUBSET sessions
      OBVIOUS
    <3>2. req' \in [Requests -> Request]
      BY <2>2, CutType, IdleIsRequest DEF Release, People
    <3>3. UNCHANGED issued
      BY <1>7 DEF Swap, history
    <3> QED BY <2>2, <3>1, <3>2, <3>3, PeopleFewer, OrderedFewer
  <2> QED BY <1>7, <2>1, <2>2 DEF Swap
<1>8. CASE Persist
  <2>1. UNCHANGED <<sessions, issued>> /\ (UNCHANGED req \/ Release(req))
    BY <1>8 DEF Persist
  <2>2. req' \in [Requests -> Request]
    BY <2>1, IdleIsRequest DEF Release, People
  <2> QED BY <2>1, <2>2, PeopleFewer, OrderedFewer
<1>9. CASE \E r \in Requests : Network(r)
  BY <1>9, PeopleNetwork
<1>10. CASE \E s \in sessions : Age(s)
  BY <1>10, PeopleAge
<1>11. CASE UNCHANGED vars \/ Boot \/ AskConfig \/ AskReset \/ Move \/ (\E g \in unserved : Serve(g))
  BY <1>1, <1>11 DEF vars, people, history, Boot, AskConfig, AskReset, Move, Serve
<1> QED
  BY <1>2, <1>3, <1>4, <1>5, <1>6, <1>7, <1>8, <1>9, <1>10, <1>11 DEF Next, Local

-----------------------------------------------------------------------------
(* What becomes of a request that is under way.                            *)

Reads == \A r \in Requests : req[r].phase = "reading" => req[r].tok \in Tokens

Continues == \A r \in Requests : req'[r].phase # "none" =>
                 req[r].phase # "none" /\ req'[r].gen = req[r].gen

\* A read that is not cut has its session.
LEMMA ReadsKept ==
    ASSUME Reads, NEW gone, Without(gone) \subseteq sessions',
           \A r \in Requests : req'[r].phase = "reading" => req'[r] = Cut(gone)[r]
    PROVE  Reads'
<1> SUFFICES ASSUME NEW r \in Requests, req'[r].phase = "reading"
             PROVE  req'[r].tok \in Tokens'
  BY DEF Reads
<1>1. req'[r] = req[r] /\ req[r].tok \notin gone
  BY CutIs, IdleIsRequest
<1>2. PICK s \in sessions : s.tok = req[r].tok
  BY <1>1 DEF Reads, Tokens
<1>3. s \in sessions'
  BY <1>1, <1>2 DEF Without
<1> QED BY <1>1, <1>2, <1>3 DEF Tokens

LEMMA CutContinues ==
    ASSUME NEW gone, \A r \in Requests : req'[r] \in {Idle, Cut(gone)[r]}
    PROVE  Continues
  BY CutIs, IdleIsRequest DEF Continues

LEMMA RevokeReads ==
    ASSUME Reads, NEW gone, Revoke(gone)
    PROVE  Reads' /\ Continues
<1>1. Without(gone) \subseteq sessions' /\ req' = Cut(gone)
  BY DEF Revoke
<1> QED BY <1>1, ReadsKept, CutContinues

LEMMA StopReads == Reads /\ Stop => Reads' /\ Continues
  BY RevokeReads DEF Stop

LEMMA SameReads == Reads /\ UNCHANGED <<sessions, req>> => Reads' /\ Continues
  BY DEF Reads, Continues, Tokens

LEMMA ReconcileReads == Reads /\ reconcile => Reads' /\ Continues
  BY StopReads, SameReads DEF reconcile, Pause, Listen, RetryPause, NothingToDo

LEMMA IdleReads ==
    ASSUME Reads, sessions' = sessions, \A r \in Requests : req'[r] \in {Idle, req[r]}
    PROVE  Reads' /\ Continues
  BY IdleIsRequest DEF Reads, Continues, Tokens

LEMMA AuthReads ==
    ASSUME People, Reads, NEW r \in Requests, Auth(r)
    PROVE  Reads' /\ Continues
<1>1. /\ sessions' = Without(Aged) /\ req[r].phase = "admitted" /\ req[r] \in Request
      /\ Cut(Aged) \in [Requests -> Request]
  BY CutType DEF Auth, People
<1>2. /\ req'[r] = IF ~Authentic(req[r]) \/ req[r].kind = "write" THEN Idle
                   ELSE [req[r] EXCEPT !.phase = IF req[r].kind = "read" THEN "reading"
                                                 ELSE "authentic"]
      /\ \A t \in Requests \ {r} : req'[t] = Cut(Aged)[t]
  BY <1>1 DEF Auth
<1>3. Continues
  BY <1>1, <1>2, CutIs, IdleIsRequest DEF Continues, Request
<1>4. ASSUME NEW t \in Requests, req'[t].phase = "reading"
      PROVE  req'[t].tok \in Tokens'
  <2>1. CASE t = r
    <3>1. Authentic(req[r]) /\ req'[r].tok = req[r].tok
      BY <1>1, <1>2, <1>4, <2>1, IdleIsRequest DEF Request
    <3>2. PICK s \in sessions : s.tok = req[r].tok /\ s.tok \notin Aged
      BY <3>1 DEF Authentic, Tokens
    <3>3. s \in sessions'
      BY <1>1, <3>2 DEF Without
    <3> QED BY <2>1, <3>1, <3>2, <3>3 DEF Tokens
  <2>2. CASE t # r
    <3>1. req'[t] = req[t] /\ req[t].tok \notin Aged
      BY <1>2, <1>4, <2>2, CutIs, IdleIsRequest
    <3>2. PICK s \in sessions : s.tok = req[t].tok
      BY <1>4, <3>1 DEF Reads, Tokens
    <3>3. s \in sessions'
      BY <1>1, <3>1, <3>2 DEF Without
    <3> QED BY <3>1, <3>2, <3>3 DEF Tokens
  <2> QED BY <2>1, <2>2
<1> QED BY <1>3, <1>4 DEF Reads

LEMMA CheckReads ==
    ASSUME People, Reads, NEW r \in Requests, PasswordCheck(r)
    PROVE  Reads' /\ Continues
<1> DEFINE phase == IF req[r].kind = "login" THEN "hashing" ELSE "waiting"
           slot == [req[r] EXCEPT !.phase = phase, !.seen = config.pass]
<1>1. /\ req[r].phase # "none" /\ req[r] \in Request /\ UNCHANGED sessions
      /\ req' \in {[req EXCEPT ![r] = Idle], [req EXCEPT ![r] = slot]}
  BY DEF PasswordCheck, People
<1>2. slot.phase # "reading" /\ slot.gen = req[r].gen
  BY <1>1 DEF Request
<1> HIDE DEF slot
<1>3. req'[r] \in {Idle, slot} /\ \A t \in Requests \ {r} : req'[t] = req[t]
  BY <1>1 DEF People
<1> QED BY <1>1, <1>2, <1>3, IdleIsRequest DEF Reads, Continues, Tokens

LEMMA LoginReads ==
    ASSUME People, Reads, NEW r \in Requests, Login(r)
    PROVE  Reads' /\ Continues
<1>1. CASE ~Accepted(req[r])
  <2>1. UNCHANGED sessions /\ req' = [req EXCEPT ![r] = Idle]
    BY <1>1 DEF Login
  <2>2. \A t \in Requests : req'[t] \in {Idle, req[t]}
    BY <2>1 DEF People
  <2> QED BY <2>1, <2>2, IdleReads
<1>2. CASE Accepted(req[r])
  <2>1. PICK gone : /\ Without(gone) \subseteq sessions'
                    /\ req' = [Cut(gone) EXCEPT ![r] = Idle]
    BY <1>2 DEF Login
  <2>2. \A t \in Requests : req'[t] = IF t = r THEN Idle ELSE Cut(gone)[t]
    BY <2>1, CutType DEF People
  <2>3. Reads'
    BY <2>1, <2>2, ReadsKept, IdleIsRequest
  <2> QED BY <2>2, <2>3, CutContinues
<1> QED BY <1>1, <1>2

LEMMA ChangeReads ==
    ASSUME People, Reads, NEW r \in Requests, ChangePassword(r)
    PROVE  Reads' /\ Continues
<1>1. /\ sessions' = Without(Aged) /\ req[r].phase = "waiting" /\ req[r] \in Request
      /\ Cut(Aged) \in [Requests -> Request]
      /\ req' \in {[Cut(Aged) EXCEPT ![r].phase = "changing"], [Cut(Aged) EXCEPT ![r] = Idle]}
  BY CutType DEF ChangePassword, People
<1>2. Cut(Aged)[r] = req[r]
  BY <1>1, CutIs
<1>3. /\ req'[r] \in {Idle, [req[r] EXCEPT !.phase = "changing"]}
      /\ \A t \in Requests \ {r} : req'[t] = Cut(Aged)[t]
  BY <1>1, <1>2
<1>4. req'[r].phase # "reading" /\ (req'[r].phase # "none" => req'[r].gen = req[r].gen)
  BY <1>1, <1>3, IdleIsRequest DEF Request
<1>5. Continues
  BY <1>1, <1>3, <1>4, CutIs, IdleIsRequest DEF Continues
<1>6. Reads'
  BY <1>1, <1>3, <1>4, ReadsKept
<1> QED BY <1>5, <1>6

LEMMA ArriveReads ==
    ASSUME People, Listening, Reads, NEW r \in Requests, Arrive(r)
    PROVE  /\ Reads' /\ req'[r].gen = server /\ server # 0
           /\ \A t \in Requests \ {r} : req'[t] = req[t]
<1>1. PICK kind \in {"login", "read", "write", "change", "logout"}, tok \in Tokens \cup {0},
           right \in BOOLEAN :
        req' = [req EXCEPT ![r] = [Idle EXCEPT !.kind = kind, !.phase = "admitted",
                                               !.gen = server, !.tok = tok, !.right = right]]
  BY ZenonT(60) DEF Arrive
<1>2. /\ [Idle EXCEPT !.kind = kind, !.phase = "admitted", !.gen = server, !.tok = tok,
                      !.right = right].phase = "admitted"
      /\ [Idle EXCEPT !.kind = kind, !.phase = "admitted", !.gen = server, !.tok = tok,
                      !.right = right].gen = server
  BY DEF Idle
<1>3. /\ req'[r].phase = "admitted" /\ req'[r].gen = server
      /\ \A t \in Requests \ {r} : req'[t] = req[t]
  BY <1>1, <1>2 DEF People
<1> QED BY <1>3 DEF Arrive, Reads, Tokens

LEMMA ReadsNext ==
    ASSUME Listening, People, Reads, [Next]_vars
    PROVE  Reads' /\ (Continues \/ \E r \in Requests : Arrive(r))
<1>1. CASE Tick \/ Rebind
  BY <1>1, ReconcileReads DEF Tick, Rebind
<1>2. CASE Close
  BY <1>2, StopReads DEF Close
<1>3. CASE ServeFails \/ ExpireSessions
  BY <1>3, RevokeReads DEF ServeFails, ExpireSessions
<1>4. CASE Exit
  BY <1>4, IdleIsRequest DEF Exit, Reads, Continues
<1>5. CASE Swap
  <2>1. CASE Stop
    BY <2>1, StopReads
  <2>2. CASE sessions' = {} /\ Release(Cut(Tokens))
    <3>1. \A r \in Requests : req'[r] \in {Idle, Cut(Tokens)[r]}
      BY <2>2 DEF Release
    <3>2. \A r \in Requests : req'[r].phase # "reading"
      BY <3>1, CutIs, IdleIsRequest DEF Reads
    <3> QED BY <3>1, <3>2, CutContinues DEF Reads
  <2> QED BY <1>5, <2>1, <2>2 DEF Swap
<1>6. CASE Persist
  <2>1. UNCHANGED sessions /\ (UNCHANGED req \/ Release(req))
    BY <1>6 DEF Persist
  <2>2. \A r \in Requests : req'[r] \in {Idle, req[r]}
    BY <2>1 DEF Release
  <2> QED BY <2>1, <2>2, IdleReads
<1>7. ASSUME NEW r \in Requests, Network(r)
      PROVE  Reads' /\ (Continues \/ \E t \in Requests : Arrive(t))
  <2>1. CASE Answer(r)
    BY <2>1, IdleReads DEF Answer, People
  <2>2. CASE Logout(r)
    <3>1. /\ sessions' = Without({req[r].tok})
          /\ \A t \in Requests : req'[t] = IF t = r THEN Idle ELSE Cut({req[r].tok})[t]
      BY <2>2, CutType DEF Logout, People
    <3> QED BY <3>1, ReadsKept, CutContinues, IdleIsRequest
  <2> QED BY <1>7, <2>1, <2>2, ArriveReads, AuthReads, CheckReads, LoginReads, ChangeReads DEF Network
<1>8. CASE \E s \in sessions : Age(s)
  <2>1. PICK s \in sessions : Age(s)
    BY <1>8
  <2>2. /\ sessions' = (sessions \ {s}) \cup {[s EXCEPT !.aged = TRUE]} /\ UNCHANGED req
        /\ [s EXCEPT !.aged = TRUE].tok = s.tok
    BY <2>1 DEF Age, People, Sessions
  <2>3. Tokens \subseteq Tokens'
    BY <2>2 DEF Tokens
  <2> QED BY <2>2, <2>3 DEF Reads, Continues
<1>9. CASE UNCHANGED vars \/ Boot \/ AskConfig \/ AskReset \/ Move \/ (\E g \in unserved : Serve(g))
  BY <1>9, SameReads DEF vars, people, Boot, AskConfig, AskReset, Move, Serve
<1> QED
  BY <1>1, <1>2, <1>3, <1>4, <1>5, <1>6, <1>7, <1>8, <1>9 DEF Next, Local

-----------------------------------------------------------------------------
(***************************************************************************)
(* The sessions: whose listener and whose password they are.               *)
(***************************************************************************)
\* A request that is under way was accepted by a listener.  It is the one in
\* use, if none has been opened or closed since, or its goroutine has failed.
Accepting ==
    \A r \in Requests :
        req[r].phase # "none" =>
            /\ req[r].gen \in 1..gen
            /\ req[r].gen = gen => server = gen \/ problem = "listen_failed"

\* There are sessions only while there is a listener, and requests only while
\* the service runs.
Served == /\ server = 0 => sessions = {}
          /\ ~up => \A r \in Requests : req[r].phase = "none"

Current == \A s \in sessions : s.pass = config.pass /\ s.gen = server

SessionInv == TypeOK /\ Ordered /\ Reads /\ Accepting /\ Served /\ Current

\* What a step does to the listener and its problem.
LEMMA ListenerMoves ==
    ASSUME Listening, [Next]_vars
    PROVE  \/ UNCHANGED <<gen, server>> /\ problem' \in {problem, "listen_failed"}
           \/ gen' = gen + 1 /\ ~(\E r \in Requests : Arrive(r))
           \/ Boot
           \/ UNCHANGED <<gen, server>> /\ problem = "configuration_invalid"
              /\ ~(\E r \in Requests : Arrive(r))
           \/ UNCHANGED gen /\ problem' = "listen_failed" /\ ~(\E r \in Requests : Arrive(r))
           \/ Exit
<1>0. gen + 1 # gen
  BY DEF Listening
<1>1. CASE \E r \in Requests : Network(r)
  <2>1. UNCHANGED <<gen, server, problem>>
    BY <1>1 DEF Network, Arrive, Auth, Answer, PasswordCheck, Login, Logout, ChangePassword,
       settings, listener
  <2> QED BY <2>1
<1>2. ASSUME gen' # gen PROVE \A r \in Requests : ~Arrive(r)
  BY <1>2 DEF Arrive, listener
<1>3. ASSUME server' # server PROVE \A r \in Requests : ~Arrive(r)
  BY <1>3 DEF Arrive, listener
<1>4. CASE reconcile
  BY <1>0, <1>2, <1>3, <1>4 DEF reconcile, Pause, Stop, Listen, RetryPause, NothingToDo, settings, listener
<1>5. CASE Stop
  BY <1>0, <1>2, <1>5 DEF Stop
<1>6. CASE ServeFails
  BY <1>3, <1>6 DEF ServeFails
<1>7. CASE UNCHANGED <<gen, server, problem>>
  BY <1>7
<1>8. CASE UNCHANGED vars \/ ExpireSessions \/ AskConfig \/ AskReset \/ Persist \/ Move
           \/ (\E g \in unserved : Serve(g)) \/ (\E s \in sessions : Age(s))
  BY <1>7, <1>8 DEF vars, ExpireSessions, AskConfig, AskReset, Persist, Move, Serve, Age, settings,
     listener
<1>10. CASE Swap
  <2>1. CASE Stop BY <1>5, <2>1
  <2>2. CASE UNCHANGED listener /\ problem' = (IF problem = "configuration_invalid" THEN "none" ELSE problem)
    <3>1. UNCHANGED <<gen, server>> BY <2>2 DEF listener
    <3>2. ~(\E r \in Requests : Arrive(r)) \/ UNCHANGED problem BY DEF Arrive, settings
    <3> QED BY <2>2, <3>1, <3>2
  <2> QED BY <1>10, <2>1, <2>2 DEF Swap
<1>9. CASE Tick \/ Rebind \/ Close
  BY <1>4, <1>5, <1>7, <1>9 DEF Tick, Rebind, Close, listener
<1> QED BY <1>1, <1>6, <1>8, <1>9, <1>10 DEF Next, Local

LEMMA AcceptingNext ==
    ASSUME Listening, People, Reads, Accepting, Served, [Next]_vars
    PROVE  Accepting'
<1>1. Continues \/ \E r \in Requests : Arrive(r)
  BY ReadsNext
<1>2. gen \in Nat
  BY DEF Listening
<1>3. CASE gen' = gen + 1 /\ ~(\E r \in Requests : Arrive(r))
  <2>1. \A n \in 1..gen : n \in 1..(gen + 1) /\ n # gen + 1
    BY <1>2
  <2> QED BY <1>1, <1>3, <2>1 DEF Accepting, Continues
<1>4. CASE UNCHANGED <<gen, server>> /\ problem' \in {problem, "listen_failed"}
  <2>1. CASE Continues
    BY <1>4, <2>1 DEF Accepting, Continues
  <2>2. CASE \E r \in Requests : Arrive(r)
    <3>1. PICK r \in Requests : Arrive(r)
      BY <2>2
    <3>2. /\ req'[r].gen = server /\ server # 0
          /\ \A t \in Requests \ {r} : req'[t] = req[t]
      BY <3>1, ArriveReads
    <3>3. server = gen /\ gen \in 1..gen
      BY <1>2, <3>2 DEF Listening
    <3> QED BY <1>4, <3>2, <3>3 DEF Accepting
  <2> QED BY <1>1, <2>1, <2>2
<1>8. CASE UNCHANGED <<gen, server>> /\ problem = "configuration_invalid"
           /\ ~(\E r \in Requests : Arrive(r))
  BY <1>1, <1>8 DEF Accepting, Continues
<1>5. CASE Boot
  BY <1>5 DEF Boot, people, Served, Accepting
<1>6. CASE UNCHANGED gen /\ problem' = "listen_failed" /\ ~(\E r \in Requests : Arrive(r))
  BY <1>1, <1>6 DEF Accepting, Continues
<1>7. CASE Exit
  BY <1>7, IdleIsRequest DEF Exit, Accepting
<1> QED BY <1>3, <1>4, <1>5, <1>6, <1>7, <1>8, ListenerMoves

\* A session is opened with the password and through the listener in force.
LEMMA LoginCurrent ==
    ASSUME Listening, People, Accepting, NEW r \in Requests, Login(r), ~UNCHANGED sessions
    PROVE  /\ req[r].seen = config.pass /\ req[r].gen = server /\ server # 0
           /\ \A s \in sessions' : s \in sessions \/ (s.pass = config.pass /\ s.gen = server)
<1>1. Accepted(req[r]) /\ req[r].phase = "hashing"
  BY DEF Login
<1>2. req[r].seen = config.pass /\ req[r].gen = gen /\ problem = "none"
  BY <1>1 DEF Accepted, Active
<1>3. server = gen /\ gen \in 1..gen
  BY <1>1, <1>2 DEF Accepting
<1>4. server # 0
  BY <1>3 DEF Listening
<1>5. sessions' \subseteq sessions \cup {[tok |-> issued + 1, pass |-> req[r].seen,
                                        gen |-> req[r].gen, aged |-> FALSE]}
  BY <1>1 DEF Login, Without
<1> QED BY <1>2, <1>3, <1>4, <1>5

\* Sessions go when the password or the listener does.
LEMMA SettingsMove ==
    ASSUME Settled, Listening, People, Served, PauseInv, [Next]_vars
    PROVE  sessions' = {} \/ (config'.pass = config.pass /\ server' = server)
<1>1. CASE UNCHANGED <<config, server>>
  BY <1>1
<1>2. Stop => sessions' = {}
  BY DEF Stop, Revoke, Without, Tokens
<1>3. CASE reconcile
  <2>1. CASE Pause
    BY <1>2, <2>1 DEF Pause
  <2>2. CASE Listen
    BY <2>2 DEF Listen, listener, Served
  <2>3. CASE RetryPause \/ NothingToDo
    BY <2>3 DEF RetryPause, NothingToDo, settings, listener
  <2> QED BY <1>3, <2>1, <2>2, <2>3 DEF reconcile
<1>4. CASE Boot
  BY <1>4 DEF Boot, people, PauseInv, Down, Served
<1>5. CASE ServeFails
  BY <1>5 DEF ServeFails, Revoke, Without, Tokens
<1>6. CASE Exit
  BY <1>6 DEF Exit
<1>7. CASE Swap
  BY <1>2, <1>7 DEF Swap
<1>8. CASE Close
  BY <1>2, <1>8 DEF Close
<1>9. CASE UNCHANGED vars \/ ExpireSessions \/ AskConfig \/ AskReset \/ Persist \/ Move
           \/ (\E g \in unserved : Serve(g)) \/ (\E s \in sessions : Age(s))
  BY <1>1, <1>9 DEF vars, ExpireSessions, AskConfig, AskReset, Persist, Move, Serve, Age, settings,
     listener
<1>10. CASE \E r \in Requests : Network(r)
  BY <1>1, <1>10 DEF Network, Arrive, Auth, Answer, PasswordCheck, Login, Logout, ChangePassword,
     settings, listener
<1> QED BY <1>3, <1>4, <1>5, <1>6, <1>7, <1>8, <1>9, <1>10 DEF Next, Local, Tick, Rebind

\* Only a login opens a session; growing old changes nothing else of one.
LEMMA SessionsMove ==
    ASSUME People, [Next]_vars
    PROVE  \/ \A s \in sessions' : \E t \in sessions : s.pass = t.pass /\ s.gen = t.gen
           \/ \E r \in Requests : Login(r) /\ ~UNCHANGED sessions
<1>1. CASE sessions' \subseteq sessions
  BY <1>1
<1>2. ASSUME NEW gone, sessions' = Without(gone) PROVE sessions' \subseteq sessions
  BY <1>2 DEF Without
<1>3. CASE reconcile \/ Stop
  BY <1>1, <1>2, <1>3 DEF reconcile, Pause, Stop, Revoke, Listen, RetryPause, NothingToDo
<1>4. CASE UNCHANGED vars \/ Boot \/ AskConfig \/ AskReset \/ Persist \/ Move \/ Exit
           \/ (\E g \in unserved : Serve(g))
  BY <1>1, <1>4 DEF vars, people, Boot, AskConfig, AskReset, Persist, Move, Exit, Serve
<1>5. CASE ExpireSessions \/ ServeFails
  BY <1>1, <1>2, <1>5 DEF ExpireSessions, ServeFails, Revoke
<1>6. CASE Swap
  BY <1>1, <1>3, <1>6 DEF Swap
<1>7. CASE Close
  BY <1>3, <1>7 DEF Close
<1>8. ASSUME NEW r \in Requests, Network(r) PROVE sessions' \subseteq sessions \/ Login(r)
  BY <1>2, <1>8 DEF Network, Arrive, Auth, Answer, PasswordCheck, Logout, ChangePassword
<1>9. CASE \E s \in sessions : Age(s)
  BY <1>9 DEF Age, People, Sessions
<1> QED BY <1>1, <1>3, <1>4, <1>5, <1>6, <1>7, <1>8, <1>9 DEF Next, Local, Tick, Rebind

LEMMA CurrentNext ==
    ASSUME Settled, Listening, People, Reads, Accepting, Served, Current, PauseInv, [Next]_vars
    PROVE  Current' /\ Served'
<1>1. sessions' = {} \/ (config'.pass = config.pass /\ server' = server)
  BY SettingsMove
<1>2. Current'
  <2>1. CASE \E r \in Requests : Login(r) /\ ~UNCHANGED sessions
    <3>1. PICK r \in Requests : Login(r) /\ ~UNCHANGED sessions
      BY <2>1
    <3>2. \A s \in sessions' : s \in sessions \/ (s.pass = config.pass /\ s.gen = server)
      BY <3>1, LoginCurrent
    <3> QED BY <1>1, <3>2 DEF Current
  <2> QED BY <1>1, <2>1, SessionsMove DEF Current
<1>3. server' = 0 => sessions' = {}
  <2>1. CASE \E r \in Requests : Login(r) /\ ~UNCHANGED sessions
    BY <1>1, <2>1, LoginCurrent
  <2> QED BY <1>1, <2>1, SessionsMove DEF Served
<1>4. ~up' => \A r \in Requests : req'[r].phase = "none"
  <2>1. CASE Exit
    BY <2>1, IdleIsRequest DEF Exit
  <2>2. CASE ~Exit
    <3>1. ~up' => ~up
      <4>1. CASE \E r \in Requests : Network(r)
        BY <4>1 DEF Network, Arrive, Auth, Answer, PasswordCheck, Login, Logout, ChangePassword
      <4> QED
        BY <2>2, <4>1 DEF Next, Local, Boot, Tick, ExpireSessions, AskConfig, AskReset, Persist, Swap,
           Rebind, Close, Serve, ServeFails, Move, Age, vars
    <3>2. ~up => ~(\E r \in Requests : Arrive(r))
      BY DEF PauseInv, Down, Arrive
    <3> QED BY <3>1, <3>2, ReadsNext DEF Served, Continues
  <2> QED BY <2>1, <2>2
<1> QED BY <1>2, <1>3, <1>4 DEF Served

LEMMA SessionInit == Init => SessionInv
<1> SUFFICES ASSUME Init PROVE SessionInv
  OBVIOUS
<1>1. Settled
  <2>1. disk \in Config
    <3>1. CASE disk = Default
      BY <3>1, DefaultIsConfig
    <3>2. CASE disk \in [on : {TRUE}, bind : Bindings, pass : {1}, paused : BOOLEAN]
      <4>1. {TRUE} \subseteq BOOLEAN /\ {1} \subseteq Nat /\ Bindings \subseteq Bindings \cup {"none"}
        OBVIOUS
      <4>2. disk.on \in BOOLEAN /\ disk.pass \in Nat /\ disk.bind \in Bindings /\ disk.paused \in BOOLEAN
        BY <3>2, <4>1
      <4>3. disk = [on |-> disk.on, bind |-> disk.bind, pass |-> disk.pass, paused |-> disk.paused]
        BY <3>2
      <4> QED BY <4>2, <4>3 DEF Config
    <3> QED BY <3>1, <3>2 DEF Init
  <2>2. saved \in Nat
    BY <2>1 DEF Init, Config
  <2> QED BY <2>1, <2>2, DefaultIsConfig, LanAssumption DEF Init, Settled
<1>2. Listening
  BY DEF Init, Listening
<1>3. People
  BY IdleIsRequest, FS_EmptySet, LanAssumption DEF Init, People
<1>4. Ordered /\ Reads /\ Accepting /\ Served /\ Current
  BY IdleIsRequest DEF Init, Ordered, Reads, Accepting, Served, Current
<1> QED BY <1>1, <1>2, <1>3, <1>4, TypeParts DEF SessionInv

LEMMA SessionNext == SessionInv /\ PauseInv /\ [Next]_vars => SessionInv'
<1> SUFFICES ASSUME SessionInv, PauseInv, [Next]_vars PROVE SessionInv'
  OBVIOUS
<1>1. Settled /\ Listening /\ People
  BY TypeParts DEF SessionInv
<1>2. Settled' /\ Listening' /\ People' /\ Ordered'
  BY <1>1, SettledNext, ListeningNext, PeopleNext DEF SessionInv
<1>3. Reads' /\ Accepting' /\ Served' /\ Current'
  BY <1>1, ReadsNext, AcceptingNext, CurrentNext DEF SessionInv
<1>4. TypeOK'
  BY <1>2 DEF TypeOK, Settled, Listening, People, Sessions, Ops
<1> QED BY <1>2, <1>3, <1>4 DEF SessionInv

\* In every reachable state.
LEMMA SessionAlways == Spec => [](SessionInv /\ PauseInv)
  BY SessionInit, SessionNext, PauseInit, PauseNext, PTL DEF Spec

(***************************************************************************)
(* The settings, the listener, the requests and the sessions have their    *)
(* types; there are never more sessions than the bound, because a login    *)
(* that finds it reached ends the oldest one first (handleLogin).          *)
(***************************************************************************)
THEOREM TypeCorrect == Spec => []TypeOK
<1>1. SessionInv => TypeOK  BY DEF SessionInv
<1> QED  BY <1>1, SessionAlways, PTL

(***************************************************************************)
(* Whoever is logged in has shown the password that is in force, through   *)
(* the listener that is in use, however the login raced a reset, a pause,  *)
(* a new binding or the end of a listener; and a read that was opened with *)
(* a session has ended when the session has.                               *)
(***************************************************************************)
THEOREM SessionsAreCurrentAlways == Spec => []SessionsAreCurrent
<1>1. SessionInv => SessionsAreCurrent
  BY DEF SessionInv, Current, Reads, SessionsAreCurrent
<1> QED  BY <1>1, SessionAlways, PTL

=============================================================================
