----------------------------- MODULE LanAccess -----------------------------
(***************************************************************************)
(* The optional listener of the control service on the home network, its   *)
(* password, its sessions (controlapi/lan_access.go, lan_auth.go).         *)
(*                                                                         *)
(* opMu serialises what changes the settings (op); c.mu makes each single  *)
(* step below atomic, and is free while a password is hashed and while a   *)
(* file is written.  The goroutine that serves a listener runs on its own. *)
(***************************************************************************)
EXTENDS Naturals, FiniteSets

CONSTANTS
    Requests,                      \* requests from the network, one peer each
    Bindings,                      \* interface, address and subnet
    MaxSessions, Slots,            \* 64 and 2 in the code
    MaxSaves, MaxMoves, MaxLogins, MaxFaults  \* bounds of an instance

ASSUME LanAssumption ==
    /\ {MaxSessions, Slots} \subseteq Nat \ {0}
    /\ {MaxSaves, MaxMoves, MaxLogins, MaxFaults} \subseteq Nat
    /\ "local" \notin Requests /\ "none" \notin Bindings

VARIABLES
    disk,       \* lan-access.json
    up,         \* the service runs
    config, problem, dirty, closed,
    server,     \* generation of the listener in use, 0 for none
    gen,
    port,       \* sockets the system still holds: [gen, bind]
    unserved,   \* generations whose goroutine has not called Serve yet
    op,         \* the holder of opMu
    sessions,   \* as a map by token; a token is as old as its number is small
    req, here,
    confirmed, forgot,            \* history
    saved, moved, issued, left    \* counters of the bounds

settings == <<disk, config, problem, dirty>>
listener == <<server, gen, port, unserved>>
people   == <<sessions, req>>
history  == <<confirmed, forgot, saved, moved, issued, left>>
vars     == <<settings, up, closed, listener, op, people, here, history>>

\* A password is known by the save that set it: each has a salt of its own.
Config  == [on : BOOLEAN, bind : Bindings \cup {"none"}, pass : Nat, paused : BOOLEAN]
Default == [on |-> FALSE, bind |-> "none", pass |-> 0, paused |-> FALSE]
Idle    == [kind |-> "none", phase |-> "none", gen |-> 0, tok |-> 0, right |-> FALSE, seen |-> 0]
Request == [kind : {"none", "login", "read", "write", "change", "logout"},
            phase : {"none", "admitted", "authentic", "reading", "hashing", "waiting", "changing"},
            gen : Nat, tok : Nat, right : BOOLEAN, seen : Nat]
Free    == [phase |-> "free", want |-> Default, rebind |-> FALSE, by |-> "local"]

Tokens == {s.tok : s \in sessions}

TypeOK ==
    /\ disk \in Config /\ config \in Config /\ up \in BOOLEAN /\ here \subseteq Bindings
    /\ problem \in {"none", "address_unavailable", "listen_failed", "configuration_invalid"}
    /\ op \in [phase : {"free", "persist", "swap", "reconcile"}, want : Config,
               rebind : BOOLEAN, by : Requests \cup {"local"}]
    /\ {gen, issued, saved, moved, left} \subseteq Nat /\ unserved \subseteq 1..gen
    /\ server \in {0, gen} /\ port \subseteq [gen : 1..gen, bind : Bindings]
    /\ sessions \subseteq [tok : 1..issued, pass : Nat, gen : Nat, aged : BOOLEAN]
    /\ IsFiniteSet(sessions) /\ Cardinality(sessions) <= MaxSessions
    /\ req \in [Requests -> Request]

Init ==
    /\ disk \in {Default} \cup [on : {TRUE}, bind : Bindings, pass : {1}, paused : BOOLEAN]
    /\ saved = disk.pass /\ confirmed = ~disk.paused
    /\ up = FALSE /\ config = Default /\ problem = "none" /\ dirty = FALSE /\ closed = FALSE
    /\ server = 0 /\ gen = 0 /\ port = {} /\ unserved = {} /\ op = Free
    /\ sessions = {} /\ req = [r \in Requests |-> Idle]
    /\ here \in SUBSET Bindings /\ forgot = FALSE /\ moved = 0 /\ issued = 0 /\ left = MaxFaults

Fine == UNCHANGED left
Fault == left > 0 /\ left' = left - 1

-----------------------------------------------------------------------------
(* Sessions end together with the reads they opened.                       *)

Aged == {s.tok : s \in {t \in sessions : t.aged}}
Without(gone) == {s \in sessions : s.tok \notin gone}

\* session.cancel ends the reads of a session, never its mutations.
Cut(gone) == [r \in Requests |-> IF req[r].phase = "reading" /\ req[r].tok \in gone THEN Idle ELSE req[r]]
Revoke(gone) == sessions' = Without(gone) /\ req' = Cut(gone)

\* Mutant: the old server is forgotten, not closed.
StopOpen == gen' = gen + 1 /\ server' = 0 /\ Revoke(Tokens) /\ UNCHANGED <<port, unserved>>

\* stopLocked; a socket nobody serves yet outlives the call.
Stop ==
    /\ gen' = gen + 1 /\ server' = 0 /\ Revoke(Tokens)
    /\ port' = {p \in port : p.gen # server \/ p.gen \in unserved} /\ UNCHANGED unserved

Active == config.on /\ ~closed /\ problem = "none"

-----------------------------------------------------------------------------
(* Settings.                                                               *)

\* newLANAccessController: a file that cannot be read or does not make sense
\* leaves the defaults, and a problem that only the next save ends.
Boot ==
    /\ ~up /\ up' = TRUE
    /\ \/ /\ config' = disk /\ Fine
          /\ problem' = IF disk.paused THEN "address_unavailable" ELSE "none"
       \/ config' = Default /\ problem' = "configuration_invalid" /\ Fault
    /\ UNCHANGED <<disk, dirty, closed, listener, op, people, here, confirmed, forgot,
                   saved, moved, issued>>

\* Mutant: a pause is kept in memory only.
PauseInMemory == UNCHANGED disk /\ dirty' = FALSE /\ Fine

\* A pause is written down; if that fails, a later round tries again.
WritePause ==
    \/ disk' = config' /\ dirty' = FALSE /\ Fine
    \/ UNCHANGED disk /\ dirty' = TRUE /\ Fault

Pause ==
    /\ Active /\ config.bind \notin here /\ Stop
    /\ problem' = "address_unavailable" /\ config' = [config EXCEPT !.paused = TRUE]
    /\ WritePause /\ confirmed' = FALSE

Listen ==
    /\ Active /\ config.bind \in here /\ server = 0
    /\ \/ /\ \A p \in port : p.bind # config.bind
          /\ gen' = gen + 1 /\ server' = gen + 1 /\ unserved' = unserved \cup {gen + 1}
          /\ port' = port \cup {[gen |-> gen + 1, bind |-> config.bind]} /\ Fine /\ UNCHANGED problem
       \/ /\ problem' = "listen_failed" /\ UNCHANGED listener
          /\ IF \E p \in port : p.bind = config.bind THEN Fine ELSE Fault
    /\ UNCHANGED <<disk, config, dirty, sessions, req, confirmed>>

RetryPause ==
    /\ \/ disk' = config /\ dirty' = FALSE /\ Fine
       \/ UNCHANGED <<disk, dirty>> /\ Fault
    /\ UNCHANGED <<config, problem, listener, sessions, req, confirmed>>

NothingToDo ==
    /\ Active => server # 0 /\ config.bind \in here
    /\ UNCHANGED <<settings, listener, sessions, req, confirmed, left>>

reconcile == IF dirty /\ ~closed THEN RetryPause ELSE Pause \/ Listen \/ NothingToDo

\* The monitor, every two seconds; expireSessions is a step of its own.
Tick ==
    /\ up /\ op = Free /\ reconcile
    /\ UNCHANGED <<up, closed, op, here, forgot, saved, moved, issued>>

ExpireSessions ==
    /\ Aged # {} /\ Revoke(Aged)
    /\ UNCHANGED <<settings, up, closed, listener, op, here, history>>

Begin(want, rebind, by) ==
    /\ up /\ ~closed /\ op = Free
    /\ op' = [phase |-> "persist", want |-> want, rebind |-> rebind, by |-> by]

\* handleConfig: a new binding must be present and have a password.
AskConfig ==
    /\ saved < MaxSaves /\ saved' = saved + 1
    /\ \E on, new \in BOOLEAN, b \in Bindings :
          LET pass == IF new THEN saved' ELSE config.pass IN
          /\ on => b \in here /\ pass # 0
          /\ Begin([on |-> on, bind |-> IF on THEN b ELSE config.bind, pass |-> pass, paused |-> FALSE],
                   TRUE, "local")
    /\ UNCHANGED <<settings, up, closed, listener, people, here, confirmed, forgot, moved, issued, left>>

\* handleResetPassword
AskReset ==
    /\ saved < MaxSaves /\ saved' = saved + 1
    /\ Begin([config EXCEPT !.pass = saved'], FALSE, "local")
    /\ UNCHANGED <<settings, up, closed, listener, people, here, confirmed, forgot, moved, issued, left>>

Release(q) == op' = Free /\ req' = [r \in Requests |-> IF r = op.by THEN Idle ELSE q[r]]

\* save: the file first; when it cannot be written nothing has changed.
Persist ==
    /\ op.phase = "persist"
    /\ \/ /\ disk' = op.want /\ op' = [op EXCEPT !.phase = "swap"] /\ UNCHANGED req /\ Fine
          /\ confirmed' = (confirmed \/ (op.rebind /\ op.want.on))
       \/ UNCHANGED <<disk, confirmed>> /\ Release(req) /\ Fault
    /\ UNCHANGED <<config, problem, dirty, up, closed, listener, sessions, here,
                   forgot, saved, moved, issued>>

Swap ==
    /\ op.phase = "swap" /\ config' = op.want /\ dirty' = FALSE
    /\ IF op.rebind
       THEN /\ Stop /\ problem' = "none" /\ op' = [op EXCEPT !.phase = "reconcile"]
       ELSE /\ sessions' = {} /\ Release(Cut(Tokens)) /\ UNCHANGED listener
            /\ problem' = IF problem = "configuration_invalid" THEN "none" ELSE problem
    /\ UNCHANGED <<disk, up, closed, here, history>>

Rebind ==
    /\ op.phase = "reconcile" /\ reconcile /\ op' = Free
    /\ UNCHANGED <<up, closed, here, forgot, saved, moved, issued>>

-----------------------------------------------------------------------------
(* The goroutine of a listener.                                            *)

\* Serve registers the socket, or closes it if the server was closed before.
Serve(g) ==
    /\ g \in unserved /\ unserved' = unserved \ {g}
    /\ port' = IF server = g THEN port ELSE {p \in port : p.gen # g}
    /\ UNCHANGED <<settings, up, closed, server, gen, op, people, here, history>>

\* It returns because the socket has failed.
ServeFails ==
    /\ server # 0 /\ server \notin unserved /\ Fault
    /\ server' = 0 /\ port' = {p \in port : p.gen # server} /\ Revoke(Tokens) /\ problem' = "listen_failed"
    /\ UNCHANGED <<disk, config, dirty, up, closed, gen, unserved, op, here,
                   confirmed, forgot, saved, moved, issued>>

-----------------------------------------------------------------------------
(* Requests from the network.                                              *)

\* handler: a request is admitted to the generation that accepted it.
Arrive(r) ==
    /\ req[r] = Idle /\ server # 0 /\ server \notin unserved /\ Active /\ config.bind \in here
    /\ \E kind \in {"login", "read", "write", "change", "logout"}, tok \in Tokens \cup {0}, right \in BOOLEAN :
          /\ kind \in {"read", "write", "logout"} => ~right /\ tok # 0
          /\ kind = "login" => issued < MaxLogins
          /\ kind = "change" => saved < MaxSaves /\ tok # 0
          /\ req' = [req EXCEPT ![r] = [Idle EXCEPT !.kind = kind, !.phase = "admitted",
                                                   !.gen = server, !.tok = tok, !.right = right]]
    /\ UNCHANGED <<settings, up, closed, listener, op, sessions, here, history>>

\* authenticated: old sessions are dropped before one is looked up.  An admitted
\* mutation goes on to its own handler and is not cancelled from here.
Authentic(q) == Active /\ q.gen = gen /\ q.tok \in Tokens \ Aged

Auth(r) ==
    LET q == req[r] IN
    /\ q.phase = "admitted" /\ q.kind \in {"read", "write", "change"} /\ sessions' = Without(Aged)
    /\ req' = [Cut(Aged) EXCEPT ![r] =
                  IF ~Authentic(q) \/ q.kind = "write" THEN Idle
                  ELSE [q EXCEPT !.phase = IF q.kind = "read" THEN "reading" ELSE "authentic"]]
    /\ UNCHANGED <<settings, up, closed, listener, op, here, history>>

Answer(r) ==
    /\ req[r].phase = "reading" /\ req' = [req EXCEPT ![r] = Idle]
    /\ UNCHANGED <<settings, up, closed, listener, op, sessions, here, history>>

Hashing == {r \in Requests : req[r].phase \in {"hashing", "waiting", "changing"}}

\* beginPasswordCheck; how often a peer, or all of them, asked in the last
\* minute is left out: a check may be refused at any time.
PasswordCheck(r) ==
    LET q == req[r]
        slot == [q EXCEPT !.phase = IF q.kind = "login" THEN "hashing" ELSE "waiting", !.seen = config.pass] IN
    /\ q.phase = (IF q.kind = "login" THEN "admitted" ELSE "authentic")
    /\ req' \in {[req EXCEPT ![r] = Idle]} \cup
                (IF Cardinality(Hashing) < Slots THEN {[req EXCEPT ![r] = slot]} ELSE {})
    /\ UNCHANGED <<settings, up, closed, listener, op, sessions, here, history>>

\* Mutant: a password that was right when it was read is right.
StillRight(q) == q.right /\ q.gen = gen /\ Active

\* Hashing takes a while: settings and listener have to be the same after it.
Accepted(q) == q.right /\ q.seen = config.pass /\ q.gen = gen /\ Active

Oldest(rest) == {s.tok : s \in {t \in rest : \A u \in rest : t.tok <= u.tok}}

\* handleLogin: the browser's old session goes, and the oldest when all are taken.
Login(r) ==
    LET q == req[r]
        rest == Without(Aged \cup {q.tok})
        gone == Aged \cup {q.tok} \cup (IF Cardinality(rest) >= MaxSessions THEN Oldest(rest) ELSE {})
        new == [tok |-> issued + 1, pass |-> q.seen, gen |-> q.gen, aged |-> FALSE] IN
    /\ q.phase = "hashing"
    /\ IF Accepted(q)
       THEN /\ issued < MaxLogins /\ issued' = issued + 1
            /\ sessions' = Without(gone) \cup {new} /\ req' = [Cut(gone) EXCEPT ![r] = Idle]
       ELSE UNCHANGED <<issued, sessions>> /\ req' = [req EXCEPT ![r] = Idle]
    /\ UNCHANGED <<settings, up, closed, listener, op, here, confirmed, forgot, saved, moved, left>>

Logout(r) ==
    /\ req[r].phase = "admitted" /\ req[r].kind = "logout"
    /\ sessions' = Without({req[r].tok}) /\ req' = [Cut({req[r].tok}) EXCEPT ![r] = Idle]
    /\ UNCHANGED <<settings, up, closed, listener, op, here, history>>

\* handleChangePassword: with opMu, look again whether the session is there.
ChangePassword(r) ==
    LET q == req[r]  gone == Aged IN
    /\ q.phase = "waiting" /\ op = Free /\ sessions' = Without(gone)
    /\ IF Authentic(q) /\ q.right
       THEN /\ saved < MaxSaves /\ saved' = saved + 1
            /\ Begin([config EXCEPT !.pass = saved'], FALSE, r)
            /\ req' = [Cut(gone) EXCEPT ![r].phase = "changing"]
       ELSE UNCHANGED <<saved, op>> /\ req' = [Cut(gone) EXCEPT ![r] = Idle]
    /\ UNCHANGED <<settings, up, closed, listener, here, confirmed, forgot, moved, issued, left>>

-----------------------------------------------------------------------------
(* The world around.                                                       *)

Age(s) ==
    /\ ~s.aged /\ sessions' = (sessions \ {s}) \cup {[s EXCEPT !.aged = TRUE]}
    /\ UNCHANGED <<settings, up, closed, listener, op, req, here, history>>

Move ==
    /\ moved < MaxMoves /\ moved' = moved + 1 /\ here' \in SUBSET Bindings \ {here}
    /\ UNCHANGED <<settings, up, closed, listener, op, people, confirmed, forgot, saved, issued, left>>

\* close
Close ==
    /\ up /\ ~closed /\ op = Free /\ closed' = TRUE /\ Stop
    /\ UNCHANGED <<settings, up, op, here, history>>

\* The process is gone, after close or without.
Exit ==
    /\ up /\ up' = FALSE /\ (IF closed /\ port = {} THEN Fine ELSE Fault)
    /\ config' = Default /\ problem' = "none" /\ dirty' = FALSE /\ closed' = FALSE
    /\ server' = 0 /\ gen' = 0 /\ port' = {} /\ unserved' = {} /\ op' = Free
    /\ sessions' = {} /\ req' = [r \in Requests |-> Idle]
    /\ forgot' = (forgot \/ dirty)
    /\ UNCHANGED <<disk, here, confirmed, saved, moved, issued>>

Local   == Boot \/ Tick \/ ExpireSessions \/ AskConfig \/ AskReset \/ Persist \/ Swap \/ Rebind \/ Close
Network(r) == \/ Arrive(r) \/ Auth(r) \/ Answer(r) \/ PasswordCheck(r) \/ Login(r) \/ Logout(r)
              \/ ChangePassword(r)

Next == \/ Local \/ (\E g \in unserved : Serve(g)) \/ ServeFails \/ Move \/ Exit
        \/ (\E r \in Requests : Network(r)) \/ (\E s \in sessions : Age(s))

Spec == Init /\ [][Next]_vars

-----------------------------------------------------------------------------
\* A session was opened with the password and through the listener that are
\* in force now: a login that was being hashed during a reset, a new binding
\* or a pause opens none.  A read lives no longer than its session.
SessionsAreCurrent ==
    /\ \A s \in sessions : s.pass = config.pass /\ s.gen = server
    /\ \A r \in Requests : req[r].phase = "reading" => req[r].tok \in Tokens

\* "Returning to a network never silently opens it", across restarts too,
\* unless the service died before a pause could be written.
NeverReopened == server # 0 => confirmed \/ forgot

\* The system holds no socket but that of the listener in use and those whose
\* goroutine has yet to run, which will close them; on one address there is
\* never more than one.
NoStraySocket ==
    \A p \in port : /\ p.gen = server \/ p.gen \in unserved
                    /\ \A q \in port : q.bind = p.bind => q = p
=============================================================================
