-------------------------- MODULE MCDeviceRouting --------------------------
(* Instances of DeviceRouting: every kind of registration against every    *)
(* kind of rule, and the histories of selections for a few of them.        *)
EXTENDS DeviceRouting

NoTemplate == [defaults |-> <<>>, rules |-> <<>>, unsupported |-> Empty]
Nothing == [dst |-> {}, proto |-> {}, sets |-> {}]
Rule(id, m, action, policies) ==
    [id |-> id, match |-> m, action |-> action, policies |-> policies, unsupported |-> Empty]
Web   == [Nothing EXCEPT !.dst = {"web", "media"}, !.proto = {"udp", "tcp"}]
Media == [Nothing EXCEPT !.sets = {"media"}]

Profiles ==
    {[defaults |-> d, rules |-> r, unsupported |-> u, template |-> NoTemplate] :
        d \in {<<"A", "B">>, <<"DIRECT", "B">>},
        r \in {<<>>, <<Rule("r1", Web, "A", <<>>)>>, <<Rule("r1", Media, "none", <<"B", "A">>)>>,
               <<[Rule("r1", Media, "A", <<>>) EXCEPT !.unsupported = "fallthrough"],
                 Rule("r2", Web, "none", <<"B", "REJECT">>)>>},
        u \in {Empty, "fallthrough"}}
    \cup {[defaults |-> <<>>, rules |-> <<Rule("r1", Web, "REJECT", <<>>)>>, unsupported |-> Empty,
           template |-> [defaults |-> <<"B">>, rules |-> <<Rule("t1", Media, "A", <<>>)>>,
                         unsupported |-> "fallthrough"]]}

Second == [ip |-> [lan |-> "home", host |-> 2], mac |-> TRUE, target |-> "opensurge", mode |-> "dedicated",
           profile |-> [defaults |-> <<"B">>, rules |-> <<>>, unsupported |-> Empty, template |-> NoTemplate]]
Doc(d1) == [d \in Devices |-> IF d = "d1" THEN d1 ELSE Second]

Registrations ==
    {[ip |-> [lan |-> "home", host |-> 1], mac |-> m, target |-> t, mode |-> e, profile |-> p] :
        m \in BOOLEAN, t \in {"opensurge", "upstream_router"},
        e \in {"dedicated", "inherit_global", "legacy_fallback"}, p \in Profiles}

Worlds ==
    {[mode |-> m, lan |-> "home", v6 |-> v, offered |-> o, match |-> "B", ts |-> t] :
        m \in {"same_lan", "dhcp"}, v \in BOOLEAN, o \in {{"A"}, {"A", "B"}},
        t \in {[on |-> FALSE, exit |-> FALSE, mac |-> FALSE, devs |-> {}],
               [on |-> TRUE, exit |-> TRUE, mac |-> TRUE, devs |-> {"d1"}]}}

Plain == [mode |-> "same_lan", lan |-> "home", v6 |-> FALSE, offered |-> {"A", "B"}, match |-> "DIRECT",
          ts |-> [on |-> TRUE, exit |-> TRUE, mac |-> TRUE, devs |-> {"d2"}]]
First == [ip |-> [lan |-> "home", host |-> 1], mac |-> FALSE, target |-> "opensurge", mode |-> "dedicated",
          profile |-> [defaults |-> <<"A", Exit, "DIRECT">>, rules |-> <<Rule("r1", Media, "none", <<"B", "A">>)>>,
                       unsupported |-> Empty, template |-> NoTemplate]]

MCCases == {[doc |-> Doc(r), world |-> w, changes |-> 0] : r \in Registrations, w \in Worlds}
           \cup {[doc |-> Doc(First), world |-> Plain, changes |-> 2]}
ValidCases == {c \in MCCases : Valid(c.doc)}
MacCase == {[doc |-> Doc(First), world |-> Plain, changes |-> 2]}
=============================================================================
