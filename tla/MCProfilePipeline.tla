-------------------------- MODULE MCProfilePipeline --------------------------
(* Sources, overlays, drafts and settings of the run on ProfilePipeline:    *)
(* small documents that between them use every operation, some of which     *)
(* the code refuses.                                                        *)
EXTENDS ProfilePipeline, TLC

T(host, port) == [host |-> host, port |-> port, scheme |-> "plain", via |-> "none"]
Ext == T("ext", "dns")
Theirs == T("loop", "theirs")
Proxied == [Ext EXCEPT !.via = "proxy"]

P(kind, labels) == [kind |-> kind, labels |-> labels]
Addr == [alias |-> FALSE, to |-> <<>>]
To(name) == [alias |-> TRUE, to |-> name]

MCBuiltins == {"DIRECT"}
MCReserved == {"local-group", "tailscale"}
MCLocalGroups == {"local-group"}
MCDefault == T("ext", "default")
MCNames == UNION {[1..k -> {"a", "corp", "lan"}] : k \in 1..3}

(* Sources. *)
Rule(set, to) == [match |-> FALSE, set |-> set, to |-> to]
Match(to) == [match |-> TRUE, set |-> "", to |-> to]

FilterRule(labels) == [kind |-> "rule", match |-> FALSE, id |-> P("exact", labels)]
FilterMatch == [kind |-> "rule", match |-> TRUE, id |-> P("exact", <<>>)]
Domain(labels) == [kind |-> "domain", match |-> FALSE, id |-> P("exact", labels)]

Dns == [res |-> (<<"ns">> :> <<Ext>>), respect |-> "", mode |-> "blacklist",
        filter |-> <<>>, useHosts |-> FALSE, hosts |-> <<>>]

Plain == [proxies |-> {"p1"}, groups |-> ("G" :> [proxies |-> {"p1"}, use |-> {"v1"}]),
          providers |-> {"v1"}, sets |-> {"s1"},
          rules |-> <<Rule("s1", "G"), Match("DIRECT")>>,
          dns |-> Dns, enabled |-> FALSE, listen |-> [host |-> "", port |-> ""],
          services |-> <<>>]

Listening(host) == [Plain EXCEPT !.enabled = TRUE,
                                 !.listen = [host |-> host, port |-> "theirs"]]

SelfSource ==
    [Listening("any") EXCEPT !.dns.res =
        (<<"ns">> :> <<Ext>>) @@ (<<"psn">> :> <<Ext, Theirs>>)
        @@ (<<"ppol", P("plus", <<"corp">>)>> :> <<Theirs>>)]

SelfAndProxy == [SelfSource EXCEPT !.dns.respect = "true"]

OtherSpelling == [SelfSource EXCEPT !.dns.respect = "True"]

AsksTheLan == [Plain EXCEPT !.dns.res =
    (<<"ns">> :> Alone(T("lan", "own"))) @@ (<<"psn">> :> <<T("lan", "dns"), T("loop", "dns")>>)]

AskedByNames == [Listening("loop") EXCEPT !.dns.res = (<<"ns">> :> <<Theirs, Ext>>)]

Unclear ==
    [Listening("any") EXCEPT !.dns.res = (<<"psn">> :> <<T("localhost", "theirs")>>)]

Independent ==
    [Listening("any") EXCEPT !.dns.res = (<<"psn">> :> <<Theirs>>),
        !.services = (<<<<"psn">>, 1>> :> [target |-> Theirs, service |-> "independent"])]

OwnEndpoint == [Plain EXCEPT !.dns.res = (<<"psn">> :> <<T("loop", "own")>>)]

AsksTheHost == [Plain EXCEPT !.dns.res = (<<"ns">> :> <<T("system", "")>>)]

WithHosts ==
    [Plain EXCEPT !.dns.mode = "rule",
        !.dns.filter = <<FilterRule(<<"a", "corp">>), FilterRule(<<"a">>)>>,
        !.dns.hosts = (P("exact", <<"*", "corp">>) :> To(<<"a", "lan", "corp">>))
                      @@ (P("dot", <<"corp">>) :> To(<<"a">>)),
        !.dns.res = (<<"ns">> :> <<Proxied>>)
                    @@ (<<"pol", P("plus", <<"lan">>)>> :> <<Ext>>)
                    @@ (<<"psn">> :> <<Theirs>>)]

NoMatch == [Plain EXCEPT !.rules = <<Rule("", "p1")>>]

Misplaced == [Plain EXCEPT !.rules = <<Match("DIRECT"), Rule("", "p1")>>]

(* Overlays. *)
NoDns == [res |-> <<>>, append |-> <<>>, respect |-> "", mode |-> "", filter |-> <<>>,
          more |-> <<>>, useHosts |-> ""]

Off == [enabled |-> FALSE, prepend |-> <<>>, tail |-> <<>>, addProxies |-> {},
        newProxies |-> {}, addGroups |-> <<>>, newGroups |-> <<>>, patches |-> <<>>,
        addProviders |-> {}, newProviders |-> {}, addSets |-> {}, newSets |-> {},
        dns |-> NoDns]

On == [Off EXCEPT !.enabled = TRUE]

Grows == [On EXCEPT !.prepend = <<Rule("s2", "H")>>, !.tail = <<Rule("", "p2"), Rule("s1", "G")>>,
            !.addProxies = {"p2"}, !.addSets = {"s2"}, !.addProviders = {"v2"},
            !.addGroups = ("H" :> [proxies |-> {"p2", "G"}, use |-> {}]),
            !.patches = ("G" :> [proxies |-> {"p2"}, use |-> {"v2"}])]

Replaces == [On EXCEPT !.newGroups = ("G" :> [proxies |-> {"DIRECT"}, use |-> {"v1"}]),
                !.newProxies = {"p1"}, !.newProviders = {"v1"}, !.newSets = {"s1"},
                !.prepend = <<Rule("s1", "p1")>>]

Dangling == [On EXCEPT !.patches = ("G" :> [proxies |-> {"ghost"}, use |-> {}])]
DanglingRule == [On EXCEPT !.prepend = <<Rule("", "ghost")>>]
DanglingGroup == [On EXCEPT !.newGroups = ("G" :> [proxies |-> {"p2"}, use |-> {}])]
AddsMatch == [On EXCEPT !.prepend = <<Match("DIRECT")>>]

Redirects == [On EXCEPT !.dns = [res |-> (<<"psn">> :> <<Theirs>>),
                                 append |-> (<<"ns">> :> <<Ext, T("ext", "theirs")>>),
                                 respect |-> "", mode |-> "", filter |-> <<>>,
                                 more |-> <<FilterRule(<<"corp">>)>>, useHosts |-> "true"]]
FiltersByRule == [On EXCEPT !.dns.mode = "rule", !.dns.respect = "false",
                     !.dns.filter = <<<<FilterRule(<<"lan", "corp">>), FilterMatch>>>>]
FiltersAlone == [On EXCEPT !.dns.filter = <<Alone(Domain(<<"a">>))>>]
ByTheRules == [On EXCEPT !.dns.respect = "true"]

In(raw, overlay) == [raw |-> raw, overlay |-> overlay]

MCInputs ==
    {In(Plain, o) : o \in {Off, Grows, Replaces, Dangling, DanglingRule, DanglingGroup, AddsMatch}}
    \cup {In(NoMatch, o) : o \in {Off, [Grows EXCEPT !.tail = <<>>, !.patches = <<>>]}}
    \cup {In(raw, Off) : raw \in {SelfSource, SelfAndProxy, AskedByNames, Unclear,
                                  Independent, OwnEndpoint, AsksTheHost, WithHosts, Misplaced,
                                  OtherSpelling, AsksTheLan}}
    \cup {In(raw, Redirects) : raw \in {SelfSource, WithHosts, Plain, AsksTheLan}}
    \cup {In(raw, FiltersByRule) : raw \in {SelfAndProxy, WithHosts}}
    \cup {In(Plain, FiltersAlone)}
    \cup {In(SelfSource, ByTheRules)}

(* What an older version composed from a source and left selected. *)
MCLegacy ==
    {[Composed(in, NoCustom) EXCEPT !.profile.meta = NoSource, !.custom = NoCustom] :
        in \in {x \in {In(SelfSource, Redirects), In(Plain, Grows)} :
                   Composable(x.raw, x.overlay, NoCustom)}}

(* Drafts. *)
MCNoCustom == [enabled |-> FALSE, hosts |-> <<>>, res |-> <<>>, respect |-> "", mode |-> "",
               filter |-> <<>>, useHosts |-> ""]

Draft == [MCNoCustom EXCEPT !.enabled = TRUE]

MCCustoms ==
    {[Draft EXCEPT !.hosts = (P(k[1], k[2]) :> Addr)] :
        k \in {<<"exact", <<"*", "lan">>>>, <<"dot", <<"*">>>>, <<"plus", <<"a", "corp">>>>,
               <<"exact", <<"a", "*", "lan">>>>, <<"exact", <<"*">>>>}}
    \cup
    {[Draft EXCEPT !.respect = "false", !.mode = "rule",
                   !.filter = <<<<FilterRule(<<"corp">>), FilterRule(<<"a">>)>>>>],
     [Draft EXCEPT !.respect = "true",
                   !.res = (<<"pol", P("plus", <<"a">>)>> :> Alone(T("ext", "theirs")))],
     [Draft EXCEPT !.hosts = (P("plus", <<"corp">>) :> To(<<"a", "corp", "a">>))
                             @@ (P("exact", <<"a", "*", "a">>) :> To(<<"corp", "lan">>))],
     [Draft EXCEPT !.hosts = (P("exact", <<"lan", "corp">>) :> To(<<"a", "corp">>)),
                   !.useHosts = "true"],
     [Draft EXCEPT !.hosts = (P("exact", <<"a", "lan", "corp">>) :> To(<<"corp", "corp">>))],
     [Draft EXCEPT !.hosts = (P("exact", <<"a", "corp">>) :> Addr), !.useHosts = "false"],
     [Draft EXCEPT !.res = (<<"ns">> :> <<Ext>>) @@ (<<"psn">> :> <<Theirs>>)
                           @@ (<<"pol", P("plus", <<"corp">>)>> :> <<T("ext", "theirs")>>)],
     [Draft EXCEPT !.res = (<<"ns">> :> <<T("lan", "dns")>>)],
     [Draft EXCEPT !.res = (<<"ns">> :> <<T("file", "")>>)],
     [Draft EXCEPT !.filter = <<<<Domain(<<"a", "corp">>)>>>>, !.mode = "blacklist",
                   !.res = (<<"pol", P("plus", <<"a", "lan">>)>> :> <<Ext>>)],
     [Draft EXCEPT !.mode = "whitelist"],
     [Draft EXCEPT !.filter = <<<<FilterRule(<<"a">>), FilterMatch>>>>]}

(* Network settings. *)
Net(managed, upstream, dhcp, domain, captured) ==
    [managed |-> managed, upstream |-> upstream, dhcp |-> dhcp, domain |-> domain,
     captured |-> captured, private |-> {<<"corp">>}]

MCNets == {Net(TRUE, TRUE, TRUE, <<"lan">>, {Ext, T("lan", "dns"), T("loop", "dns")}),
           Net(TRUE, TRUE, FALSE, <<>>, {Ext}),
           Net(TRUE, TRUE, TRUE, <<"lan", "corp">>, {Ext}),
           Net(TRUE, FALSE, TRUE, <<>>, {T("loop", "dns")}),
           Net(FALSE, TRUE, FALSE, <<>>, {Ext})}
==============================================================================
