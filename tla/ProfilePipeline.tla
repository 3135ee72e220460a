--------------------------- MODULE ProfilePipeline ---------------------------
(* From a selected source, the global overlay and the custom DNS draft to   *)
(* the configuration the engine runs, or its prepared copy                  *)
(* (internal/mihomo/config.go; internal/controlapi/policy_workspace.go,     *)
(* custom_dns.go). Composition, validation, coordination and binding are    *)
(* the operators of ProfileOverlay, CustomDns and DnsReferences; here are   *)
(* their order and what may change between them: a profile is composed once *)
(* and rendered later, under the network settings of that moment.           *)
EXTENDS ProfileOverlay, CustomDns

CONSTANTS
    Inputs,     \* the selected raw sources, each with an overlay document
    Customs,    \* the custom DNS documents a user may enter
    NoCustom,   \* the document that is off
    Nets,       \* the network settings
    Legacy,     \* profiles an older version composed and left selected
    Default,    \* the resolver of a profile without one
    Names,      \* bound: the names looked up in the properties
    MaxEdits    \* bound: how often drafts and settings change

Absent == [kind |-> "none"]

VARIABLES
    input,   \* the selected source and the overlay
    custom,  \* the custom DNS draft
    net,     \* the network settings of the saved configuration
    saved,   \* the composed profile the configuration selects
    engine,  \* what the engine runs: nothing, a prepared copy, the gateway
    edits

pipeline == <<input, custom, net, saved, engine, edits>>

(***************************************************************************)
(* Composing.                                                              *)
(***************************************************************************)
Read(raw) ==
    [proxies |-> raw.proxies, groups |-> raw.groups, providers |-> raw.providers,
     sets |-> raw.sets, rules |-> raw.rules,
     dns |-> Retained(raw.dns, Default), meta |-> CapturedSource(raw, Default)]

\* One layer over a profile: the fields it changes, and their provenance.
Layered(p, dns, layer) ==
    [p EXCEPT !.dns = dns, !.meta.origins = RefreshedOrigins(@, dns, layer)]

WithOverlay(p, o) ==
    IF ~o.enabled THEN p
    ELSE LET q == Overlaid(p, o)
         IN  Layered(q, OverlaidDns(q.dns, o.dns), "global-overlay")

WithCustom(p, c) ==
    IF ~c.enabled THEN p ELSE Layered(p, CustomMerged(p.dns, c), "custom-dns")

Composable(raw, o, c) ==
    LET p == Read(raw)
        q == WithOverlay(p, o)
    IN  /\ Accepted(p)
        /\ o.enabled => ValidOverlay(o) /\ OverlayFits(p, o) /\ OverlayDnsFits(p.dns, o.dns)
        /\ c.enabled => /\ IsCustomDocument(c)
                        /\ CustomFits(q.dns, c)
                        /\ AliasesEnd(WithCustom(q, c).dns.hosts, c.hosts, FALSE, <<>>)

\* The immutable candidate: the profile with the draft it was composed with.
Composed(in, c) ==
    [kind |-> "profile", profile |-> WithCustom(WithOverlay(Read(in.raw), in.overlay), c),
     custom |-> c, overlaid |-> in.overlay.enabled, in |-> in]

(***************************************************************************)
(* Rendering.                                                              *)
(***************************************************************************)
Checked(n, s) == s.custom.enabled => CandidateFits(n, s.profile.dns.hosts, s.custom)

Renderable(n, s) ==
    LET p == s.profile
        dns == Coordinated(n, p.dns)
    IN  /\ Checked(n, s)
        /\ s.overlaid => ~NeedsSourceRecovery(p.meta, p.dns)
        /\ CanCoordinate(n, p.dns)
        /\ CanBind(dns, p.meta)
        /\ s.custom.enabled => ~ForwardsToItself(Bound(dns, p.meta))

Rendered(n, s) ==
    LET p == s.profile
        dns == Coordinated(n, p.dns)
        self == SelfSlots(dns, p.meta)
        bound == Bound(dns, p.meta)
    IN  [kind |-> "gateway", listen |-> "gateway", rules |-> p.rules,
         self |-> self,
         dns |-> IF self = {} THEN bound ELSE WithProbe(bound, "formal"),
         origins |-> [x \in Slots(dns) |->
             IF /\ x \in DOMAIN p.meta.origins
                /\ p.meta.origins[x].target = TargetAt(dns, x)
             THEN p.meta.origins[x]
             ELSE [target |-> TargetAt(dns, x), layer |-> "managed", over |-> "none"]],
         from |-> s, under |-> n]

(***************************************************************************)
(* What the documents are.                                                 *)
(***************************************************************************)
IsList(q) == q \in Seq(Range(q))

IsPattern(p) == p.kind \in {"exact", "dot", "plus"} /\ IsList(p.labels) /\ p.labels # <<>>

IsHosts(hosts) == /\ IsFiniteSet(DOMAIN hosts)
                  /\ \A p \in DOMAIN hosts :
                         IsPattern(p) /\ (hosts[p].alias => IsList(hosts[p].to))

IsFilter(v) == Listed(v) => IsList(v)

IsSource(raw) == /\ IsDns(raw.dns) /\ IsFilter(raw.dns.filter) /\ IsList(raw.rules)
                 /\ IsHosts(raw.dns.hosts)

IsOverlay(o) == /\ o.enabled \in BOOLEAN
                /\ o.dns.respect \in {"", "false", "true"}
                /\ IsResolvers(o.dns.res) /\ IsResolvers(o.dns.append)
                /\ \A f \in DOMAIN o.dns.append : o.dns.append[f] \in Seq(Target)
                /\ o.dns.filter # <<>> => IsFilter(o.dns.filter[1])
                /\ IsList(o.dns.more) /\ IsList(o.prepend) /\ IsList(o.tail)

IsDraft(c) ==
    /\ c = [enabled |-> c.enabled, hosts |-> c.hosts, res |-> c.res, respect |-> c.respect,
            mode |-> c.mode, filter |-> c.filter, useHosts |-> c.useHosts]
    /\ c.enabled \in BOOLEAN /\ c.respect \in {"", "false", "true"}
    /\ IsResolvers(c.res) /\ IsHosts(c.hosts)
    /\ \A f \in DOMAIN c.res : Len(f) = 2 => IsPattern(f[2])
    /\ c.filter # <<>> => IsList(c.filter[1])

\* The resolvers a host had are literal addresses.
IsNet(n) == /\ n.managed \in BOOLEAN /\ IsList(n.domain)
            /\ n.captured \subseteq Target /\ IsFiniteSet(n.captured) /\ IsFiniteSet(n.private)
            /\ \A t \in n.captured : t.host \in {"loop", "lan", "tun", "ext"}

\* What an older version composed and left selected: no record of the source.
OldVersion(in) == [Composed(in, NoCustom) EXCEPT !.profile.meta = NoSource]

ASSUME PipelineAssumption ==
    /\ \A in \in Inputs : IsSource(in.raw) /\ IsOverlay(in.overlay)
    /\ \A c \in Customs \cup {NoCustom} : IsDraft(c)
    /\ ~NoCustom.enabled
    /\ \A n \in Nets : IsNet(n)
    /\ \A x \in Names : IsList(x)
    /\ Default \in Target
    /\ Legacy \subseteq {OldVersion(in) : in \in {x \in Inputs :
            x.overlay.enabled /\ Composable(x.raw, x.overlay, NoCustom)}}

(***************************************************************************)
(* Steps.                                                                  *)
(***************************************************************************)
PipelineInit ==
    /\ input \in Inputs
    /\ custom = NoCustom
    /\ net \in Nets
    /\ saved \in {Absent} \cup Legacy
    /\ saved # Absent => saved.in = input
    /\ engine = Absent
    /\ edits = 0

\* PUT of the draft: it is normalised and saved, and nothing else changes.
SaveDraft(c) ==
    /\ IsCustomDocument(c)
    /\ custom' = c
    /\ edits < MaxEdits /\ edits' = edits + 1
    /\ UNCHANGED <<input, net, saved, engine>>

\* An import shown to the user and accepted: the sections it has.
ImportDraft(c, sections) ==
    /\ IsCustomDocument(c) /\ custom.enabled
    /\ custom' = Imported(custom, c, sections)
    /\ edits < MaxEdits /\ edits' = edits + 1
    /\ UNCHANGED <<input, net, saved, engine>>

\* The settings of a stopped gateway: DHCP, system DNS, what was captured.
ChangeNet(n) ==
    /\ engine.kind # "gateway"
    /\ net' = n
    /\ edits < MaxEdits /\ edits' = edits + 1
    /\ UNCHANGED <<input, custom, saved, engine>>

\* Start from the drafts: the candidate is composed, checked, rendered and
\* saved in one transaction, and takes the place of a prepared engine.
StartDraft ==
    /\ engine.kind # "gateway"
    /\ Composable(input.raw, input.overlay, custom)
    /\ Renderable(net, Composed(input, custom))
    /\ saved' = Composed(input, custom)
    /\ engine' = Rendered(net, saved')
    /\ UNCHANGED <<input, custom, net, edits>>

\* Start of what is saved, by the command line or by the recovery of the
\* engine: the profile is not composed again.
StartSaved ==
    /\ engine.kind # "gateway"
    /\ saved # Absent
    /\ Renderable(net, saved)
    /\ engine' = Rendered(net, saved)
    /\ UNCHANGED <<input, custom, net, saved, edits>>

\* The policy page of a stopped gateway: the drafts, composed and rendered
\* the same way, run in a copy without the gateway's entrances.
Prepare ==
    /\ engine.kind # "gateway"
    /\ Composable(input.raw, input.overlay, custom)
    /\ Renderable(net, Composed(input, custom))
    /\ LET final == Rendered(net, Composed(input, custom))
       IN  /\ CanPrepare(final)
           /\ engine' = [PreparedCopy(final) EXCEPT !.kind = "prepared"]
    /\ UNCHANGED <<input, custom, net, saved, edits>>

Stop ==
    /\ engine # Absent
    /\ engine' = Absent
    /\ UNCHANGED <<input, custom, net, saved, edits>>

PipelineNext ==
    \/ \E c \in Customs : SaveDraft(c)
    \/ \E c \in Customs, s \in {{"hosts"}, {"dns"}} : ImportDraft(c, s)
    \/ \E n \in Nets : ChangeNet(n)
    \/ StartDraft
    \/ StartSaved
    \/ Prepare
    \/ Stop

PipelineSpec == PipelineInit /\ [][PipelineNext]_pipeline

(***************************************************************************)
(* How the engine uses a configuration: its rules, its domain trie, and     *)
(* which of its resolvers asks which.                                       *)
(***************************************************************************)
\* The rule that decides on a connection that the rules in M match.
Decides(rules, M) ==
    LET hit == {i \in DOMAIN rules : rules[i].match \/ rules[i] \in M}
    IN  IF hit = {} THEN <<>> ELSE <<rules[CHOOSE i \in hit : \A j \in hit : i <= j]>>

\* The search of the trie, from the last label: a literal label, else "*",
\* else whatever ends in ".", going back when a branch holds nothing.
Found(hosts, name) ==
    LET n == Len(name)
        ends(p, path) == p.labels = path /\ (p.kind = "exact" \/ p.kind = "plus")
        below(p, path) == p.labels = path /\ p.kind # "exact"
        at[path \in UNION {[1..k -> Range(name) \cup {"*"}] : k \in 0..n}] ==
            LET k == Len(path)
                literal == at[<<name[n - k]>> \o path]
                star == at[<<"*">> \o path]
            IN  IF k = n THEN {p \in DOMAIN hosts : ends(p, path)}
                ELSE IF literal # {} THEN literal
                ELSE IF star # {} THEN star
                ELSE {p \in DOMAIN hosts : below(p, path)}
    IN  at[<<>>]

\* Where looking a name up in hosts leads in k steps.
LedTo(hosts, start, k) ==
    LET led[i \in 0..k] ==
            IF i = 0 THEN {start}
            ELSE UNION {{hosts[p].to : p \in {q \in Found(hosts, x) : hosts[q].alias}} :
                           x \in led[i - 1]}
    IN  led[k]

Ordinary(e) == {s \in Slots(e.dns) : Purpose(s) \in {"ns", "pol"}}

\* Who asks whom: the resolver of names, the resolver of proxies, and the
\* gateway's own DNS, which answers with the resolver of names. The engine
\* listens at port 1053 of every address, the gateway's dnsmasq at port 53
\* of the LAN address and the loopback, and hands on to the engine what its
\* upstream is; a prepared copy listens at the loopback alone.
Asks(e) ==
    LET at(s) == TargetAt(e.dns, s)
        own(t) == /\ t.scheme = "plain"
                  /\ IF e.kind = "gateway"
                     THEN /\ Local(t) \/ t.host = "lan"
                          /\ (t.port = "own") \/ (t.port = "dns" /\ e.under.upstream)
                     ELSE Local(t) /\ t.port = "private"
        back(t) == own(t) \/ (t.host = "system" /\ e.under.managed)
        by(s) == IF s \in Ordinary(e) THEN "names" ELSE "proxies"
        rules == e.dns.respect \in {"true", "True"}
    IN  {<<by(s), "names">> : s \in {x \in Slots(e.dns) : back(at(x))}} \cup
        {<<by(s), "proxies">> : s \in {x \in Slots(e.dns) :
            at(x).via = "proxy" \/ (rules /\ x \in Ordinary(e) /\ ~back(at(x)))}}

\* What leads back and nobody refuses: the LAN address, at port 53 unless a
\* draft is composed in, and port 53 of the loopback; and respect-rules in
\* another spelling, next to a reference to itself.
Overlooked(e) ==
    \/ \E s \in Slots(e.dns) :
           LET t == TargetAt(e.dns, s)
           IN  \/ t.host = "lan" /\ t.port = "own"
               \/ t.host = "lan" /\ t.port = "dns" /\ ~e.from.custom.enabled
               \/ Local(t) /\ t.port = "dns"
    \/ e.self # {} /\ e.dns.respect = "True"

(***************************************************************************)
(* Properties.                                                             *)
(***************************************************************************)
Runs == engine # Absent

\* But for the endpoints and the spelling the code overlooks, no resolver of
\* a running engine leads back to itself, through its own listener or the
\* gateway's dnsmasq: names are never asked there while answering names, and
\* where resolving proxies asks there, no resolver of names needs a proxy.
NoLoopThroughSelf ==
    Runs /\ ~Overlooked(engine) =>
            /\ <<"names", "names">> \notin Asks(engine)
            /\ ~({<<"proxies", "names">>, <<"names", "proxies">>} \subseteq Asks(engine))

\* What a source asked of its own DNS is asked of the DNS that runs now, in
\* the gateway and in the prepared copy, also in profiles composed before:
\* no target is left at the listener the source had.
SelfFollows ==
    Runs => \A s \in Slots(engine.dns) :
        LET raw == engine.from.in.raw
            t == TargetAt(engine.dns, s)
        IN  ~ /\ raw.enabled /\ t.host = "loop" /\ t.port = "theirs"
              /\ raw.listen.port = "theirs" /\ raw.listen.host \in {"any", "loop"}
              /\ Declared(CapturedSource(raw, Default), s, t) # "independent"

\* A prepared copy never asks the gateway's own DNS endpoint, it listens
\* only when it refers to itself and then where it refers to, and every
\* other target is the one the gateway would use.
PreparedIsApart ==
    engine.kind = "prepared" =>
        LET final == Rendered(engine.under, engine.from)
            own == {s \in Slots(engine.dns) : TargetAt(engine.dns, s) = Private}
            extra(dns) == {s \in Slots(dns) : TargetAt(dns, s).host = "rcode"}
        IN  /\ \A s \in Slots(engine.dns) :
                   LET t == TargetAt(engine.dns, s)
                   IN  ~(Local(t) /\ t.port = "own" /\ t.scheme = "plain")
            /\ (engine.listen = "private") <=> (own # {})
            /\ Cardinality(extra(engine.dns)) = IF own = {} THEN 0 ELSE 1
            /\ \A s \in Slots(final.dns) \ (final.self \cup extra(final.dns)) :
                   TargetAt(engine.dns, s) = TargetAt(final.dns, s)

\* Every entry of the draft a profile was composed with is what the engine
\* uses for that domain or field, whatever the source, the overlay and the
\* host's own resolvers say, hosts are looked at when it has any, and what it
\* does not say of respect-rules or the filter's mode is the overlay's, else
\* the source's.
CustomWins ==
    Runs /\ engine.from.custom.enabled =>
        LET c == engine.from.custom
            raw == engine.from.in.raw.dns
            over == engine.from.in.overlay.enabled
            o == engine.from.in.overlay.dns
        IN  /\ \A p \in DOMAIN c.hosts : engine.dns.hosts[p] = c.hosts[p]
            /\ \A s \in Slots(c) :
                   s \in engine.self \/ TargetAt(engine.dns, s) = TargetAt(c, s)
            /\ c.hosts # <<>> => engine.dns.useHosts
            /\ engine.dns.respect =
                   Said(c.respect, IF over THEN Said(o.respect, raw.respect) ELSE raw.respect)
            /\ engine.dns.mode =
                   Said(c.mode, IF over THEN Said(o.mode, raw.mode) ELSE raw.mode)

\* The filter of names that get a real address: the draft's domains are all
\* in it, and of its rules the host's private domains decide first, then
\* the draft's, and then the inherited ones unless the draft changed the mode.
FilterInOrder ==
    Runs /\ engine.from.custom.enabled /\ engine.from.custom.filter # <<>> =>
        LET c == engine.from.custom
            list == c.filter[1]
            filter == engine.dns.filter
            mid == WithOverlay(Read(engine.from.in.raw), engine.from.in.overlay).dns
            host == IF Uncoordinated(engine.under) THEN <<>>
                    ELSE PrivateFilter(engine.under, engine.dns)
            rest == IF NextMode(mid, c) = mid.mode THEN mid.filter ELSE <<>>
        IN  /\ Range(list) \subseteq Range(filter)
            /\ engine.dns.mode = "rule" =>
                   \A M \in SUBSET Range(filter) :
                       Decides(filter, M) =
                           IF Decides(host, M) # <<>> THEN Decides(host, M)
                           ELSE IF Decides(list, M) # <<>> THEN Decides(list, M)
                           ELSE Decides(rest, M)

\* While DHCP serves names, no entry of the draft answers one of them and no
\* alias of the draft leads to one; and following aliases always ends. The
\* names are those of the trie search, the settings those of the rendering.
LeaseNamesReserved ==
    Runs /\ engine.from.custom.enabled =>
        LET c == engine.from.custom
            hosts == engine.dns.hosts
            lease(x) == \/ Len(x) = 1
                        \/ /\ engine.under.domain # <<>>
                           /\ Len(x) > Len(engine.under.domain)
                           /\ Suffix(x, Len(engine.under.domain)) = engine.under.domain
            policies == [f \in {g \in DOMAIN c.res : Len(g) = 2} |-> c.res[f]]
        IN  /\ engine.under.dhcp =>
                   \A x \in {y \in Names : lease(y)} :
                       /\ Found(c.hosts, x) = {}
                       /\ Found([p \in {f[2] : f \in DOMAIN policies} |-> TRUE], x) = {}
            /\ \A p \in DOMAIN c.hosts : c.hosts[p].alias =>
                   /\ LedTo(hosts, c.hosts[p].to, Cardinality(DOMAIN hosts) + 1) = {}
                   /\ engine.under.dhcp =>
                          \A k \in 0..Cardinality(DOMAIN hosts) :
                              \A x \in LedTo(hosts, c.hosts[p].to, k) : ~lease(x)

\* The overlay decides first where it was prepended and last before MATCH,
\* and everything else is decided as the source alone decides it.
SourceStillDecides ==
    Runs =>
        LET raw == engine.from.in.raw.rules
            o == IF engine.from.overlaid THEN engine.from.in.overlay
                 ELSE [prepend |-> <<>>, tail |-> <<>>]
        IN  \A M \in SUBSET Range(Body(raw) \o o.prepend \o o.tail) :
                Decides(engine.rules, M) =
                    IF Decides(o.prepend, M) # <<>> THEN Decides(o.prepend, M)
                    ELSE IF Decides(Body(raw), M) # <<>> THEN Decides(raw, M)
                    ELSE IF Decides(o.tail, M) # <<>> THEN Decides(o.tail, M)
                    ELSE Decides(raw, M)

\* A composed profile refers to nothing that is not in it, in what the
\* overlay added as in what the source already had.
ReferencesResolve ==
    saved # Absent =>
        LET p == saved.profile
            raw == Read(saved.in.raw)
            sound(q) ==
                /\ \A g \in DOMAIN q.groups :
                       /\ q.groups[g].proxies \subseteq Targets(q) \cup Builtins
                       /\ q.groups[g].use \subseteq q.providers
                /\ \A r \in Range(q.rules) :
                       /\ r.to \in Targets(q) \cup Builtins
                       /\ r.set \in q.sets \cup {""}
        IN  sound(raw) => sound(p)

\* The reported origin of a resolver is the last layer that changed it:
\* the draft for what only the draft set, the overlay where the draft left
\* it alone, the subscription where neither changed it, else the gateway.
OriginsAreTrue ==
    Runs /\ engine.from.profile.meta.stored =>
        LET in == engine.from.in
            raw == in.raw.dns
            mid == WithOverlay(Read(in.raw), in.overlay).dns
            last == engine.from.profile.dns
            same(a, b, s) == /\ s \in Slots(a) \cap Slots(b)
                             /\ TargetAt(a, s) = TargetAt(b, s)
        IN  \A s \in DOMAIN engine.origins :
                engine.origins[s].layer =
                    IF s \notin Slots(last) THEN "managed"
                    ELSE IF ~same(mid, last, s) THEN "custom-dns"
                    ELSE IF ~same(Retained(raw, Default), mid, s) THEN "global-overlay"
                    ELSE IF s \in Slots(raw) THEN "subscription" ELSE "managed"

\* References of a source to its own DNS are bound to the engine that runs, and
\* only where no resolver ends up asking itself.
SelfReferencesBound == SelfFollows /\ NoLoopThroughSelf

\* The draft wins over host, overlay and source, but for the host's private
\* domains in the filter, and every resolver is shown under the layer that
\* really decided it.
LastLayerWins == CustomWins /\ FilterInOrder /\ OriginsAreTrue

\* An overlay changes the decisions it names and no other, and refers to
\* nothing that the composed profile lacks.
OverlayIsLocal == SourceStillDecides /\ ReferencesResolve

\* Each layer decides what it speaks about and nothing else: draft over host
\* over overlay over source, and in the filter host over draft.
LayersInOrder == LastLayerWins /\ OverlayIsLocal
==============================================================================
