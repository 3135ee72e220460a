------------------------------ MODULE CustomDns ------------------------------
(* The custom DNS draft (internal/mihomo/custom_dns.go), the DNS part of the *)
(* global overlay, and the coordination with the resolvers of the host       *)
(* (internal/mihomo/system_dns.go), over the DNS fields of DnsReferences.    *)
(*                                                                           *)
(* A domain pattern is [kind, labels]: "exact", "dot" for .x (below x) or    *)
(* "plus" for +.x (x and below), a label "*" standing for any one label. A   *)
(* name is a sequence of labels. Hosts give a pattern [alias, to]: an        *)
(* address or the name it is an alias of. A fake-IP filter is a list of      *)
(* items [kind, match, id]: a "domain" or a "rule", which may be a MATCH.    *)
EXTENDS DnsReferences, SequencesExt, Functions

(***************************************************************************)
(* The document.                                                           *)
(***************************************************************************)
\* What normalising a draft accepts: resolvers in the fields that hold them
\* (no file, no directive), and a mode by its name.
IsCustomDocument(c) ==
    /\ \A f \in DOMAIN c.res : \A i \in DOMAIN c.res[f] : c.res[f][i].host # "file"
    /\ c.mode \in {"", "blacklist", "whitelist", "rule"}
    /\ \A p \in DOMAIN c.hosts : c.hosts[p].alias => c.hosts[p].to # <<>>

\* An import replaces the sections it has, whole, and keeps the others.
Imported(c, incoming, sections) ==
    LET dns == IF "dns" \in sections THEN incoming ELSE c
    IN  [enabled |-> c.enabled, hosts |-> IF "hosts" \in sections THEN incoming.hosts ELSE c.hosts,
         res |-> dns.res, respect |-> dns.respect, mode |-> dns.mode, filter |-> dns.filter,
         useHosts |-> dns.useHosts]

(***************************************************************************)
(* Merging into the DNS fields.                                            *)
(***************************************************************************)
\* What is said, and what was before where nothing is.
Said(new, old) == IF new = "" THEN old ELSE new

\* The overlay's part: fields and policy entries replaced, lists appended.
OverlaidDns(dns, o) ==
    LET merged == Before(o.res, dns.res)
        filter == IF o.filter = <<>> THEN dns.filter ELSE o.filter[1]
    IN  [hosts |-> dns.hosts, respect |-> Said(o.respect, dns.respect),
         mode |-> Said(o.mode, dns.mode),
         useHosts |-> IF o.useHosts = "" THEN dns.useHosts ELSE o.useHosts = "true",
         filter |-> IF o.more = <<>> THEN filter ELSE filter \o o.more,
         res |-> [f \in DOMAIN merged \cup DOMAIN o.append |->
                     IF f \notin DOMAIN o.append THEN merged[f]
                     ELSE IF f \notin DOMAIN merged THEN o.append[f]
                     ELSE merged[f] \o o.append[f]]]

\* Only lists are appended to, and a policy is none.
OverlayDnsFits(dns, o) ==
    LET merged == Before(o.res, dns.res)
    IN  /\ \A f \in DOMAIN o.append :
               Len(f) = 1 /\ (f \in DOMAIN merged => Listed(merged[f]))
        /\ o.more # <<>> => Listed(IF o.filter = <<>> THEN dns.filter ELSE o.filter[1])

NextMode(dns, c) == Said(c.mode, dns.mode)

\* A list with every item once, where it comes first.
Once(list) ==
    LET kept[n \in 0..Len(list)] ==
            IF n = 0 THEN <<>>
            ELSE IF list[n] \in Range(kept[n - 1]) THEN kept[n - 1]
            ELSE Append(kept[n - 1], list[n])
    IN  kept[Len(list)]

\* Mutant: a list is added at the end, rules as well as domains.
AddedLast(dns, c) ==
    IF NextMode(dns, c) # dns.mode THEN c.filter[1] ELSE Once(dns.filter \o c.filter[1])

\* Unless the mode changes, a list is added to: before the inherited rules,
\* after the inherited domains, each item once.
MergedFilter(dns, c) ==
    LET custom == c.filter[1]
    IN  IF NextMode(dns, c) # dns.mode THEN custom
        ELSE IF dns.mode = "rule" THEN Once(custom \o dns.filter)
        ELSE Once(dns.filter \o custom)

FilterFits(dns, c) ==
    /\ c.filter = <<>> => NextMode(dns, c) = dns.mode
    /\ c.filter # <<>> =>
           LET items == c.filter[1]
           IN  /\ NextMode(dns, c) = dns.mode => Listed(dns.filter)
               /\ IF NextMode(dns, c) = "rule"
                  THEN \A i \in DOMAIN items : /\ items[i].kind = "rule"
                                               /\ items[i].match => i = Len(items)
                  ELSE \A i \in DOMAIN items : items[i].kind = "domain"

\* Every custom entry takes the place of the inherited one, and hosts are
\* switched on when there are any.
CustomMerged(dns, c) ==
    [hosts |-> Before(c.hosts, dns.hosts), res |-> Before(c.res, dns.res),
     respect |-> Said(c.respect, dns.respect), mode |-> NextMode(dns, c),
     filter |-> IF c.filter = <<>> THEN dns.filter ELSE MergedFilter(dns, c),
     useHosts |-> IF c.hosts # <<>> THEN TRUE
                  ELSE IF c.useHosts = "" THEN dns.useHosts ELSE c.useHosts = "true"]

CustomFits(dns, c) ==
    /\ FilterFits(dns, c)
    /\ c.hosts # <<>> => c.useHosts # "false"

(***************************************************************************)
(* Domain patterns against names.                                          *)
(***************************************************************************)
Suffix(s, n) == SubSeq(s, Len(s) - n + 1, Len(s))

DomainMatches(p, name) ==
    LET k == Len(p.labels)
        n == Len(name)
    IN  /\ k <= n
        /\ p.kind = "exact" => n = k
        /\ p.kind = "dot" => n # k
        /\ \A i \in 0..(k - 1) : p.labels[k - i] \in {"*", name[n - i]}

\* How precisely a pattern matches a name: a digit for each label, from the
\* last to the first.
DomainRank(p, name) ==
    LET k == Len(p.labels)
    IN  [i \in 1..Len(name) |-> IF i > k THEN 0 ELSE IF p.labels[k - i + 1] = "*" THEN 1 ELSE 2]

\* The order of strings of one length.
Higher(a, b) == \E i \in DOMAIN a : a[i] > b[i] /\ \A j \in DOMAIN a : j < i => a[j] = b[j]

Wild(p) == p.kind # "exact" \/ "*" \in Range(p.labels)

\* The entries that may answer a name: the ones of the highest rank.
BestEntries(hosts, name) ==
    LET matching == {p \in DOMAIN hosts : DomainMatches(p, name)}
    IN  {p \in matching : \A q \in matching : ~Higher(DomainRank(q, name), DomainRank(p, name))}

AliasTargets(hosts, name) ==
    {hosts[p].to : p \in {q \in BestEntries(hosts, name) : hosts[q].alias}}

\* The names an alias may lead to, in as many steps as there are entries.
ReachedIn(hosts, start) ==
    LET most == Cardinality(DOMAIN hosts)
        reach[n \in 0..most] ==
            IF n = 0 THEN {start}
            ELSE reach[n - 1] \cup UNION {AliasTargets(hosts, x) : x \in reach[n - 1]}
    IN  reach[most]

Circular(hosts, start) ==
    \E x \in ReachedIn(hosts, start) :
        \E y \in AliasTargets(hosts, x) : x \in ReachedIn(hosts, y)

\* Mutant: a pattern covers lease names only when it spells out their suffix.
SpelledOut(p, domain) ==
    \/ Len(p.labels) = 1 /\ p.kind # "dot"
    \/ domain # <<>> /\ Len(p.labels) >= Len(domain) /\ Suffix(p.labels, Len(domain)) = domain

\* Whether a pattern may match a name DHCP can give out: a single label, or
\* one in the lease domain.
OverlapsLeases(p, domain) ==
    LET k == Len(p.labels)
        d == Len(domain)
        shared == IF k < d THEN k ELSE d
    IN  \/ k = 1 /\ p.kind # "dot"
        \/ /\ domain # <<>>
           /\ IF Wild(p)
              THEN /\ p.kind # "exact" \/ k >= d
                   /\ \A i \in 0..(shared - 1) : p.labels[k - i] \in {"*", domain[d - i]}
              ELSE k >= d /\ Suffix(p.labels, d) = domain

\* Aliases of the draft end, in all the hosts it is composed into, at no
\* name DHCP can give out.
AliasesEnd(hosts, custom, dhcp, domain) ==
    \A p \in DOMAIN custom :
        custom[p].alias =>
            /\ ~Circular(hosts, custom[p].to)
            /\ dhcp => \A x \in ReachedIn(hosts, custom[p].to) :
                           ~OverlapsLeases([kind |-> "exact", labels |-> x], domain)

(***************************************************************************)
(* A candidate against the network settings, each time it is rendered.      *)
(* net is [managed, upstream, dhcp, domain, captured, private]: whether the *)
(* gateway manages the host's DNS and the upstream of its own, the lease     *)
(* domain, the resolvers the host had and its search domains.                *)
(***************************************************************************)
CandidateFits(net, hosts, c) ==
    /\ net.upstream
    /\ net.managed
    /\ net.dhcp => \A p \in DOMAIN c.hosts \cup
                            {f[2] : f \in {g \in DOMAIN c.res : Len(g) = 2}} :
                       ~OverlapsLeases(p, net.domain)
    /\ AliasesEnd(hosts, c.hosts, net.dhcp, net.domain)

\* A resolver at an own address of the gateway would be asked by itself.
ForwardsToItself(dns) ==
    \E s \in Slots(dns) : LET t == TargetAt(dns, s)
                          IN  t.scheme = "plain" /\ t.host = "lan" /\ t.port = "dns"

\* The private domains of the host go to the resolvers it had, other than
\* the gateway's own, unless the profile has an entry for them.
Resolvers(net) ==
    SetToSeq({t \in net.captured : t.host \notin {"loop", "lan", "tun"}})

PrivateDomains(net) ==
    {[kind |-> "plus", labels |-> d] :
        d \in ({<<"lan">>} \cup net.private \cup {net.domain}) \ {<<>>, <<"local">>}}

PrivateFilter(net, dns) ==
    LET all == SetToSeq(PrivateDomains(net))
    IN  IF dns.mode = "whitelist" THEN <<>>
        ELSE [i \in DOMAIN all |-> [kind |-> IF dns.mode = "rule" THEN "rule" ELSE "domain",
                                     match |-> FALSE, id |-> all[i]]]

\* The host's items come before those of the profile, so of two rules of a
\* filter the host's decides.
Uncoordinated(net) == ~net.managed \/ Resolvers(net) = <<>>

Coordinated(net, dns) ==
    IF Uncoordinated(net) THEN dns
    ELSE [dns EXCEPT
             !.res = Before(@, [f \in {<<"pol", d>> : d \in PrivateDomains(net)} |-> Resolvers(net)]),
             !.filter = PrivateFilter(net, dns) \o @]

\* Once the host's DNS leads into the engine, the engine may not ask the host.
CanCoordinate(net, dns) ==
    /\ net.managed => \A s \in Slots(dns) : TargetAt(dns, s).host # "system"
    /\ ~Uncoordinated(net) => Listed(dns.filter)
==============================================================================
