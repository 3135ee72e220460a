---------------------------- MODULE DnsReferences ----------------------------
(* The resolver targets of a profile: where they come from, which of them   *)
(* lead back to the profile's own DNS, and how a rendered configuration and  *)
(* its prepared copy bind those (internal/mihomo/dns_references.go and       *)
(* prepared_dns.go).                                                         *)
(*                                                                           *)
(* A target is [host, port, scheme, via]: the address "loop", "any",         *)
(* "localhost", "lan" (the gateway's own), "tun", "ext" or "system" (the     *)
(* host's own resolver); the port "own" (1053, the gateway's engine), "dns"  *)
(* (53), "theirs" (one a subscription chose) or "private" (of a prepared     *)
(* copy); "plain" udp or tcp, or "secure"; and the URL parameter "none",     *)
(* "proxy" or "direct". The DNS fields are [res, respect, ...]: res gives a  *)
(* list of targets to each field <<name>> and policy entry <<name, domain>>, *)
(* with "ns" for nameserver and every other list of ordinary resolvers,      *)
(* "psn" for proxy-server-nameserver, "pol" and "ppol" for their policies.   *)
(* A field given as one value and not as a list has it at index 0. respect   *)
(* is the text of respect-rules: "True" is a source's other spelling of the  *)
(* YAML boolean, which the engine reads as "true".                           *)
EXTENDS Naturals, Sequences, FiniteSets

Target == [host : {"loop", "any", "localhost", "lan", "tun", "ext", "system", "file"},
           port : {"own", "dns", "theirs", "default", ""},
           scheme : {"plain", "secure"}, via : {"none", "proxy", "direct"}]

\* What f says, and g where f says nothing.
Before(f, g) == [x \in DOMAIN f \cup DOMAIN g |-> IF x \in DOMAIN f THEN f[x] ELSE g[x]]

\* A value alone, where a list may stand as well.
Alone(x) == [i \in {0} |-> x]

Listed(v) == 0 \notin DOMAIN v

Slots(dns) == UNION {{<<f, i>> : i \in DOMAIN dns.res[f]} : f \in DOMAIN dns.res}

TargetAt(dns, slot) == dns.res[slot[1]][slot[2]]

Purpose(slot) == slot[1][1]

Local(t) == t.host \in {"loop", "any", "localhost"}

\* A literal endpoint, without parameters, that can be moved.
Simple(t) == t.scheme = "plain" /\ t.via = "none" /\ t.host \notin {"localhost", "system"}

Engine == [host |-> "loop", port |-> "own", scheme |-> "plain", via |-> "none"]

Private == [Engine EXCEPT !.port = "private"]

(***************************************************************************)
(* Provenance. The origin of a slot is the layer that last changed its      *)
(* target, with the layer it changed it from.                               *)
(***************************************************************************)
RefreshedOrigins(origins, dns, layer) ==
    [s \in Slots(dns) |->
        IF s \in DOMAIN origins /\ origins[s].target = TargetAt(dns, s) THEN origins[s]
        ELSE [target |-> TargetAt(dns, s), layer |-> layer,
              over |-> IF s \in DOMAIN origins THEN origins[s].layer ELSE "none"]]

\* What the importer remembers of the DNS a profile came with: whether it was
\* on, where it listened, what the source declared of its targets, and the
\* origins. The listener itself is dropped with the fields OpenSurge owns,
\* and a default resolver stands in when the profile has none.
Retained(dns, default) ==
    [dns EXCEPT !.res = IF <<"ns">> \in DOMAIN @ THEN @
                         ELSE Before([f \in {<<"ns">>} |-> <<default>>], @)]

CapturedSource(raw, default) ==
    [stored |-> TRUE, enabled |-> raw.enabled, listen |-> raw.listen,
     services |-> raw.services,
     origins |-> LET named == RefreshedOrigins(<<>>, raw.dns, "subscription")
                 IN  RefreshedOrigins(named, Retained(raw.dns, default), "managed")]

\* A composition an older version left, without these records.
NoSource == [stored |-> FALSE, enabled |-> FALSE, listen |-> [host |-> "", port |-> ""],
             services |-> <<>>, origins |-> <<>>]

NeedsSourceRecovery(meta, dns) ==
    /\ ~meta.stored
    /\ \E s \in Slots(dns) : TargetAt(dns, s).host \in {"loop", "localhost"}

(***************************************************************************)
(* Binding. A target is the profile's own DNS when the listener the profile *)
(* came with would answer it.                                               *)
(***************************************************************************)
Declared(meta, s, t) ==
    IF s \in DOMAIN meta.services /\ meta.services[s].target = t
    THEN meta.services[s].service ELSE "none"

Covered(meta, t) == t.host = "loop" /\ meta.listen.host \in {"any", "loop"}

SamePort(meta, t) == meta.enabled /\ meta.listen.port = t.port

Ambiguous(meta, t) ==
    /\ SamePort(meta, t) /\ Local(t) /\ ~Covered(meta, t)
    /\ meta.listen.host \in {"any", "", "localhost"}

IsSelf(meta, s, t) ==
    /\ Declared(meta, s, t) # "independent"
    /\ Declared(meta, s, t) = "self" \/ (SamePort(meta, t) /\ Covered(meta, t))

Texts == {"", "false", "true", "True"}

\* Mutant: nobody looks whether the resolver connects through the proxies.
AnyTransport(dns, meta, s) ==
    LET t == TargetAt(dns, s)
    IN  IF IsSelf(meta, s, t) THEN Simple(t) /\ Purpose(s) \in {"psn", "ppol"}
        ELSE ~(Local(t) /\ t.port = "own" /\ t.scheme = "plain")

\* What may be bound. A reference to itself is a literal one, only of the
\* resolvers of proxy names, and not when resolvers connect by the rules, as
\* far as the text of that field says so.
Bindable(dns, meta, s) ==
    LET t == TargetAt(dns, s)
        declared == Declared(meta, s, t)
    IN  /\ ~(declared = "none" /\ Ambiguous(meta, t))
        /\ declared # "independent" =>
               ~(meta.enabled /\ meta.listen.host = "odd" /\ Local(t))
        /\ declared = "self" => meta.enabled /\ t.host = "loop"
        /\ IF IsSelf(meta, s, t)
           THEN Simple(t) /\ Purpose(s) \in {"psn", "ppol"} /\ dns.respect # "true"
           ELSE ~(Local(t) /\ t.port = "own" /\ t.scheme = "plain")

SelfSlots(dns, meta) == {s \in Slots(dns) : IsSelf(meta, s, TargetAt(dns, s))}

CanBind(dns, meta) ==
    /\ \A s \in Slots(dns) : Bindable(dns, meta, s)
    /\ SelfSlots(dns, meta) # {} =>
           \A s \in Slots(dns) \ SelfSlots(dns, meta) : TargetAt(dns, s).via # "proxy"

Rebound(dns, slots, endpoint) ==
    [dns EXCEPT !.res =
        [f \in DOMAIN @ |-> [i \in DOMAIN @[f] |->
            IF <<f, i>> \in slots THEN endpoint ELSE @[f][i]]]]

Bound(dns, meta) == Rebound(dns, SelfSlots(dns, meta), Engine)

\* The entry that proves which engine answers, kept out of everything else.
Probe(name) == [f \in {<<"pol", [kind |-> "exact", labels |-> <<name, "invalid">>]>>} |->
                   <<[host |-> "rcode", port |-> "", scheme |-> "", via |-> "none"]>>]

WithProbe(dns, name) == [dns EXCEPT !.res = Before(Probe(name), @)]

WithoutProbe(dns, name) ==
    [dns EXCEPT !.res = [f \in DOMAIN @ \ DOMAIN Probe(name) |-> @[f]]]

\* Resolvers as a document gives them, in lists or alone. A name of a probe is drawn at
\* random, and one that is taken is refused.
IsResolvers(res) ==
    \A f \in DOMAIN res : /\ res[f] \in [{0} -> Target] \cup Seq(Target)
                          /\ f \notin DOMAIN Probe("formal") \cup DOMAIN Probe("own-probe")

Fields(dns) == [res : {dns.res}, respect : {dns.respect}, mode : {dns.mode},
                filter : {dns.filter}, useHosts : {dns.useHosts}, hosts : {dns.hosts}]

IsDns(dns) == /\ dns \in Fields(dns)
              /\ IsResolvers(dns.res)
              /\ dns.respect \in Texts /\ dns.useHosts \in BOOLEAN

(***************************************************************************)
(* The prepared copy of a rendered configuration: it listens nowhere, or at *)
(* an address of its own when it refers to itself.                          *)
(***************************************************************************)
\* Mutant: the references stay where the gateway's engine will listen.
StaysBound(final) ==
    [final EXCEPT !.listen = IF final.self = {} THEN "none" ELSE "private",
                  !.dns = IF final.self = {} THEN @
                          ELSE WithProbe(WithoutProbe(@, "formal"), "own-probe")]

PreparedCopy(final) ==
    IF final.self = {} THEN [final EXCEPT !.listen = "none"]
    ELSE [final EXCEPT !.listen = "private",
              !.dns = WithProbe(WithoutProbe(Rebound(@, final.self, Private), "formal"), "own-probe")]

\* Each reference is looked up again in what is copied before it is moved.
CanPrepare(final) ==
    \A s \in final.self : s \in Slots(final.dns) /\ TargetAt(final.dns, s) = Engine
==============================================================================
