--------------------------- MODULE DeviceRouting ---------------------------
(***************************************************************************)
(* Which way a packet of a registered device, of the Mac, or of a guest    *)
(* leaves: the declarative device policies (device/policy.go,              *)
(* resolution.go), their compilation against the targets the current       *)
(* source offers, the rule list of the engine they become part of          *)
(* (mihomo/device_policy.go, tailscale.go, local_routing.go), and the      *)
(* selections the engine remembers across restarts and source updates.     *)
(*                                                                         *)
(* The engine is external: it takes the first rule that matches a packet   *)
(* and whose outbound can carry it, and keeps the selection of every group *)
(* in its cache.                                                           *)
(***************************************************************************)
EXTENDS Naturals, Sequences, FiniteSets, SequencesExt

CONSTANTS
    Cases,       \* initial documents and worlds
    NoUDP,       \* targets that carry TCP only
    Clients,     \* pages that set the routing mode of the Mac
    MaxFailures

Builtin == {"DIRECT", "REJECT"}
Empty   == "empty"                            \* the empty string
Inner   == {Empty, "PASS", "global", "tsnet"}    \* no target of a source has such a name
Places  == {"lan", "tail", "media", "web"}
Exit    == "tailscale-exit"
Devices == {"d1", "d2"}

VARIABLES
    doc,      \* device-policy.json: Devices -> registration with its profile
    world,    \* topology, LAN, source, Tailscale, IPv6
    eng,      \* "off", "prepared" or "gateway", with rules, groups, selections
    cache,    \* cache.db: what was selected last in each group
    choice,   \* history: what the user selected last
    blind,    \* history: a prepared engine did not answer, or started without the cache
    setter,   \* requests that set the routing mode of the Mac
    upset,    \* history: such a request was disturbed, or its rollback failed
    failures, changes

routing == <<doc, world, eng, cache, choice, blind, setter, upset, failures, changes>>

Group(d, slot) == [dev |-> d, slot |-> slot]
To(target)     == [dev |-> "none", slot |-> target]
AnyOne     == [by |-> "any", dev |-> "none"]
ByIP(d)    == [by |-> "ip", dev |-> d]
ByUser(d)  == [by |-> "user", dev |-> d]
Anything   == [dst |-> Empty, proto |-> Empty, set |-> Empty]
Line(who, cond, to) == [who |-> who, cond |-> cond, to |-> to]

Each(s, Do(_)) == FlattenSeq([i \in DOMAIN s |-> Do(s[i])])

\* The elements of s that are in T, in their order.
Only(s, T) == Each(s, LAMBDA x : IF x \in T THEN <<x>> ELSE <<>>)

NoSelection == [g \in {} |-> Empty]
Off == [on |-> "off", rules |-> <<>>, groups |-> {}, sel |-> NoSelection, kept |-> NoSelection,
        world |-> 0, reserved |-> {}, doc |-> 0, ok |-> TRUE]
NoSetter == [pc |-> "idle", mode |-> "rule", todo |-> <<>>, done |-> <<>>, was |-> <<>>, lost |-> NoSelection]

RoutingInit ==
    /\ \E c \in Cases : doc = c.doc /\ world = c.world /\ changes = c.changes
    /\ eng = Off /\ cache = NoSelection /\ choice = NoSelection /\ blind = FALSE
    /\ setter = [c \in Clients |-> NoSetter] /\ upset = FALSE /\ failures = MaxFailures

-----------------------------------------------------------------------------
(***************************************************************************)
(* Documents.                                                              *)
(***************************************************************************)
NoDuplicates(s) == \A i, j \in DOMAIN s : s[i] = s[j] => i = j
MatchOK(m) == m.dst \cup m.proto \cup m.sets # {}
RuleOK(r)  == /\ r.id # "default" /\ MatchOK(r.match) /\ NoDuplicates(r.policies)
              /\ (r.action = "none") = (r.policies # <<>>)

\* resolveProfile: a template comes first; the profile's own fields win.
Resolved(p) ==
    [defaults    |-> IF p.defaults # <<>> THEN p.defaults ELSE p.template.defaults,
     rules       |-> p.template.rules \o p.rules,
     unsupported |-> IF p.unsupported # Empty THEN p.unsupported ELSE p.template.unsupported]

\* ValidatePolicySet; the part about the current LAN is Activatable.
Valid(set) ==
    /\ \A d \in Devices :
          LET p == Resolved(set[d].profile) IN
          /\ p.defaults # <<>> /\ NoDuplicates(p.defaults)
          /\ NoDuplicates([i \in DOMAIN p.rules |-> p.rules[i].id])
          /\ \A i \in DOMAIN p.rules : RuleOK(p.rules[i])
          /\ set[d].target = "upstream_router" => set[d].mac
    /\ \A d, e \in Devices : set[d].ip = set[e].ip => d = e

\* A registration of another network sleeps; without a MAC it is known by its
\* address alone, which only a network without DHCP leases guarantees.
InLAN(set, w, d)  == set[d].ip.lan = w.lan
Active(set, w, d) == InLAN(set, w, d) /\ (w.mode = "same_lan" \/ set[d].mac)
Activatable(set, w) == \A d \in Devices : Active(set, w, d) => set[d].ip.host # 0

\* What a document and its surroundings are made of.
IsTargets(s) == s \in Seq(Range(s)) /\ Empty \notin Range(s)
IsRule(r)    == /\ r.match.dst \subseteq Places /\ r.match.sets \subseteq Places
                /\ r.match.proto \subseteq {"tcp", "udp"} /\ IsTargets(r.policies)
IsProfile(p) == IsTargets(p.defaults) /\ p.rules \in Seq(Range(p.rules)) /\ \A r \in Range(p.rules) : IsRule(r)
IsPolicy(set) ==
    \A d \in Devices : /\ IsProfile(set[d].profile) /\ IsProfile(set[d].profile.template)
                       /\ set[d].mac \in BOOLEAN /\ set[d].target \in {"opensurge", "upstream_router"}
                       /\ set[d].mode \in {"dedicated", "inherit_global", "legacy_fallback"}
IsWorld(w) == /\ DOMAIN w = {"mode", "lan", "v6", "offered", "match", "ts"}
              /\ IsFiniteSet(w.offered) /\ w.offered \cap Inner = {} /\ w.v6 \in BOOLEAN
              /\ w.ts.on \in BOOLEAN /\ w.ts.mac \in BOOLEAN

ASSUME RoutingAssumption ==
    /\ \A c \in Cases : IsPolicy(c.doc) /\ Valid(c.doc) /\ IsWorld(c.world)
    /\ NoUDP \cap (Builtin \cup Inner) = {}

-----------------------------------------------------------------------------
(***************************************************************************)
(* Compilation.  res is what one run knows: the targets its source offers  *)
(* and the choices made before.                                            *)
(***************************************************************************)
Available(res, t) == res.all \/ t \in Builtin \cup res.avail
Chosen(res, g) == IF g \in DOMAIN res.sel THEN res.sel[g] ELSE Empty

\* resolveSelector: a selector that lost its choice is left out, it never
\* falls to another candidate.
Candidates(res, g, all) ==
    LET had    == Chosen(res, g)
        wanted == IF Contains(all, had) THEN had ELSE all[1]
    IN IF \A t \in Range(all) : Available(res, t) THEN all
       ELSE IF (had = Empty /\ res.unknown) \/ ~Available(res, wanted) THEN <<>>
       ELSE <<wanted>> \o Only(all, {t \in Range(all) : Available(res, t) /\ t # wanted})

Dimension(s) == IF s = {} THEN {Empty} ELSE s

\* ruleVariants: an AND of the fields that are given, an OR within each.
Variants(m) == SetToSeq({[dst |-> a, proto |-> b, set |-> c] :
                             a \in Dimension(m.dst), b \in Dimension(m.proto), c \in Dimension(m.sets)})

Unsupported(r, p) == IF r # Empty THEN r ELSE IF p # Empty THEN p ELSE "reject"

\* A target, and what follows it where it cannot carry a packet; a group
\* always may fail to.
OrReject(d, cond, to, unsupported) ==
    <<Line(ByIP(d), cond, to)>> \o
    IF unsupported = "reject" /\ (to.dev # "none" \/ to.slot \notin Builtin)
    THEN <<Line(ByIP(d), cond, To("REJECT"))>> ELSE <<>>

RuleLines(d, r, to, unsupported) ==
    Each(Variants(r.match), LAMBDA cond : OrReject(d, cond, to, unsupported))

RuleTarget(d, r) == IF r.policies # <<>> THEN Group(d, r.id) ELSE To(r.action)
RuleKept(res, d, r) == IF r.policies # <<>> THEN Candidates(res, Group(d, r.id), r.policies) # <<>>
                       ELSE Available(res, r.action)

\* One device of compilePolicySet.
Compiled(set, res, d) ==
    LET p    == Resolved(set[d].profile)
        kept == {r \in Range(p.rules) : RuleKept(res, d, r)}
        base == Candidates(res, Group(d, "default"), p.defaults)
        mode == IF base = <<>> THEN "inherit_global" ELSE set[d].mode
        last == OrReject(d, Anything, Group(d, "default"), Unsupported(Empty, p.unsupported))
        open == set[d].target # "upstream_router"
    IN [dev       |-> d, mac |-> set[d].mac, bypass |-> ~open,
        mode      |-> IF open THEN mode ELSE set[d].mode,
        override  |-> IF ~open THEN <<>> ELSE Each(p.rules, LAMBDA r :
                          IF r \notin kept THEN <<>>
                          ELSE RuleLines(d, r, RuleTarget(d, r), Unsupported(r.unsupported, p.unsupported))),
        dedicated |-> IF open /\ mode = "dedicated" THEN last ELSE <<>>,
        defaults  |-> IF open /\ mode = "legacy_fallback" THEN last ELSE <<>>,
        actions   |-> IF open THEN {r.action : r \in kept} \ {"none"} ELSE {},
        groups    |-> IF ~open THEN {} ELSE
            {[name |-> Group(d, r.id), of |-> Candidates(res, Group(d, r.id), r.policies)] :
                r \in {x \in kept : x.policies # <<>>}}
            \cup IF mode = "inherit_global" THEN {}
                 ELSE {[name |-> Group(d, "default"), of |-> base]}]

CompilePolicySet(set, w, res) ==
    Each(<<"d1", "d2">>, LAMBDA d : IF Active(set, w, d) THEN <<Compiled(set, res, d)>> ELSE <<>>)

Reservations(bundle) == {bundle[i].dev : i \in {k \in DOMAIN bundle : bundle[k].mac}}
Groups(bundle)  == UNION {bundle[i].groups : i \in DOMAIN bundle}
Targets(bundle) == (UNION {Range(g.of) : g \in Groups(bundle)})
                   \cup (UNION {bundle[i].actions : i \in DOMAIN bundle})

\* PrepareDevicePolicy: the targets the renderer is going to have.
Offers(w) == w.offered \cup IF w.ts.on /\ w.ts.exit THEN {Exit} ELSE {}

Everything == [all |-> TRUE, avail |-> {}, sel |-> NoSelection, unknown |-> FALSE]

\* Choices are looked up only when a group lost a candidate.
Missing(set, w) ==
    \E g \in Groups(CompilePolicySet(set, w, Everything)) :
        ~(Range(g.of) \subseteq Builtin \cup Offers(w))

Over(f, g) == [x \in DOMAIN f \cup DOMAIN g |-> IF x \in DOMAIN g THEN g[x] ELSE f[x]]
OfDevices(f) == [x \in {y \in DOMAIN f : y.dev \in Devices} |-> f[x]]

\* Mutant: without the engine's answer there are no choices, and no doubt.
NeverUnknown(prep, answers, readable) ==
    [kept |-> IF answers THEN OfDevices(prep.sel) ELSE IF readable THEN OfDevices(cache) ELSE NoSelection,
     unknown |-> FALSE]

\* devicePolicySelections: what a prepared engine froze, then what it answers,
\* or else what its cache holds; a running engine keeps the cache locked.
Selections(prep, answers, readable) ==
    [kept |-> Over(prep.kept, IF answers THEN OfDevices(prep.sel)
                              ELSE IF readable THEN OfDevices(cache) ELSE NoSelection),
     unknown |-> ~answers /\ ~readable]

\* resolveDevicePolicy
Resolution(set, w, found) ==
    [all |-> FALSE, avail |-> Offers(w),
     sel     |-> IF Missing(set, w) THEN found.kept ELSE NoSelection,
     unknown |-> Missing(set, w) /\ found.unknown]

-----------------------------------------------------------------------------
(***************************************************************************)
(* The rule list: system rules, the Mac, devices, the source's own rules,  *)
(* legacy defaults, the terminal MATCH.                                    *)
(***************************************************************************)
Mac == [by |-> "mac", dev |-> "mac"]
TCP == Group("mac", "tcp")
UDP == Group("mac", "udp")
GLOBAL == Group("mac", "global")
At(dst) == [Anything EXCEPT !.dst = dst]

\* addIPv6IdentityRules: the same rule for the identity the packet listener
\* gives to a registered MAC.
Twice(w, m, lines) ==
    IF ~w.v6 \/ ~m.mac THEN lines
    ELSE Each(lines, LAMBDA l : <<l, [l EXCEPT !.who = ByUser(m.dev)]>>)

\* routerBypassIPv6RejectRules: bypass is an IPv4 choice.
BypassRejects(w, bundle) ==
    Each(bundle, LAMBDA m : IF w.v6 /\ m.bypass /\ m.mac
                            THEN <<Line(ByUser(m.dev), Anything, To("REJECT"))>> ELSE <<>>)

\* Mutant: what nobody was allowed to reach is left to the later rules.
OnlyAuthorized(w, bundle) ==
    IF ~w.ts.on THEN <<>> ELSE
    Each(bundle, LAMBDA m : IF m.dev \in w.ts.devs
                            THEN Twice(w, m, <<Line(ByIP(m.dev), At("tail"), To("tsnet"))>>) ELSE <<>>)

\* renderTailscaleRules: the authorized sources, then nobody.
TailscaleRules(w, bundle) ==
    IF ~w.ts.on THEN <<>> ELSE
    (IF w.ts.mac THEN <<Line(Mac, At("tail"), To("tsnet"))>> ELSE <<>>)
    \o Each(bundle, LAMBDA m : IF m.dev \in w.ts.devs
                               THEN Twice(w, m, <<Line(ByIP(m.dev), At("tail"), To("tsnet"))>>) ELSE <<>>)
    \o <<Line(AnyOne, At("tail"), To("REJECT"))>>

\* buildLocalRoutingPolicy: CGNAT, where Tailnets live, is local too.
LocalRules == <<Line(Mac, At("lan"), To("DIRECT")), Line(Mac, At("tail"), To("DIRECT")),
                Line(Mac, [Anything EXCEPT !.proto = "tcp"], TCP),
                Line(Mac, [Anything EXCEPT !.proto = "udp"], UDP)>>

\* orderedDevicePreRules
DeviceRules(w, bundle) ==
    Each(bundle, LAMBDA m : IF m.mode # "dedicated" THEN <<>> ELSE
        Twice(w, m, <<Line(ByIP(m.dev), At("lan"), To("DIRECT"))>>)
        \o <<Line(ByIP(m.dev), At("tail"), To("DIRECT"))>>)
    \o Each(bundle, LAMBDA m : Twice(w, m, m.override))
    \o Each(bundle, LAMBDA m : Twice(w, m, m.dedicated))

\* The rules of the source, MATCH last; a valid source names what it has.
Imported(w) == IF "A" \in w.offered THEN <<Line(AnyOne, At("media"), To("A"))>> ELSE <<>>
Terminal(w) == IF w.match \in w.offered \cup Builtin THEN <<Line(AnyOne, Anything, To(w.match))>> ELSE <<>>

\* composeImportedPolicySections
Rendered(w, bundle) ==
    BypassRejects(w, bundle) \o TailscaleRules(w, bundle) \o LocalRules \o DeviceRules(w, bundle)
    \o Imported(w) \o Each(bundle, LAMBDA m : Twice(w, m, m.defaults)) \o Terminal(w)

Outlets(w) == SetToSeq(w.offered) \o IF w.ts.on /\ w.ts.exit /\ w.ts.mac THEN <<Exit>> ELSE <<>>
MacGroups(w) ==
    LET outlets == Outlets(w)
        too     == IF outlets = <<>> THEN <<>> ELSE <<"global">>
    IN {[name |-> TCP, of |-> <<"PASS", "DIRECT">> \o too],
        [name |-> UDP, of |-> <<"PASS", "DIRECT", "REJECT">> \o too]}
       \cup IF outlets = <<>> THEN {} ELSE {[name |-> GLOBAL, of |-> outlets]}

-----------------------------------------------------------------------------
(***************************************************************************)
(* The engine.                                                             *)
(***************************************************************************)
Selected(g) == IF g.name \in DOMAIN cache /\ Contains(g.of, cache[g.name]) THEN cache[g.name] ELSE g.of[1]

\* validateImportedPolicySections
Renders(w, bundle) == Targets(bundle) \subseteq Builtin \cup Offers(w)

Engine(kind, found) ==
    LET res    == Resolution(doc, world, found)
        bundle == CompilePolicySet(doc, world, res)
        all    == Groups(bundle) \cup MacGroups(world)
    IN [on |-> kind, rules |-> Rendered(world, bundle), groups |-> Groups(bundle),
        sel |-> [n \in {g.name : g \in all} |-> Selected(CHOOSE g \in all : g.name = n)],
        kept |-> res.sel, world |-> world, reserved |-> Reservations(bundle), doc |-> doc,
        ok |-> Renders(world, bundle)]

Setting(c, pc) == setter[c].pc = pc
Works == UNCHANGED failures
Fails == failures > 0 /\ failures' = failures - 1

\* Prepare, start, or the start of a reload: a controller that does not
\* answer in time, or a cache that cannot be read, is a fault.
Run(kind) ==
    \E answers \in BOOLEAN, readable \in BOOLEAN :
        LET e == Engine(kind, Selections(eng, answers, readable)) IN
        /\ answers => eng.on = "prepared"
        /\ readable => eng.on # "prepared"
        /\ IF answers \/ readable THEN Works ELSE Fails
        /\ blind' = (blind \/ (~answers /\ (eng.on = "prepared" \/ (kind = "prepared" /\ ~readable))))
        /\ Activatable(doc, world) /\ eng' = e
        /\ UNCHANGED <<doc, world, cache, choice, setter, upset, changes>>

Prepare == eng.on = "off" /\ Run("prepared")
Start   == eng.on \in {"off", "prepared"} /\ Run("gateway")
Stop    == /\ eng.on # "off" /\ eng' = Off
           /\ upset' = (upset \/ \E c \in Clients : ~Setting(c, "idle"))
           /\ UNCHANGED <<doc, world, cache, choice, blind, setter, changes>> /\ Works

\* The engine takes a selection of what the group has.
CanSelect(g, t) == eng.on # "off" /\ \E x \in MacGroups(eng.world) : x.name = g /\ Contains(x.of, t)
Select(g, t) == /\ eng' = [eng EXCEPT !.sel[g] = t]
                /\ cache' = Over(cache, [x \in {g} |-> t])

\* handleDeviceSelection, handlePolicySelection
SelectForDevice ==
    \E g \in eng.groups : \E k \in DOMAIN g.of :
        /\ g.of[k] # eng.sel[g.name] /\ changes > 0 /\ changes' = changes - 1
        /\ Select(g.name, g.of[k])
        /\ choice' = Over(choice, [x \in {g.name} |-> g.of[k]])
        /\ UNCHANGED <<doc, world, blind, setter, upset>> /\ Works

Change == changes > 0 /\ changes' = changes - 1

\* A source is updated or replaced while the gateway is off or runs on.
Update == /\ Change /\ \E T \in SUBSET {"A", "B"} : T # world.offered /\ world' = [world EXCEPT !.offered = T]
          /\ UNCHANGED <<doc, eng, cache, choice, blind, setter, upset>> /\ Works
Move   == /\ Change /\ eng.on = "off"
          /\ \E m \in {"same_lan", "dhcp"}, l \in {"home", "away"} :
                <<m, l>> # <<world.mode, world.lan>> /\ world' = [world EXCEPT !.mode = m, !.lan = l]
          /\ UNCHANGED <<doc, eng, cache, choice, blind, setter, upset>> /\ Works

-----------------------------------------------------------------------------
(***************************************************************************)
(* The routing mode of the Mac (SetLocalRouting): three hidden groups set  *)
(* one after the other, put back in reverse when one of them fails.        *)
(***************************************************************************)
Carries(t, proto) == proto = "tcp" \/ t \notin NoUDP
Needed(g, t) == IF eng.sel[g] = t THEN <<>> ELSE <<[g |-> g, from |-> eng.sel[g], to |-> t]>>

\* An outlet whose health cannot be read counts as one without UDP.
UDPTarget(mode, outlet, known) ==
    CASE mode = "rule" -> "PASS" [] mode = "direct" -> "DIRECT"
      [] mode = "global" -> IF known /\ Carries(outlet, "udp") THEN "global" ELSE "REJECT"
TCPTarget(mode) == CASE mode = "rule" -> "PASS" [] mode = "direct" -> "DIRECT" [] mode = "global" -> "global"

\* localRoutingSnapshot: "mixed" is what it warns about.
ModeOf(e) ==
    CASE e.sel[TCP] = e.sel[UDP] /\ e.sel[TCP] = "PASS" -> "rule"
      [] e.sel[TCP] = e.sel[UDP] /\ e.sel[TCP] = "DIRECT" -> "direct"
      [] e.sel[TCP] = "global" /\ e.sel[UDP] \in {"global", "REJECT"} -> "global"
      [] OTHER -> "mixed"

Apart == UNCHANGED <<doc, world, choice, blind>>

\* The current selections are read and the differences remembered.
BeginMode(c) ==
    /\ eng.on = "gateway" /\ Setting(c, "idle") /\ Change
    /\ \E mode \in {"rule", "direct", "global"},
          outlet \in (IF GLOBAL \in DOMAIN eng.sel THEN Range(Outlets(eng.world)) ELSE {Empty}),
          known \in BOOLEAN :
          /\ mode = "global" => GLOBAL \in DOMAIN eng.sel
          /\ setter' = [setter EXCEPT ![c] =
                 [pc |-> "put", mode |-> mode, done |-> <<>>, was |-> eng.sel, lost |-> NoSelection,
                  todo |-> (IF outlet # Empty THEN Needed(GLOBAL, outlet) ELSE <<>>)
                           \o Needed(TCP, TCPTarget(mode)) \o Needed(UDP, UDPTarget(mode, outlet, known))]]
          /\ upset' = (upset \/ \E o \in Clients : ~Setting(o, "idle"))
          /\ UNCHANGED <<eng, cache>> /\ Apart
          /\ IF known THEN Works ELSE mode = "global" /\ Fails

\* Mutant: a mode that fails half way stays half way.
PutUntilFailure(c) ==
    LET t == setter[c].todo[1] IN
    /\ Setting(c, "put") /\ setter[c].todo # <<>> /\ Apart /\ UNCHANGED <<changes, upset>>
    /\ \/ /\ CanSelect(t.g, t.to) /\ Select(t.g, t.to) /\ Works
          /\ setter' = [setter EXCEPT ![c].todo = Tail(@), ![c].done = <<t>> \o @]
       \/ /\ setter' = [setter EXCEPT ![c] = NoSetter] /\ UNCHANGED <<eng, cache>>
          /\ IF CanSelect(t.g, t.to) THEN Fails ELSE Works

\* A call that fails has not been taken, or its answer was lost: only a change
\* that was answered is among those taken back.
PutNext(c) ==
    LET t == setter[c].todo[1] IN
    /\ Setting(c, "put") /\ setter[c].todo # <<>> /\ Apart /\ UNCHANGED <<changes, upset>>
    /\ \/ /\ CanSelect(t.g, t.to) /\ Select(t.g, t.to) /\ Works
          /\ setter' = [setter EXCEPT ![c].todo = Tail(@), ![c].done = <<t>> \o @]
       \/ /\ setter' = [setter EXCEPT ![c].pc = "back"] /\ UNCHANGED <<eng, cache>>
          /\ IF CanSelect(t.g, t.to) THEN Fails ELSE Works
       \/ /\ CanSelect(t.g, t.to) /\ Select(t.g, t.to) /\ Fails
          /\ setter' = [setter EXCEPT ![c].pc = "back", ![c].lost = [x \in {t.g} |-> t.to]]

Wanted(c) == eng.on # "off" /\ ModeOf(eng) = setter[c].mode

\* Read again: a mode that is not the wanted one is taken back.
Verify(c) ==
    /\ Setting(c, "put") /\ setter[c].todo = <<>> /\ Apart /\ UNCHANGED <<eng, cache, changes, upset>>
    /\ \/ /\ Wanted(c) /\ Works /\ setter' = [setter EXCEPT ![c] = NoSetter]
       \/ /\ setter' = [setter EXCEPT ![c].pc = "back"]
          /\ IF Wanted(c) THEN Fails ELSE Works

\* Each select of a rollback may fail too, and nobody asks; that its answer was
\* lost makes no difference.
TakeBack(c) ==
    LET t == setter[c].done[1] IN
    /\ Setting(c, "back") /\ Apart /\ UNCHANGED changes
    /\ IF setter[c].done = <<>>
       THEN setter' = [setter EXCEPT ![c] = NoSetter] /\ UNCHANGED <<eng, cache, upset>> /\ Works
       ELSE /\ setter' = [setter EXCEPT ![c].done = Tail(@)]
            /\ \/ CanSelect(t.g, t.from) /\ Select(t.g, t.from) /\ UNCHANGED upset /\ (Works \/ Fails)
               \/ /\ UNCHANGED <<eng, cache>> /\ upset' = TRUE
                  /\ IF CanSelect(t.g, t.from) THEN Fails ELSE Works

RoutingNext == \/ Prepare \/ Start \/ Stop \/ SelectForDevice \/ Update \/ Move
        \/ \E c \in Clients : BeginMode(c) \/ PutNext(c) \/ Verify(c) \/ TakeBack(c)

RoutingSpec == RoutingInit /\ [][RoutingNext]_routing

-----------------------------------------------------------------------------
(***************************************************************************)
(* What the engine does with a packet, and what the documents say it       *)
(* should do.                                                              *)
(***************************************************************************)
Packets(w) ==
    {p \in [dev : Devices \cup {"mac", "guest"}, v6 : BOOLEAN, dst : Places,
            proto : {"tcp", "udp"}] : p.v6 => w.v6 /\ p.dev \in Devices}

Matches(l, p) ==
    /\ CASE l.who.by = "any" -> TRUE [] l.who.by = "mac" -> p.dev = "mac"
         [] l.who.by = "ip" -> p.dev = l.who.dev /\ ~p.v6
         [] l.who.by = "user" -> p.dev = l.who.dev /\ p.v6
    /\ l.cond.dst \in {Empty, p.dst} /\ l.cond.set \in {Empty, p.dst} /\ l.cond.proto \in {Empty, p.proto}

Outbound(e, to) ==
    IF to.dev = "none" THEN to.slot
    ELSE IF e.sel[to] = "global" THEN e.sel[GLOBAL] ELSE e.sel[to]

Takes(e, to, p) == Outbound(e, to) # "PASS" /\ Carries(Outbound(e, to), p.proto)

\* A decision: where to, or Empty when the next one decides.
Or(a, b) == IF a # Empty THEN a ELSE b
Earliest(decisions) ==
    IF \A i \in DOMAIN decisions : decisions[i] = Empty THEN Empty
    ELSE decisions[CHOOSE i \in DOMAIN decisions :
                       decisions[i] # Empty /\ \A j \in DOMAIN decisions : j < i => decisions[j] = Empty]

\* The engine goes on behind an outbound that cannot carry the packet.
Decides(e, l, p) == IF Matches(l, p) /\ Takes(e, l.to, p) THEN Outbound(e, l.to) ELSE Empty
Route(e, p) == Or(Earliest([i \in DOMAIN e.rules |-> Decides(e, e.rules[i], p)]), "DIRECT")

AtHome(p) == p.dst = "lan" \/ (p.dst = "tail" /\ ~p.v6)

Global(e, p) ==
    IF p.dst = "media" /\ "A" \in e.world.offered /\ Carries("A", p.proto) THEN "A" ELSE Empty
LastMatch(e, p) ==
    IF e.world.match \in e.world.offered \cup Builtin /\ Carries(e.world.match, p.proto)
    THEN e.world.match ELSE "DIRECT"
By(e, to, unsupported, p) ==
    IF Takes(e, to, p) THEN Outbound(e, to) ELSE IF unsupported = "reject" THEN "REJECT" ELSE Empty

RuleSays(e, d, r, p) ==
    LET m == r.match  g == Group(d, r.id) IN
    IF /\ m.dst = {} \/ p.dst \in m.dst
       /\ m.proto = {} \/ p.proto \in m.proto
       /\ m.sets = {} \/ p.dst \in m.sets
       /\ IF r.policies # <<>> THEN g \in DOMAIN e.sel ELSE r.action \in Builtin \cup Offers(e.world)
    THEN By(e, IF r.policies # <<>> THEN g ELSE To(r.action),
            Unsupported(r.unsupported, Resolved(e.doc[d].profile).unsupported), p)
    ELSE Empty
FirstRule(e, d, rules, p) == Earliest([i \in DOMAIN rules |-> RuleSays(e, d, rules[i], p)])

Known(e, p) ==
    p.dev \in Devices /\ Active(e.doc, e.world, p.dev) /\ (p.v6 => e.doc[p.dev].mac)
MayReachTailnet(e, p) ==
    IF p.dev = "mac" THEN e.world.ts.mac ELSE Known(e, p) /\ p.dev \in e.world.ts.devs

\* Policies say it for one packet at a time.
OfMac(e, p) ==
    IF AtHome(p) THEN "DIRECT"
    ELSE LET g == IF p.proto = "tcp" THEN TCP ELSE UDP IN IF Takes(e, g, p) THEN Outbound(e, g) ELSE Empty
OfDevice(e, p) ==
    LET reg  == e.doc[p.dev]
        prof == Resolved(reg.profile)
        own  == Group(p.dev, "default")
        mode == IF own \in DOMAIN e.sel THEN reg.mode ELSE "inherit_global"
        last == By(e, own, Unsupported(Empty, prof.unsupported), p)
        rule == FirstRule(e, p.dev, prof.rules, p)
    IN IF reg.target = "upstream_router"
       THEN IF reg.mode = "dedicated" /\ AtHome(p) THEN "DIRECT" ELSE Empty
       ELSE CASE mode = "dedicated" -> IF AtHome(p) THEN "DIRECT" ELSE Or(rule, last)
              [] mode = "legacy_fallback" -> Or(rule, Or(Global(e, p), last))
              [] OTHER -> rule

Intended(e, p) ==
    IF Known(e, p) /\ p.v6 /\ e.doc[p.dev].target = "upstream_router" THEN "REJECT"
    ELSE IF e.world.ts.on /\ p.dst = "tail" THEN IF MayReachTailnet(e, p) THEN "tsnet" ELSE "REJECT"
    ELSE Or(IF p.dev = "mac" THEN OfMac(e, p) ELSE IF Known(e, p) THEN OfDevice(e, p) ELSE Empty,
            Or(Global(e, p), LastMatch(e, p)))

-----------------------------------------------------------------------------
Working == eng.on # "off"

\* The rule list sends every packet of every source where its registration,
\* read on its own, says (compilePolicySet, composeImportedPolicySections).
RoutesAsConfigured == Working => \A p \in Packets(eng.world) : Route(eng, p) = Intended(eng, p)

\* A group that runs uses what the user selected for it, or its first
\* candidate; one that lost it does not run (resolveSelector's promise).
Declared(d, slot) ==
    LET p == Resolved(eng.doc[d].profile) IN
    IF slot = "default" THEN p.defaults
    ELSE (CHOOSE r \in Range(p.rules) : r.id = slot).policies
ChoiceKept ==
    ~blind => \A g \in eng.groups :
        LET all == Declared(g.name.dev, g.name.slot)  n == g.name IN
        eng.sel[n] = IF n \in DOMAIN choice /\ Contains(all, choice[n]) THEN choice[n] ELSE all[1]

\* A source that no longer offers a target never keeps the gateway from
\* starting (resolveDevicePolicy against validateImportedPolicySections).
AlwaysRenders == eng.ok

\* Where leases are handed out, an address has rules only if it is reserved.
RulesAreReserved ==
    Working /\ eng.world.mode = "dhcp" =>
        \A i \in DOMAIN eng.rules : eng.rules[i].who.by = "ip" => eng.rules[i].who.dev \in eng.reserved

\* A valid policy document always renders, under whatever a source offers, and
\* then routes every device as its registration says, by reserved addresses.
PolicyCarriedOut == AlwaysRenders /\ RoutesAsConfigured /\ RulesAreReserved

\* What a selection of the Mac is after a change that was taken back: what it
\* was, or what was asked for if the answer to that was lost.
Meant(s, g) == IF g \in DOMAIN s.lost THEN s.lost[g] ELSE s.was[g]

\* A change of the mode takes place, or every selection of the Mac is what it
\* was, but for one whose answer was lost, which is never taken back
\* (SetLocalRouting), as long as no call of the rollback fails and nothing else
\* stops the engine or changes the mode at the same time.
AllOrNothing ==
    [][\A c \in Clients :
          ~Setting(c, "idle") /\ setter'[c].pc = "idle" /\ ~upset' =>
              \/ Setting(c, "put") /\ ModeOf(eng') = setter[c].mode
              \/ \A g \in {TCP, UDP, GLOBAL} \cap DOMAIN setter[c].was :
                    eng'.sel[g] = Meant(setter[c], g)]_routing

\* The user guide: in global mode UDP of the Mac that its outlet does not
\* carry is rejected, never left to the rules of the gateway.
NoSilentUDP ==
    eng.on = "gateway" /\ ~upset /\ ModeOf(eng) = "global" /\ (\A c \in Clients : Setting(c, "idle"))
        => Takes(eng, UDP, [proto |-> "udp"])
=============================================================================
