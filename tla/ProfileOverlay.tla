--------------------------- MODULE ProfileOverlay ---------------------------
(* The global overlay of imported profiles (internal/mihomo/                *)
(* profile_overlay.go) over the structural reading of a profile             *)
(* (internal/mihomo/profile.go), as operators on profiles.                  *)
(*                                                                          *)
(* A profile is what parsing keeps of the YAML: the proxies, the groups     *)
(* with their members ("proxies") and providers ("use"), the names of both  *)
(* kinds of providers, the rules in order, the hosts and the DNS fields.    *)
(* A rule is [match, set, to]: whether it is a MATCH, the rule provider it  *)
(* names ("" for none) and the target it sends traffic to.                  *)
EXTENDS FiniteSets, Sequences, SequencesExt, Functions

CONSTANTS
    Builtins,  \* the targets the engine has of its own: DIRECT, REJECT, ...
    Reserved,  \* the names an overlay may not define
    LocalGroups  \* those of them no imported profile may use either

ASSUME NamespaceAssumption == LocalGroups \subseteq Reserved

(***************************************************************************)
(* Reading a profile.                                                      *)
(***************************************************************************)
Targets(p) == p.proxies \cup DOMAIN p.groups

\* The last rule of a profile, when it is its MATCH.
HasTerminal(rules) == rules # <<>> /\ Last(rules).match

Terminal(rules) == IF HasTerminal(rules) THEN <<Last(rules)>> ELSE <<>>

Body(rules) == IF HasTerminal(rules) THEN Front(rules) ELSE rules

\* A profile the importer accepts: at most one MATCH and that one last, no
\* name twice among proxies and groups, and none of the names of the local
\* routing groups defined or referred to.
Accepted(p) ==
    /\ \A i \in DOMAIN p.rules : p.rules[i].match => i = Len(p.rules)
    /\ p.proxies \cap DOMAIN p.groups = {}
    /\ (Targets(p) \cup p.providers \cup p.sets) \cap LocalGroups = {}
    /\ \A g \in DOMAIN p.groups : p.groups[g].proxies \cap LocalGroups = {}
    /\ \A i \in DOMAIN p.rules : p.rules[i].to \notin LocalGroups

(***************************************************************************)
(* The overlay document.                                                   *)
(***************************************************************************)
\* The checks made when a document is parsed, whatever the profile.
ValidOverlay(o) ==
    /\ \A r \in Range(o.prepend \o o.tail) : ~r.match
    /\ DOMAIN o.addGroups \cap DOMAIN o.newGroups = {}
    /\ o.addProxies \cap o.newProxies = {}
    /\ o.addProviders \cap o.newProviders = {}
    /\ o.addSets \cap o.newSets = {}
    /\ \A names \in {o.addProxies, o.newProxies, DOMAIN o.addGroups,
                     DOMAIN o.newGroups, DOMAIN o.patches, o.addProviders,
                     o.newProviders, o.addSets, o.newSets} :
           names \cap Reserved = {}
    /\ \A g \in DOMAIN o.patches :
           o.patches[g].proxies \cup o.patches[g].use # {}

\* Named entries of a section: what is replaced must be there, what is added
\* must be new, also among the names of the other sections it shares.
NamedOps(there, taken, new, add) == new \subseteq there /\ add \cap taken = {}

\* The groups after the additions and replacements, before the patches.
GroupsBefore(p, o) ==
    [g \in DOMAIN o.newGroups \cup DOMAIN o.addGroups \cup DOMAIN p.groups |->
        IF g \in DOMAIN o.newGroups THEN o.newGroups[g]
        ELSE IF g \in DOMAIN o.addGroups THEN o.addGroups[g] ELSE p.groups[g]]

Patched(groups, patches) ==
    [g \in DOMAIN groups |->
        IF g \notin DOMAIN patches THEN groups[g]
        ELSE [proxies |-> groups[g].proxies \cup patches[g].proxies,
              use |-> groups[g].use \cup patches[g].use]]

\* A patch appends to a group that is there, and nothing it already has.
PatchesApply(groups, patches) ==
    \A g \in DOMAIN patches :
        /\ g \in DOMAIN groups
        /\ patches[g].proxies \cap groups[g].proxies = {}
        /\ patches[g].use \cap groups[g].use = {}

\* The members of a group exist in q.
KnownGroup(members, q) ==
    /\ members.proxies \subseteq Targets(q) \cup Builtins
    /\ members.use \subseteq q.providers

KnownRule(r, q) ==
    /\ r.set \in q.sets \cup {""}
    /\ r.to \in Targets(q) \cup Builtins

OverlaidRules(rules, o) == o.prepend \o Body(rules) \o o.tail \o Terminal(rules)

Overlaid(p, o) ==
    [proxies |-> p.proxies \cup o.addProxies, providers |-> p.providers \cup o.addProviders,
     sets |-> p.sets \cup o.addSets, groups |-> Patched(GroupsBefore(p, o), o.patches),
     rules |-> OverlaidRules(p.rules, o), dns |-> p.dns, meta |-> p.meta]

\* The refusals of a composition. The groups looked at are the ones the
\* document adds, replaces or patches, and the rules are the ones it adds.
OverlayFits(p, o) ==
    LET q == Overlaid(p, o)
    IN  /\ NamedOps(p.proxies, Targets(p), o.newProxies, o.addProxies)
        /\ NamedOps(p.providers, p.providers, o.newProviders, o.addProviders)
        /\ NamedOps(DOMAIN p.groups, Targets(p) \cup o.addProxies,
                    DOMAIN o.newGroups, DOMAIN o.addGroups)
        /\ NamedOps(p.sets, p.sets, o.newSets, o.addSets)
        /\ PatchesApply(GroupsBefore(p, o), o.patches)
        /\ \A g \in DOMAIN o.patches : KnownGroup(o.patches[g], q)
        /\ \A g \in DOMAIN o.addGroups \cup DOMAIN o.newGroups :
               KnownGroup(q.groups[g], q)
        /\ \A r \in Range(o.prepend \o o.tail) : KnownRule(r, q)
        /\ o.tail # <<>> => HasTerminal(p.rules)
        /\ Accepted(q)
==============================================================================
