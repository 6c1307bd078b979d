--------------------------- MODULE RouteValidation ---------------------------
(***************************************************************************)
(* Validation and xDS conversion of route rules (src/src/api/            *)
(* route_handlers.rs): the path of a rule through create_route_handler    *)
(* (validate_route_payload, to_xds_config), storage, and get_route_handler *)
(* (route_response_from_data, from_xds_config); and the conversion of a   *)
(* whole RouteDefinition, virtual hosts and scoped filter configs         *)
(* included, over a bounded set of sample definitions.                     *)
(*                                                                         *)
(* Strings are sequences over a small alphabet Chars, so that trim(),     *)
(* starts_with('/') and the URI-template grammar are computed, not        *)
(* assumed.  Names (clusters, headers, redirect values) range over        *)
(* NameSamples: only whether they are blank matters to the code.  Fields *)
(* the code copies verbatim and never inspects (timeoutSeconds,           *)
(* totalWeight, responseCode, header values) are left out.  A             *)
(* typed_per_filter_config map is a function from filter names to an      *)
(* abstract config; rules of the state-space part carry the empty map.    *)
(* The rule's own optional name (length 1..100 by #[validate]) is not     *)
(* modelled; the definition-level checks are PlatformApis's               *)
(* ValidateRoutePayload.                                                   *)
(***************************************************************************)
EXTENDS Naturals, Sequences, SequencesExt

CONSTANTS
    Chars,          \* alphabet of path, rewrite and template strings
    MaxLen,         \* longest path string considered
    NameSamples,    \* names and redirect values, as strings over Chars
    MaxWeight,      \* largest weighted-cluster weight considered
    SampleRules,    \* rules, with scoped filter maps, for whole definitions
    None            \* Option::None

Str == SeqOf(Chars, MaxLen)

ShortStr == SeqOf(Chars, 1)

Opt(S) == S \cup {None}

\* typed_per_filter_config: an empty HashMap, and one override of the
\* local rate-limit filter (spec.md 8, scenario S3).
NoFilters == <<>>

RateLimitFilter == "local_ratelimit" :> "max_tokens=10"

FilterMaps == {NoFilters, RateLimitFilter}

\* str.trim().is_empty(): the string has only whitespace.
IsBlank(s) == \A i \in DOMAIN s : s[i] = " "

StartsWithSlash(s) == s # <<>> /\ s[1] = "/"

-----------------------------------------------------------------------------
(* The request model: RouteRuleDefinition and its parts.                   *)

PathKinds == {"exact", "prefix", "regex", "template"}

PathMatches == [kind : PathKinds, value : Str]

WeightedClusters == [name : NameSamples, weight : 0..MaxWeight,
                      typedPerFilterConfig : {NoFilters}]

Actions ==
    [type : {"forward"}, cluster : NameSamples,
     prefixRewrite : Opt(ShortStr), templateRewrite : Opt(ShortStr)]
    \cup [type : {"weighted"}, clusters : SeqOf(WeightedClusters, 2)]
    \cup [type : {"redirect"}, hostRedirect : Opt(NameSamples),
          pathRedirect : Opt(NameSamples)]

\* The rules a client can submit (bounded).
Rules ==
    [path : PathMatches, headers : SeqOf(NameSamples, 1),
     queryParameters : SeqOf(NameSamples, 1), action : Actions,
     typedPerFilterConfig : {NoFilters}]

-----------------------------------------------------------------------------
(* Validation (validate_route_payload's per-route body and its helpers).   *)

\* ensure_valid_uri_template: the UriTemplateMatchConfig proto must encode
\* to a non-empty byte string.  Proto3 omits an empty string field, so the
\* encoding is empty exactly when the template is empty.
EnsureValidUriTemplate(t) == t # <<>>

\* validate_route_match: the path payload must not be blank, a template is
\* checked by ensure_valid_uri_template, and no header or query-parameter
\* name may be blank.
ValidateRouteMatch(r) ==
    /\ ~IsBlank(r.path.value)
    /\ r.path.kind = "template" => EnsureValidUriTemplate(r.path.value)
    /\ \A i \in DOMAIN r.headers : ~IsBlank(r.headers[i])
    /\ \A i \in DOMAIN r.queryParameters : ~IsBlank(r.queryParameters[i])

\* validate_route_action, one arm per action variant.
ValidateRouteAction(a) ==
    CASE a.type = "forward" ->
            /\ ~IsBlank(a.cluster)
            /\ a.prefixRewrite # None =>
                  ~IsBlank(a.prefixRewrite) /\ StartsWithSlash(a.prefixRewrite)
            /\ a.templateRewrite # None =>
                  ~IsBlank(a.templateRewrite) /\ EnsureValidUriTemplate(a.templateRewrite)
      [] a.type = "weighted" ->
            /\ a.clusters # <<>>
            /\ \A i \in DOMAIN a.clusters : ~IsBlank(a.clusters[i].name)
            /\ \A i \in DOMAIN a.clusters : a.clusters[i].weight # 0
      [] a.type = "redirect" ->
            /\ a.hostRedirect # None => ~IsBlank(a.hostRedirect)
            /\ a.pathRedirect # None => ~IsBlank(a.pathRedirect)

\* Mutant of CrossFieldCheck: the plain (Template, Forward) arm is matched
\* before the arm that rejects a prefixRewrite.
CrossFieldCheckArmsSwapped(r) ==
    LET template == r.path.kind = "template"
        forward  == r.action.type = "forward"
    IN IF template /\ forward THEN TRUE
       ELSE IF template /\ forward /\ r.action.prefixRewrite # None THEN FALSE
       ELSE IF template THEN FALSE
       ELSE IF forward /\ r.action.templateRewrite # None THEN FALSE
       ELSE TRUE

\* The cross-field match in validate_route_payload.  Rust match arms are
\* tried in order, so the arms are nested IFs, first arm outermost.
CrossFieldCheck(r) ==
    LET template == r.path.kind = "template"
        forward  == r.action.type = "forward"
    IN IF template /\ forward /\ r.action.prefixRewrite # None THEN FALSE
       ELSE IF template /\ forward THEN TRUE
       ELSE IF template THEN FALSE
       ELSE IF forward /\ r.action.templateRewrite # None THEN FALSE
       ELSE TRUE

\* The per-route body of validate_route_payload's loop.
ValidateRouteRule(r) ==
    /\ ValidateRouteMatch(r)
    /\ ValidateRouteAction(r.action)
    /\ CrossFieldCheck(r)

-----------------------------------------------------------------------------
(* Conversion to and from the stored xDS-shaped form.                      *)

\* HeaderMatchDefinition / QueryParameterMatchDefinition lists: an empty
\* list is stored as None, a non-empty one as Some(list).
ListToXds(l) == IF l = <<>> THEN None ELSE l

ListFromXds(x) == IF x = None THEN <<>> ELSE x

\* RouteActionDefinition::to_xds_config: Forward becomes a Cluster action,
\* Weighted with no cluster is an error, Redirect is copied.
RouteActionToXds(a) ==
    CASE a.type = "forward" ->
            [type |-> "cluster", name |-> a.cluster,
             prefixRewrite |-> a.prefixRewrite,
             pathTemplateRewrite |-> a.templateRewrite]
      [] a.type = "weighted" ->
            IF a.clusters = <<>> THEN None
            ELSE [type |-> "weighted_clusters", clusters |-> a.clusters]
      [] a.type = "redirect" ->
            [type |-> "redirect", hostRedirect |-> a.hostRedirect,
             pathRedirect |-> a.pathRedirect]

\* Mutant of RouteActionFromXds: the two rewrites are read back swapped.
RouteActionFromXdsSwapped(x) ==
    CASE x.type = "cluster" ->
            [type |-> "forward", cluster |-> x.name,
             prefixRewrite |-> x.pathTemplateRewrite,
             templateRewrite |-> x.prefixRewrite]
      [] x.type = "weighted_clusters" ->
            [type |-> "weighted", clusters |-> x.clusters]
      [] x.type = "redirect" ->
            [type |-> "redirect", hostRedirect |-> x.hostRedirect,
             pathRedirect |-> x.pathRedirect]

\* RouteActionDefinition::from_xds_config.
RouteActionFromXds(x) ==
    CASE x.type = "cluster" ->
            [type |-> "forward", cluster |-> x.name,
             prefixRewrite |-> x.prefixRewrite,
             templateRewrite |-> x.pathTemplateRewrite]
      [] x.type = "weighted_clusters" ->
            [type |-> "weighted", clusters |-> x.clusters]
      [] x.type = "redirect" ->
            [type |-> "redirect", hostRedirect |-> x.hostRedirect,
             pathRedirect |-> x.pathRedirect]

\* Mutant of RouteMatchToXds: an empty header list is stored as Some([]).
RouteMatchToXdsKeepEmpty(r) ==
    [path |-> r.path, headers |-> r.headers,
     queryParameters |-> ListToXds(r.queryParameters)]

\* RouteMatchDefinition::to_xds_config (PathMatchDefinition maps each
\* variant to the XdsPathMatch variant of the same name).
RouteMatchToXds(r) ==
    [path |-> r.path, headers |-> ListToXds(r.headers),
     queryParameters |-> ListToXds(r.queryParameters)]

\* RouteRuleDefinition::to_xds_config: fails when the action fails.
RouteRuleToXds(r) ==
    IF RouteActionToXds(r.action) = None THEN None
    ELSE [match |-> RouteMatchToXds(r), action |-> RouteActionToXds(r.action),
          typedPerFilterConfig |-> r.typedPerFilterConfig]

\* RouteMatchDefinition::from_xds_config: absent lists read back empty.
RouteMatchFromXds(m) ==
    [path |-> m.path, headers |-> ListFromXds(m.headers),
     queryParameters |-> ListFromXds(m.queryParameters)]

\* RouteRuleDefinition::from_xds_config.
RouteRuleFromXds(x) ==
    LET m == RouteMatchFromXds(x.match) IN
    [path |-> m.path, headers |-> m.headers,
     queryParameters |-> m.queryParameters,
     action |-> RouteActionFromXds(x.action),
     typedPerFilterConfig |-> x.typedPerFilterConfig]

XdsActions ==
    [type : {"cluster"}, name : Seq(Chars),
     prefixRewrite : Opt(Seq(Chars)), pathTemplateRewrite : Opt(Seq(Chars))]
    \cup [type : {"weighted_clusters"},
          clusters : Seq([name : Seq(Chars), weight : Nat,
                          typedPerFilterConfig : {NoFilters}]) \ {<<>>}]
    \cup [type : {"redirect"}, hostRedirect : Opt(Seq(Chars)),
          pathRedirect : Opt(Seq(Chars))]

XdsRules ==
    [match : [path : [kind : PathKinds, value : Seq(Chars)],
              headers : Opt(Seq(Seq(Chars)) \ {<<>>}),
              queryParameters : Opt(Seq(Seq(Chars)) \ {<<>>})],
     action : XdsActions, typedPerFilterConfig : {NoFilters}]

-----------------------------------------------------------------------------
(* Whole definitions: RouteDefinition and VirtualHostDefinition.           *)

\* collect::<Result<Vec<_>, _>>() over converted parts: the whole
\* conversion fails when one part failed.
AnyFailed(parts) == \E i \in DOMAIN parts : parts[i] = None

\* VirtualHostDefinition::to_xds_config: the rules are converted in order,
\* name, domains and typed_per_filter_config are cloned.
VirtualHostToXds(vh) ==
    LET routes == [i \in DOMAIN vh.routes |-> RouteRuleToXds(vh.routes[i])] IN
    IF AnyFailed(routes) THEN None
    ELSE [name |-> vh.name, domains |-> vh.domains, routes |-> routes,
          typedPerFilterConfig |-> vh.typedPerFilterConfig]

\* Mutant of VirtualHostFromXds: the host's typed_per_filter_config is not
\* read back.
VirtualHostFromXdsDropFilters(x) ==
    [name |-> x.name, domains |-> x.domains,
     routes |-> [i \in DOMAIN x.routes |-> RouteRuleFromXds(x.routes[i])],
     typedPerFilterConfig |-> NoFilters]

\* VirtualHostDefinition::from_xds_config.
VirtualHostFromXds(x) ==
    [name |-> x.name, domains |-> x.domains,
     routes |-> [i \in DOMAIN x.routes |-> RouteRuleFromXds(x.routes[i])],
     typedPerFilterConfig |-> x.typedPerFilterConfig]

\* RouteDefinition::to_xds_config: fails when a virtual host fails.
RouteDefinitionToXds(d) ==
    LET hosts == [v \in DOMAIN d.virtualHosts |-> VirtualHostToXds(d.virtualHosts[v])] IN
    IF AnyFailed(hosts) THEN None ELSE [name |-> d.name, virtualHosts |-> hosts]

\* RouteDefinition::from_xds_config.
RouteDefinitionFromXds(x) ==
    [name |-> x.name,
     virtualHosts |-> [v \in DOMAIN x.virtualHosts |-> VirtualHostFromXds(x.virtualHosts[v])]]

\* The bounded definitions: up to two virtual hosts of up to two sample
\* rules each, every host with or without a filter override.
SampleDefinitions ==
    LET name == CHOOSE n \in NameSamples : ~IsBlank(n)
        hosts == [name : {name}, domains : {<<name>>},
                  routes : SeqOf(SampleRules, 2),
                  typedPerFilterConfig : FilterMaps]
    IN [name : {name}, virtualHosts : SeqOf(hosts, 2)]

\* A rule whose Weighted action lists no cluster.
EmptyWeighted(r) == r.action.type = "weighted" /\ r.action.clusters = <<>>

-----------------------------------------------------------------------------
(* One rule's life: submitted, rejected or stored, then read back.         *)

VARIABLES
    payload,    \* the rule the client submitted
    phase,      \* "submitted", "rejected", "stored" or "read"
    stored,     \* the xDS-shaped rule in the repository row, or None
    view        \* the rule get_route_handler returns, or None

vars == <<payload, phase, stored, view>>

TypeOK ==
    /\ payload \in Rules
    /\ phase \in {"submitted", "rejected", "stored", "read"}
    /\ stored \in XdsRules \cup {None}
    /\ view \in Opt([path : [kind : PathKinds, value : Seq(Chars)],
                     headers : Seq(Seq(Chars)),
                     queryParameters : Seq(Seq(Chars)),
                     action : Actions, typedPerFilterConfig : {NoFilters}])

Init ==
    /\ payload \in Rules
    /\ phase = "submitted"
    /\ stored = None
    /\ view = None

\* create_route_handler up to the repository write: validate_route_payload
\* (400), then to_xds_config (400 for a Weighted action with no cluster);
\* an accepted rule is stored in its xDS form.
CreateRoute ==
    /\ phase = "submitted"
    /\ IF ValidateRouteRule(payload) /\ RouteRuleToXds(payload) # None
       THEN /\ stored' = RouteRuleToXds(payload)
            /\ phase' = "stored"
       ELSE /\ phase' = "rejected"
            /\ UNCHANGED stored
    /\ UNCHANGED <<payload, view>>

\* get_route_handler: route_response_from_data rebuilds the definition
\* from the stored configuration with from_xds_config.
GetRoute ==
    /\ phase = "stored"
    /\ view' = RouteRuleFromXds(stored)
    /\ phase' = "read"
    /\ UNCHANGED <<payload, stored>>

Next == CreateRoute \/ GetRoute

Spec == Init /\ [][Next]_vars

-----------------------------------------------------------------------------
(* Reference definitions, written from spec.md 3, 4.A and 8.1.             *)

\* The invariants spec.md 3 states for a route rule.  The path payload and
\* match names must not be blank.  Template forbids prefixRewrite and needs
\* Forward; templateRewrite needs Template; Weighted needs at least one
\* cluster, each with weight > 0; prefixRewrite starts with '/'.  Names the
\* data model makes mandatory (clusters) and optional values given as
\* strings (rewrites, redirects) are read as "not blank" too.
SpecRuleValid(r) ==
    LET a == r.action IN
    /\ ~IsBlank(r.path.value)
    /\ \A i \in DOMAIN r.headers : ~IsBlank(r.headers[i])
    /\ \A i \in DOMAIN r.queryParameters : ~IsBlank(r.queryParameters[i])
    /\ r.path.kind = "template" => a.type = "forward" /\ a.prefixRewrite = None
    /\ a.type = "forward" /\ a.templateRewrite # None => r.path.kind = "template"
    /\ a.type = "forward" =>
          /\ ~IsBlank(a.cluster)
          /\ a.prefixRewrite # None => StartsWithSlash(a.prefixRewrite)
          /\ a.templateRewrite # None => ~IsBlank(a.templateRewrite)
    /\ a.type = "weighted" =>
          /\ a.clusters # <<>>
          /\ \A i \in DOMAIN a.clusters :
                ~IsBlank(a.clusters[i].name) /\ a.clusters[i].weight > 0
    /\ a.type = "redirect" =>
          /\ a.hostRedirect # None => ~IsBlank(a.hostRedirect)
          /\ a.pathRedirect # None => ~IsBlank(a.pathRedirect)

-----------------------------------------------------------------------------
(* Properties                                                               *)

\* validate_route_payload's per-route checks, with to_xds_config's own
\* Weighted check, accept a rule exactly when it satisfies spec.md 3 (and
\* so reject both rules of spec.md 8.7).  This covers the order of the
\* cross-field match arms and every early return of validate_route_match
\* and validate_route_action.
ValidationMatchesSpec ==
    phase # "submitted" => ((phase = "rejected") = ~SpecRuleValid(payload))

\* Round trip (spec.md 8.1): a rule accepted by create_route_handler is
\* returned unchanged by get_route_handler, through to_xds_config, the
\* stored form and from_xds_config.
RoundTrip == phase = "read" => view = payload

\* What spec.md 8.1 and scenario S3 ask of a definition's conversion:
\* to_xds_config refuses it exactly when one of its rules, in any virtual
\* host, is a Weighted action with no cluster, and from_xds_config gives
\* every other one back unchanged.
ConvertsBack(d) ==
    LET x == RouteDefinitionToXds(d) IN
    /\ (x = None) = \E v \in DOMAIN d.virtualHosts :
                        \E i \in DOMAIN d.virtualHosts[v].routes :
                           EmptyWeighted(d.virtualHosts[v].routes[i])
    /\ x # None => RouteDefinitionFromXds(x) = d

SamplesConvertBack == \A d \in SampleDefinitions : ConvertsBack(d)

\* The submitted rule as the second rule of the second host of a
\* definition, after a host with a filter override.
DefinitionAround(r) ==
    LET name == CHOOSE n \in NameSamples : ~IsBlank(n)
        s == CHOOSE s \in SampleRules : s.typedPerFilterConfig # NoFilters
        Host(routes, f) == [name |-> name, domains |-> <<name>>, routes |-> routes,
                            typedPerFilterConfig |-> f]
    IN [name |-> name,
        virtualHosts |-> <<Host(<<s>>, RateLimitFilter), Host(<<s, r>>, NoFilters)>>]

\* Round trip of whole definitions (spec.md 8.1, scenario S3: "GET returns
\* the scoped filter"): for every bounded definition, and for the
\* submitted rule placed inside a definition, RouteDefinition::to_xds_config
\* fails exactly when some rule is an empty Weighted action, and otherwise
\* from_xds_config returns the definition unchanged: the
\* typed_per_filter_config of its virtual hosts, rules and weighted
\* clusters, and the order of hosts and rules.
DefinitionRoundTrip ==
    /\ SamplesConvertBack
    /\ ConvertsBack(DefinitionAround(payload))

====
