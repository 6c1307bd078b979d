---------------------------- MODULE PlatformApis ----------------------------
(***************************************************************************)
(* The Platform API-definition surface (src/src/api/                      *)
(* platform_api_definitions.rs): ApiDefinition::validate, the lowering    *)
(* api_to_cluster / api_to_route_config, and the five handlers.  Create   *)
(* validates, lowers, discards the derived cluster and route config and   *)
(* answers 201 with fresh ids; nothing reaches the Native repositories    *)
(* (native).  List answers an empty page; get, update and delete answer  *)
(* 404.                                                                    *)
(*                                                                         *)
(* The derived route config is checked with validate_route_payload        *)
(* (route_handlers.rs), whose per-rule body comes from RouteValidation.   *)
(* Native cluster validation is not under src/: it is the Cluster         *)
(* invariants of spec.md 3.                                                *)
(*                                                                         *)
(* Strings are sequences over Chars.  Fields the lowering drops or copies *)
(* verbatim and no check reads (version, methods, tls, metadata, the      *)
(* policies other than timeout.request) are left out; version has the     *)
(* same length(min = 1) check as name.                                     *)
(***************************************************************************)
EXTENDS Naturals, Sequences, SequencesExt, OpenApiImport

CONSTANTS
    Chars,          \* alphabet of names and paths
    NameSamples,    \* api names, service names, descriptions (strings over Chars)
    PathSamples,    \* base paths and route paths (strings over Chars)
    Hosts, Ports,   \* upstream endpoint hosts and ports
    LbStrings,      \* upstream loadBalancing strings a client may send
    Timeouts,       \* policies.timeout.request values (seconds)
    MaxRoutes,      \* longest routes list considered
    ApiDefinitions, \* the definitions a client may submit
    ListQueries,    \* ListApisQuery values a client may send
    ApiId,          \* the Uuid::new_v4() of the create
    MaxOps          \* requests after the create

\* Only RouteValidation's operators on one rule are used, so its request
\* variables are given constant values.
RV == INSTANCE RouteValidation
        WITH MaxLen <- 2, SampleRules <- {}, MaxWeight <- 1, payload <- None, phase <- None,
             stored <- None, view <- None

IsBlank(s) == \A i \in DOMAIN s : s[i] = " "

-----------------------------------------------------------------------------
(* The request model.                                                      *)

UpstreamEndpoints == [host : Hosts, port : Ports]

\* UpstreamConfig: service, endpoints, loadBalancing.
Upstreams == [service : NameSamples, endpoints : SeqOf(UpstreamEndpoints, 1),
              loadBalancing : LbStrings]

\* ApiRoute: path and description.
ApiRoutes == [path : PathSamples, description : Opt(NameSamples)]

\* ApiDefinition, with policies reduced to the one value the lowering reads:
\* policies.timeout.request, None when any link of the chain is None.
AllApiDefinitions ==
    [name : NameSamples, basePath : PathSamples, upstream : Upstreams,
     routes : SeqOf(ApiRoutes, MaxRoutes), timeoutRequest : Opt(Timeouts)]

\* #[derive(Validate)] on ApiDefinition: name, version and base_path have a
\* minimum length and routes must be non-empty.  upstream and the entries of
\* routes carry no #[validate(nested)], so their own rules never run.
\* ApiDefinition validation without routes' length(min = 1).
ValidateApiDefinitionNoRoutes(d) ==
    /\ Len(d.name) >= 1
    /\ Len(d.basePath) >= 1

ValidateApiDefinition(d) ==
    /\ Len(d.name) >= 1
    /\ Len(d.basePath) >= 1
    /\ Len(d.routes) >= 1

\* format!("{}-cluster", api_id) and its siblings: the id followed by a suffix.
DerivedName(id, suffix) == <<id, suffix>>

-----------------------------------------------------------------------------
(* Lowering.                                                               *)

\* api_to_cluster: endpoints keep host and port, lbPolicy is the upstream's
\* string, the connect timeout is policies.timeout.request.
ApiToCluster(d, clusterName) ==
    [name |-> clusterName,
     serviceName |-> d.upstream.service,
     endpoints |-> d.upstream.endpoints,
     connectTimeoutSeconds |-> d.timeoutRequest,
     lbPolicy |-> d.upstream.loadBalancing]

\* One Forward rule per ApiRoute, to the upstream service, matching the
\* route path relative to the base path.
ApiRouteToRule(d, r) ==
    [name |-> r.description,
     path |-> [kind |-> "prefix", value |-> d.basePath \o r.path],
     headers |-> <<>>, queryParameters |-> <<>>,
     action |-> [type |-> "forward", cluster |-> d.upstream.service,
                 prefixRewrite |-> None, templateRewrite |-> None]]

\* api_to_route_config: one virtual host named after the API, domain "*".
ApiToRouteConfig(d, routeConfigName) ==
    [name |-> routeConfigName,
     virtualHosts |-> <<[name |-> d.name, domains |-> <<<<"*">>>>,
                         routes |-> [i \in 1..Len(d.routes) |->
                                        ApiRouteToRule(d, d.routes[i])]]>>]

-----------------------------------------------------------------------------
(* What the Native surface would do with the derived resources.            *)

\* validate_route_payload: the derive(Validate) length checks on the
\* definition, each virtual host and each rule's optional name, no blank
\* domain, then the per-rule checks.
ValidateRoutePayload(def) ==
    /\ Len(def.virtualHosts) >= 1
    /\ \A v \in 1..Len(def.virtualHosts) :
         LET vh == def.virtualHosts[v] IN
         /\ Len(vh.name) >= 1 /\ Len(vh.domains) >= 1 /\ Len(vh.routes) >= 1
         /\ \A i \in 1..Len(vh.domains) : ~IsBlank(vh.domains[i])
         /\ \A i \in 1..Len(vh.routes) :
              /\ vh.routes[i].name # None => Len(vh.routes[i].name) >= 1
              /\ RV!ValidateRouteRule(vh.routes[i])

\* The Cluster invariants of spec.md 3 that the lowering can break.
LbPolicies == {"ROUND_ROBIN", "LEAST_REQUEST", "RANDOM", "RING_HASH", "MAGLEV"}

SpecClusterValid(c) ==
    /\ c.endpoints # <<>>
    /\ \A i \in 1..Len(c.endpoints) : c.endpoints[i].port \in 1..65535
    /\ c.lbPolicy \in LbPolicies

-----------------------------------------------------------------------------
(* The handlers.                                                           *)

VARIABLES
    payload,   \* the definition the client submits
    phase,     \* "submitted", "rejected" (400) or "created" (201)
    created,   \* the 201 body: id and the derived resource ids
    lowered,   \* the cluster and route config create computed (then dropped)
    last,      \* the last answer after the create: op, status, body
    ops,       \* requests answered after the create
    imported,  \* the import request and its answer: body, query, answer
    native     \* names the Platform handlers wrote to the Native cluster
               \* and route repositories

vars == <<payload, phase, created, lowered, last, ops, imported, native>>

Answers == [op : {"list", "get", "update", "delete"}, status : {200, 204, 400, 404},
            body : Seq(Seq(Chars))]

\* The shapes api_to_cluster and api_to_route_config produce; a virtual host
\* holds at least one rule (min_items = 1 in RouteDefinition's schema).
DerivedRules ==
    [name : Opt(NameSamples), path : [kind : {"prefix"}, value : Seq(Chars)],
     headers : {<<>>}, queryParameters : {<<>>},
     action : [type : {"forward"}, cluster : NameSamples,
               prefixRewrite : {None}, templateRewrite : {None}]]

DerivedResources ==
    [cluster : [name : {DerivedName(ApiId, "-cluster")}, serviceName : NameSamples,
                endpoints : SeqOf(UpstreamEndpoints, 1),
                connectTimeoutSeconds : Opt(Timeouts), lbPolicy : LbStrings],
     routeConfig : [name : {DerivedName(ApiId, "-routes")},
                    virtualHosts : Seq([name : NameSamples, domains : {<<<<"*">>>>},
                                        routes : Seq(DerivedRules) \ {<<>>}])]]

TypeOK ==
    /\ payload \in Opt(ApiDefinitions)
    /\ lowered \in Opt(DerivedResources)
    /\ phase \in {"submitted", "rejected", "created", "importing", "imported"}
    /\ created \in Opt([id : {ApiId}, clusterId : {DerivedName(ApiId, "-cluster")},
                        routeConfigId : {DerivedName(ApiId, "-routes")},
                        listenerId : {DerivedName(ApiId, "-listener")}])
    /\ last \in Opt(Answers)
    /\ ops \in 0..MaxOps
    /\ native \subseteq {DerivedName(ApiId, "-cluster"), DerivedName(ApiId, "-routes")}
    /\ imported # None => /\ imported.body \in Bodies /\ imported.query \in ImportQueries
                         /\ IsImportAnswer(imported.answer)

\* The client either submits a definition or imports an OpenAPI document.
Init ==
    /\ \/ payload \in ApiDefinitions /\ phase = "submitted"
       \/ payload = None /\ phase = "importing"
    /\ imported = None
    /\ created = None
    /\ lowered = None
    /\ last = None
    /\ ops = 0
    /\ native = {}

\* create_api_definition_handler: the derived cluster and route config are
\* built and validated but never passed to a repository (native unchanged).
CreateApi ==
    /\ phase = "submitted"
    /\ IF ValidateApiDefinition(payload)
       THEN LET clusterId == DerivedName(ApiId, "-cluster")
                routeConfigId == DerivedName(ApiId, "-routes")
            IN /\ phase' = "created"
               /\ lowered' = [cluster |-> ApiToCluster(payload, clusterId),
                              routeConfig |-> ApiToRouteConfig(payload, routeConfigId)]
               /\ created' = [id |-> ApiId, clusterId |-> clusterId,
                              routeConfigId |-> routeConfigId,
                              listenerId |-> DerivedName(ApiId, "-listener")]
       ELSE /\ phase' = "rejected"
            /\ UNCHANGED <<created, lowered>>
    /\ UNCHANGED <<native, payload, last, ops, imported>>

\* list_api_definitions_handler's filters and pagination, applied to the
\* list it starts from.
StrContains(s, t) == \E i \in 1..Len(s) + 1, j \in 0..Len(s) : SubSeq(s, i, j) = t

ListPage(results, q) ==
    LET byName == IF q.name = None THEN results
                  ELSE SelectSeq(results, LAMBDA a : StrContains(a.name, q.name))
        byVersion == IF q.version = None THEN byName
                     ELSE SelectSeq(byName, LAMBDA a : a.version = q.version)
        offset == IF q.offset = None THEN 0 ELSE q.offset
        limit == IF q.limit = None THEN 100 ELSE q.limit
        n == Len(byVersion)
    IN SubSeq(byVersion, offset + 1, IF offset + limit < n THEN offset + limit ELSE n)

\* The handler starts from an empty vec: nothing was stored.
ListApis ==
    /\ phase = "created" /\ ops < MaxOps
    /\ \E q \in ListQueries :
          last' = [op |-> "list", status |-> 200,
                   body |-> [i \in 1..Len(ListPage(<<>>, q)) |-> ListPage(<<>>, q)[i].name]]
    /\ ops' = ops + 1
    /\ UNCHANGED <<native, payload, phase, created, lowered, imported>>

GetApi ==
    /\ phase = "created" /\ ops < MaxOps
    /\ last' = [op |-> "get", status |-> 404, body |-> <<>>]
    /\ ops' = ops + 1
    /\ UNCHANGED <<native, payload, phase, created, lowered, imported>>

\* update_api_definition_handler with the created definition resubmitted.
UpdateApi ==
    /\ phase = "created" /\ ops < MaxOps
    /\ last' = [op |-> "update",
                status |-> IF ValidateApiDefinition(payload) THEN 404 ELSE 400,
                body |-> <<>>]
    /\ ops' = ops + 1
    /\ UNCHANGED <<native, payload, phase, created, lowered, imported>>

DeleteApi ==
    /\ phase = "created" /\ ops < MaxOps
    /\ last' = [op |-> "delete", status |-> 404, body |-> <<>>]
    /\ ops' = ops + 1
    /\ UNCHANGED <<native, payload, phase, created, lowered, imported>>

\* import_openapi_handler: the query is deserialised, the body read and
\* parsed, and the answer computed; nothing is stored.
ImportOpenApi ==
    /\ phase = "importing"
    /\ \E b \in Bodies, q \in ImportQueries :
          imported' = [body |-> b, query |-> q, answer |-> ImportAnswer(b, q)]
    /\ phase' = "imported"
    /\ UNCHANGED <<native, payload, created, lowered, last, ops>>

Next == CreateApi \/ ListApis \/ GetApi \/ UpdateApi \/ DeleteApi \/ ImportOpenApi

Spec == Init /\ [][Next]_vars

-----------------------------------------------------------------------------
(* platform_transformers::policies_to_filters.  The fixed parts of each    *)
(* filter's JSON (domain, stage, timeouts, the rate-limit service) are     *)
(* left out; what is kept is what the policy puts in.                      *)

RateLimitFilterName == "envoy.filters.http.ratelimit"
CorsFilterName == "envoy.filters.http.cors"
JwtFilterName == "envoy.filters.http.jwt_authn"

\* Vec<String>::join(", ").
JoinComma(s) == IF s = <<>> THEN "" ELSE FoldLeft(LAMBDA acc, x : acc \o ", " \o x, Head(s), Tail(s))

\* An empty JSON object (json!({})).
EmptyObject == <<>>

\* The rate-limit filter: one descriptor entry whose value is
\* format!("{}/{}", requests, interval).
RateLimitToFilter(rl) ==
    RateLimitFilterName :> [descriptor |-> ToString(rl.requests) \o "/" \o rl.interval]

\* The CORS filter: origins become exact string matches, methods and
\* headers are joined with ", ", max_age is rendered with to_string.
CorsToFilter(c) ==
    CorsFilterName :>
        [allowOrigins |-> [i \in DOMAIN c.origins |-> [exact |-> c.origins[i]]],
         allowMethods |-> JoinComma(c.methods),
         allowHeaders |-> JoinComma(c.headers),
         allowCredentials |-> c.allowCredentials,
         maxAge |-> IF c.maxAge = None THEN None ELSE ToString(c.maxAge)]

\* Mutant of AuthenticationToFilter: the rule requires the provider whether
\* or not the policy is required.
AuthenticationToFilterAlwaysRequire(auth) ==
    IF auth.type # "jwt" THEN EmptyObject
    ELSE JwtFilterName :>
            [provider |-> IF auth.config = None THEN EmptyObject ELSE auth.config,
             requires |-> [providerName |-> "provider"]]

\* The JWT filter, only for an authentication of type "jwt": the provider
\* is the policy's config (an empty object when absent), and the rule
\* requires it only when the policy is required.
AuthenticationToFilter(auth) ==
    IF auth.type # "jwt" THEN EmptyObject
    ELSE JwtFilterName :>
            [provider |-> IF auth.config = None THEN EmptyObject ELSE auth.config,
             requires |-> IF auth.required THEN [providerName |-> "provider"]
                          ELSE EmptyObject]

\* policies_to_filters: starting from an empty object, each policy present
\* adds its filter; authorization, circuit breaker, retry and timeout are
\* ignored.
PoliciesToFilters(p) ==
    (IF p.rateLimit = None THEN EmptyObject ELSE RateLimitToFilter(p.rateLimit))
    @@ (IF p.cors = None THEN EmptyObject ELSE CorsToFilter(p.cors))
    @@ (IF p.authentication = None THEN EmptyObject
        ELSE AuthenticationToFilter(p.authentication))

-----------------------------------------------------------------------------
(* Properties.                                                             *)

\* spec.md 4.E: create lowers the definition and invokes the Native
\* create path for each derived resource, so once create_api_definition_
\* handler has answered 201 the cluster and route config it reports
\* ({id}-cluster, {id}-routes) are stored, as test_cross_api_visibility.rs
\* expects when it GETs them on the Native API.
DerivedResourcesPersisted ==
    phase = "created" => {created.clusterId, created.routeConfigId} \subseteq native

\* spec.md 4.F: an import answers 400 exactly for an unreadable or
\* unparsable body or a non-3.x document; otherwise its routes are one per
\* path and present method in loop order with the policies step 6 emits,
\* its global policies are those of the first route (not of a later route
\* with policies), and every unknown x-flowplane-* key of every operation
\* is warned about (extract_flowplane_policies, openapi_to_api_definition).
ImportFollowsSpec ==
    imported # None => AnswerFollowsSpec(imported.body, imported.query, imported.answer)

\* spec.md 4.F step 6: a malformed x-flowplane-ratelimit (requests not an
\* integer or interval not a string) produces a warning on the import
\* answer (extract_flowplane_policies).
ImportWarnsMalformedRateLimit ==
    imported # None => AnswerWarnsMalformedRateLimit(imported.body, imported.query, imported.answer)

\* spec.md 4.E and 8.6: an accepted definition lowers to resources the
\* Native create paths accept (validate_route_payload for the route config,
\* the Cluster invariants for the cluster).
LoweringIsValid ==
    phase = "created" =>
        /\ ValidateRoutePayload(lowered.routeConfig)
        /\ SpecClusterValid(lowered.cluster)


\* spec.md 4.D: policies_to_filters lowers each policy an import emits
\* (global or per route) to its filter and emits no other filter name: a
\* rate-limit descriptor carrying requests and interval, CORS filters
\* with the origin list as exact matches and the method and header lists,
\* and for a JWT authentication a filter whose provider is the policy's
\* config and whose rule requires that provider exactly when the policy
\* says required (spec.md 8, scenario S5).  Composes
\* extract_flowplane_policies with the transformer.
ImportedPoliciesLower ==
    imported # None /\ imported.answer.status = 201 =>
        LET a == imported.answer
            ps == {a.policies} \cup {a.routes[i].policies : i \in DOMAIN a.routes}
        IN \A p \in ps \ {None} :
              LET f == PoliciesToFilters(p) IN
              /\ DOMAIN f = {n \in {RateLimitFilterName, CorsFilterName, JwtFilterName} :
                                \/ n = RateLimitFilterName /\ p.rateLimit # None
                                \/ n = CorsFilterName /\ p.cors # None
                                \/ n = JwtFilterName /\ p.authentication # None}
              /\ p.rateLimit # None =>
                    f[RateLimitFilterName].descriptor
                        = ToString(p.rateLimit.requests) \o "/" \o p.rateLimit.interval
              /\ p.cors # None =>
                    /\ Len(f[CorsFilterName].allowOrigins) = Len(p.cors.origins)
                    /\ \A i \in DOMAIN p.cors.origins :
                          f[CorsFilterName].allowOrigins[i].exact = p.cors.origins[i]
              /\ p.authentication # None =>
                    /\ f[JwtFilterName].provider = p.authentication.config
                    /\ (f[JwtFilterName].requires # EmptyObject) = p.authentication.required

=============================================================================
