-------------------------- MODULE ServiceTransform --------------------------
(***************************************************************************)
(* The Platform service surface as conversions around the Native cluster  *)
(* store (src/src/api/platform_service_handlers.rs and                    *)
(* platform_transformers.rs): a ServiceDefinition is validated, lowered   *)
(* by service_to_cluster, stored as a cluster, and read back by the      *)
(* get and list handlers (cluster_response_to_service).  The transformer's*)
(* cluster_to_service has no caller in src/ and is not modelled.          *)
(*                                                                         *)
(* The Native cluster handlers are not under src/: create_cluster_handler *)
(* is modelled from spec.md 4.C as storing the body's fields as the        *)
(* cluster's ClusterSpec, with endpoints as host/port addresses.  Endpoint *)
(* metadata, the generated cluster id of the transformer (a hash) and its *)
(* metadata JSON are left out: no property looks at them.                  *)
(***************************************************************************)
EXTENDS Naturals, Sequences, SequencesExt

CONSTANTS
    ServiceName,        \* the service (and cluster) name in the request
    Hosts, Ports,       \* endpoint hosts and ports
    Weights,            \* endpoint weights as sent
    HealthChecks,       \* ServiceHealthCheck values a client may send
    CircuitBreakers,    \* ServiceCircuitBreaker values
    OutlierDetections,  \* ServiceOutlierDetection values (milliseconds)
    Metadata,           \* service metadata values
    OtherName,          \* a second path name, under which nothing is stored
    Updates,            \* ServiceDefinitions a client may PUT
    None                \* Option::None

Opt(S) == S \cup {None}

Strategies == {"RoundRobin", "LeastRequest", "Random", "RingHash", "Maglev"}

Endpoints == [host : Hosts, port : Ports, weight : Weights]

\* The ServiceDefinition bodies a client may send (bounded).
ServiceDefinitions ==
    [name : {ServiceName}, endpoints : SeqOf(Endpoints, 2),
     loadBalancing : Strategies, healthCheck : Opt(HealthChecks),
     circuitBreaker : Opt(CircuitBreakers),
     outlierDetection : Opt(OutlierDetections), metadata : Opt(Metadata)]

\* Option::map for the millisecond/second conversions (u64 arithmetic; the
\* bounded values stay far from 2^64).
MapOpt(o, F(_)) == IF o = None THEN None ELSE F(o)

UnwrapOr(o, d) == IF o = None THEN d ELSE o

\* Mutant of MsToSeconds: milliseconds are rounded to the nearest second.
MsToSecondsRounding(ms) == (ms + 500) \div 1000

\* ms / 1000 on u64: floor division.
MsToSeconds(ms) == ms \div 1000

SecondsToMs(s) == s * 1000

-----------------------------------------------------------------------------
(* Lowering: ServiceDefinition -> CreateClusterBody                        *)

\* ServiceDefinition's #[validate]: a name of 1..255 characters and at
\* least one endpoint.  The endpoints field carries no nested validation,
\* so the 1..100 range declared on ServiceEndpoint.weight is not checked.
ValidateService(s) == s.endpoints # <<>>

\* The lbPolicy values of a cluster (spec.md 3).
LbPolicies == {"ROUND_ROBIN", "LEAST_REQUEST", "RANDOM", "RING_HASH", "MAGLEV"}

\* Mutant of LoadBalancingToString: RingHash is spelled without the
\* underscore.
LoadBalancingToStringTypo(lb) ==
    CASE lb = "RoundRobin"   -> "ROUND_ROBIN"
      [] lb = "LeastRequest" -> "LEAST_REQUEST"
      [] lb = "Random"       -> "RANDOM"
      [] lb = "RingHash"     -> "RINGHASH"
      [] lb = "Maglev"       -> "MAGLEV"

\* load_balancing_to_string.
LoadBalancingToString(lb) ==
    CASE lb = "RoundRobin"   -> "ROUND_ROBIN"
      [] lb = "LeastRequest" -> "LEAST_REQUEST"
      [] lb = "Random"       -> "RANDOM"
      [] lb = "RingHash"     -> "RING_HASH"
      [] lb = "Maglev"       -> "MAGLEV"

\* service_to_cluster: endpoints keep host and port, the strategy becomes
\* its lbPolicy string, a health check becomes one HTTP check, a circuit
\* breaker the default threshold block, and outlier-detection
\* milliseconds are floor-divided into seconds.
ServiceToCluster(s) ==
    [name |-> s.name,
     endpoints |-> [i \in DOMAIN s.endpoints |->
                      [host |-> s.endpoints[i].host, port |-> s.endpoints[i].port]],
     serviceName |-> s.name,
     lbPolicy |-> LoadBalancingToString(s.loadBalancing),
     healthChecks |->
        IF s.healthCheck = None THEN <<>>
        ELSE <<[type |-> "http", path |-> s.healthCheck.path,
                intervalSeconds |-> s.healthCheck.interval,
                timeoutSeconds |-> s.healthCheck.timeout,
                healthyThreshold |-> s.healthCheck.healthyThreshold,
                unhealthyThreshold |-> s.healthCheck.unhealthyThreshold]>>,
     circuitBreakers |->
        IF s.circuitBreaker = None THEN None
        ELSE [default |-> [maxConnections |-> s.circuitBreaker.maxConnections,
                           maxPendingRequests |-> s.circuitBreaker.maxPendingRequests,
                           maxRequests |-> s.circuitBreaker.maxRequests,
                           maxRetries |-> s.circuitBreaker.maxRetries],
              high |-> None],
     outlierDetection |->
        IF s.outlierDetection = None THEN None
        ELSE LET od == s.outlierDetection IN
             [consecutive5xx |-> od.consecutive5xx,
              intervalSeconds |-> MapOpt(od.intervalMs, MsToSeconds),
              baseEjectionTimeSeconds |-> MapOpt(od.baseEjectionTimeMs, MsToSeconds),
              maxEjectionPercent |-> od.maxEjectionPercent]]

\* Mutant of ServiceToClusterResponse: outlier-detection milliseconds are
\* copied into the seconds fields without the division.
ServiceToClusterResponseNoDivide(s, clusterName) ==
    LET c == ServiceToCluster(s) IN
    [name |-> clusterName, serviceName |-> s.name,
     config |-> [connectTimeoutSeconds |-> 5, useTls |-> FALSE,
                 endpoints |-> c.endpoints, lbPolicy |-> c.lbPolicy,
                 healthChecks |-> c.healthChecks,
                 circuitBreakers |-> c.circuitBreakers,
                 outlierDetection |->
                    IF s.outlierDetection = None THEN None
                    ELSE [c.outlierDetection EXCEPT
                            !.intervalSeconds = s.outlierDetection.intervalMs,
                            !.baseEjectionTimeSeconds = s.outlierDetection.baseEjectionTimeMs]]]

\* platform_transformers::service_to_cluster_response: a second lowering of
\* a ServiceDefinition, written out field by field apart from the
\* handler's.  It names the cluster by its argument, adds the defaults
\* connectTimeoutSeconds 5 and useTls false, and writes its own strategy
\* table, HTTP health check, default threshold block and floor-divided
\* outlier detection.
ServiceToClusterResponse(s, clusterName) ==
    LET od == s.outlierDetection IN
    [name |-> clusterName, serviceName |-> s.name,
     config |->
        [connectTimeoutSeconds |-> 5, useTls |-> FALSE,
         endpoints |-> [i \in DOMAIN s.endpoints |->
                          [host |-> s.endpoints[i].host, port |-> s.endpoints[i].port]],
         lbPolicy |-> CASE s.loadBalancing = "RoundRobin"   -> "ROUND_ROBIN"
                        [] s.loadBalancing = "Random"       -> "RANDOM"
                        [] s.loadBalancing = "LeastRequest" -> "LEAST_REQUEST"
                        [] s.loadBalancing = "RingHash"     -> "RING_HASH"
                        [] s.loadBalancing = "Maglev"       -> "MAGLEV",
         healthChecks |->
            IF s.healthCheck = None THEN <<>>
            ELSE <<[type |-> "http", path |-> s.healthCheck.path,
                    intervalSeconds |-> s.healthCheck.interval,
                    timeoutSeconds |-> s.healthCheck.timeout,
                    healthyThreshold |-> s.healthCheck.healthyThreshold,
                    unhealthyThreshold |-> s.healthCheck.unhealthyThreshold]>>,
         circuitBreakers |->
            IF s.circuitBreaker = None THEN None
            ELSE [default |-> [f \in {"maxConnections", "maxPendingRequests",
                                       "maxRequests", "maxRetries"} |->
                                 s.circuitBreaker[f]],
                  high |-> None],
         outlierDetection |->
            IF od = None THEN None
            ELSE [consecutive5xx |-> od.consecutive5xx,
                  intervalSeconds |-> MapOpt(od.intervalMs, MsToSeconds),
                  baseEjectionTimeSeconds |-> MapOpt(od.baseEjectionTimeMs, MsToSeconds),
                  maxEjectionPercent |-> od.maxEjectionPercent]]]

-----------------------------------------------------------------------------
(* Read-back: ClusterSpec -> ServiceResponse                               *)

\* Mutant of StringToLoadBalancing: MAGLEV is not recognised.
StringToLoadBalancingNoMaglev(str) ==
    CASE str = "LEAST_REQUEST" -> "LeastRequest"
      [] str = "RANDOM"        -> "Random"
      [] str = "RING_HASH"     -> "RingHash"
      [] OTHER                 -> "RoundRobin"

\* string_to_load_balancing: unknown strings become RoundRobin.
StringToLoadBalancing(str) ==
    CASE str = "LEAST_REQUEST" -> "LeastRequest"
      [] str = "RANDOM"        -> "Random"
      [] str = "RING_HASH"     -> "RingHash"
      [] str = "MAGLEV"        -> "Maglev"
      [] OTHER                 -> "RoundRobin"

\* cluster_to_service_response (create and update): the response echoes
\* the submitted service under the cluster's name.
ClusterToServiceResponse(c, s) ==
    [name |-> c.name, clusterId |-> c.name, endpoints |-> s.endpoints,
     loadBalancing |-> s.loadBalancing, healthCheck |-> s.healthCheck,
     circuitBreaker |-> s.circuitBreaker,
     outlierDetection |-> s.outlierDetection, metadata |-> s.metadata]

\* cluster_response_to_service (get and list): endpoints get weight 100,
\* the first health check is kept only if it is HTTP (absent fields take
\* the defaults 10, 3, 2, 2), the default threshold block becomes the
\* circuit breaker, seconds become milliseconds, metadata is dropped.
ClusterResponseToService(c) ==
    LET hc == IF c.healthChecks = <<>> THEN None ELSE Head(c.healthChecks)
        cb == IF c.circuitBreakers = None THEN None ELSE c.circuitBreakers.default
        od == c.outlierDetection
    IN
    [name |-> c.name, clusterId |-> c.name,
     endpoints |-> [i \in DOMAIN c.endpoints |->
                      [host |-> c.endpoints[i].host, port |-> c.endpoints[i].port,
                       weight |-> 100]],
     loadBalancing |-> IF c.lbPolicy = None THEN "RoundRobin"
                       ELSE StringToLoadBalancing(c.lbPolicy),
     healthCheck |->
        IF hc = None \/ hc.type # "http" THEN None
        ELSE [path |-> hc.path,
              interval |-> UnwrapOr(hc.intervalSeconds, 10),
              timeout |-> UnwrapOr(hc.timeoutSeconds, 3),
              healthyThreshold |-> UnwrapOr(hc.healthyThreshold, 2),
              unhealthyThreshold |-> UnwrapOr(hc.unhealthyThreshold, 2)],
     circuitBreaker |->
        IF cb = None THEN None
        ELSE [maxRequests |-> cb.maxRequests,
              maxPendingRequests |-> cb.maxPendingRequests,
              maxConnections |-> cb.maxConnections,
              maxRetries |-> cb.maxRetries,
              consecutiveErrors |-> None, intervalMs |-> None],
     outlierDetection |->
        IF od = None THEN None
        ELSE [consecutive5xx |-> od.consecutive5xx,
              intervalMs |-> MapOpt(od.intervalSeconds, SecondsToMs),
              baseEjectionTimeMs |-> MapOpt(od.baseEjectionTimeSeconds, SecondsToMs),
              maxEjectionPercent |-> od.maxEjectionPercent,
              minHealthyPercent |-> None],
     metadata |-> None]

(* The service's lifetime: one client's requests on the Platform surface,  *)
(* in any order, against the Native cluster store holding that name.       *)

\* The Native store as list_clusters_handler returns it: the latest version
\* per name (spec.md 4.B), here at most the one cluster.
StoredClusters(c) == IF c = None THEN <<>> ELSE <<c>>

\* repository.list(limit, offset) (spec.md 4.B): skip offset records, then
\* return at most limit of them; an absent bound does not restrict.
Paginate(s, limit, offset) ==
    LET from == UnwrapOr(offset, 0)
        upto == IF limit = None THEN Len(s) ELSE from + limit
    IN SubSeq(s, from + 1, IF upto < Len(s) THEN upto ELSE Len(s))

\* The ServiceResponse JSON sent back as a ServiceDefinition: serde ignores
\* the unknown clusterId field and every other field has the same name.
AsServiceDefinition(r) ==
    [name |-> r.name, endpoints |-> r.endpoints,
     loadBalancing |-> r.loadBalancing, healthCheck |-> r.healthCheck,
     circuitBreaker |-> r.circuitBreaker,
     outlierDetection |-> r.outlierDetection, metadata |-> r.metadata]

VARIABLES
    payload,    \* the ServiceDefinition this client creates the service with
    cluster,    \* the cluster stored under ServiceName, or None
    accepted,   \* the ServiceDefinition of the last accepted write, or None
    answer      \* [op, status, body] of the last request, or None

vars == <<payload, cluster, accepted, answer>>

Answer(op, status, body) == [op |-> op, status |-> status, body |-> body]

\* The ServiceDefinitions a PUT may carry: the fixed update bodies, and the
\* body of the last GET when the last request was a successful GET.
UpdateBodies ==
    Updates \cup
    IF answer # None /\ answer.op = "get" /\ answer.status = 200
    THEN {AsServiceDefinition(answer.body)} ELSE {}

\* ServiceResponse bodies, with the numeric fields as optional naturals.
ServiceResponses ==
    [name : {ServiceName}, clusterId : {ServiceName},
     endpoints : Seq([host : Hosts, port : Ports, weight : Nat]),
     loadBalancing : Strategies, healthCheck : Opt(HealthChecks),
     circuitBreaker :
        Opt([maxRequests : Opt(Nat), maxPendingRequests : Opt(Nat),
             maxConnections : Opt(Nat), maxRetries : Opt(Nat),
             consecutiveErrors : Opt(Nat), intervalMs : Opt(Nat)]),
     outlierDetection :
        Opt([consecutive5xx : Opt(Nat), intervalMs : Opt(Nat),
             baseEjectionTimeMs : Opt(Nat), maxEjectionPercent : Opt(Nat),
             minHealthyPercent : Opt(Nat)]),
     metadata : Opt(Metadata)]

TypeOK ==
    /\ payload \in ServiceDefinitions
    /\ cluster = None \/ cluster.lbPolicy \in LbPolicies
    /\ accepted = None \/ (ValidateService(accepted) /\ accepted.name = ServiceName)
    /\ answer = None \/
       /\ answer.op \in {"create", "get", "update", "delete", "list"}
       /\ answer.status \in {200, 201, 204, 400, 404, 409}
       /\ answer.op = "list" => answer.body \in Seq(ServiceResponses)
       /\ answer.op # "list" => answer.body \in Opt(ServiceResponses)

Init ==
    /\ payload \in ServiceDefinitions
    /\ cluster = None
    /\ accepted = None
    /\ answer = None

\* create_service_handler: validation (400), service_to_cluster, the Native
\* create_cluster_handler (409 when the name is taken, spec.md 4.B), and the
\* response echoing the submitted service.
CreateService ==
    /\ CASE ~ValidateService(payload) ->
              answer' = Answer("create", 400, None) /\ UNCHANGED <<cluster, accepted>>
         [] cluster # None ->
              answer' = Answer("create", 409, None) /\ UNCHANGED <<cluster, accepted>>
         [] OTHER ->
              LET c == ServiceToCluster(payload) IN
              /\ cluster' = c
              /\ accepted' = payload
              /\ answer' = Answer("create", 201, ClusterToServiceResponse(c, payload))
    /\ UNCHANGED payload

\* get_service_handler: get_cluster_handler (404 for an unknown name), then
\* cluster_response_to_service.
GetService(path) ==
    /\ answer' = IF path = ServiceName /\ cluster # None
                 THEN Answer("get", 200, ClusterResponseToService(cluster))
                 ELSE Answer("get", 404, None)
    /\ UNCHANGED <<payload, cluster, accepted>>

\* update_service_handler: validation (400), body name against path name
\* (400), service_to_cluster, the Native update_cluster_handler (404 when
\* nothing is stored under the name), and the echoed response.
UpdateService(path, s) ==
    /\ CASE ~ValidateService(s) \/ s.name # path ->
              answer' = Answer("update", 400, None) /\ UNCHANGED <<cluster, accepted>>
         [] path # ServiceName \/ cluster = None ->
              answer' = Answer("update", 404, None) /\ UNCHANGED <<cluster, accepted>>
         [] OTHER ->
              LET c == ServiceToCluster(s) IN
              /\ cluster' = c
              /\ accepted' = s
              /\ answer' = Answer("update", 200, ClusterToServiceResponse(c, s))
    /\ UNCHANGED payload

\* delete_service_handler: delete_cluster_handler, 204 or 404.
DeleteService(path) ==
    /\ IF path = ServiceName /\ cluster # None
       THEN /\ cluster' = None
            /\ accepted' = None
            /\ answer' = Answer("delete", 204, None)
       ELSE /\ answer' = Answer("delete", 404, None)
            /\ UNCHANGED <<cluster, accepted>>
    /\ UNCHANGED payload

\* list_services_handler: list_clusters_handler with the query's limit and
\* offset, each cluster through cluster_response_to_service.
ListServices(limit, offset) ==
    /\ answer' = Answer("list", 200,
                   LET page == Paginate(StoredClusters(cluster), limit, offset)
                   IN [i \in DOMAIN page |-> ClusterResponseToService(page[i])])
    /\ UNCHANGED <<payload, cluster, accepted>>

Paths == {ServiceName, OtherName}
PageBounds == {None, 0, 1}

Next ==
    \/ CreateService
    \/ \E p \in Paths : GetService(p) \/ DeleteService(p)
    \/ \E p \in Paths, s \in UpdateBodies : UpdateService(p, s)
    \/ \E l, o \in PageBounds : ListServices(l, o)

Spec == Init /\ [][Next]_vars

-----------------------------------------------------------------------------
(* Reference, written from spec.md 4.D, and properties                     *)

\* What spec.md 4.D says a created service reads back as: endpoints with
\* weight 100, the same strategy, the health check, the circuit breaker's
\* four thresholds (the other two fields have no place in
\* circuitBreakers.default), outlier-detection times floor-divided to
\* whole seconds, and no metadata (it is not part of the cluster).
FloorToSecond(ms) == (ms \div 1000) * 1000

SpecServiceView(s) ==
    [name |-> s.name, clusterId |-> s.name,
     endpoints |-> [i \in DOMAIN s.endpoints |-> [s.endpoints[i] EXCEPT !.weight = 100]],
     loadBalancing |-> s.loadBalancing,
     healthCheck |-> s.healthCheck,
     circuitBreaker |->
        IF s.circuitBreaker = None THEN None
        ELSE [s.circuitBreaker EXCEPT !.consecutiveErrors = None, !.intervalMs = None],
     outlierDetection |->
        IF s.outlierDetection = None THEN None
        ELSE [s.outlierDetection EXCEPT !.intervalMs = MapOpt(@, FloorToSecond),
                                        !.baseEjectionTimeMs = MapOpt(@, FloorToSecond),
                                        !.minHealthyPercent = None],
     metadata |-> None]

\* Every service the Platform surface reads back, by get_service_handler or
\* in list_services_handler's page, is what spec.md 4.D says the last
\* accepted create or update reads back as: service_to_cluster and
\* cluster_response_to_service lose only what the specification says.
ReadBackMatchesSpec ==
    answer # None /\ answer.op \in {"get", "list"} /\ answer.status = 200 =>
        LET views == IF answer.op = "get" THEN <<answer.body>> ELSE answer.body
        IN \A i \in DOMAIN views : views[i] = SpecServiceView(accepted)

\* A client that GETs a service and PUTs the body back unchanged leaves the
\* stored cluster as it was: cluster_response_to_service followed by
\* service_to_cluster is the identity on every cluster the Platform surface
\* writes, so a read-modify-write through update_service_handler changes
\* only what the client changed.
GetPutRoundTrip ==
    [][ /\ answer # None /\ answer.op = "get" /\ answer.status = 200
        /\ answer'.op = "update" /\ answer'.status = 200
        /\ accepted' = AsServiceDefinition(answer.body)
        => cluster' = cluster ]_vars

\* The two lowerings of a ServiceDefinition in the code base describe the
\* same cluster: for the last accepted create or update, the ClusterResponse
\* that platform_transformers::service_to_cluster_response builds agrees
\* with the cluster update_service_handler and create_service_handler
\* actually stored, on every field spec.md 4.D maps (name, service name,
\* endpoints, lbPolicy, health check, circuit breaker, outlier detection).
LoweringsAgree ==
    cluster # None /\ accepted # None =>
        LET r == ServiceToClusterResponse(accepted, cluster.name) IN
        /\ r.name = cluster.name /\ r.serviceName = cluster.serviceName
        /\ \A f \in {"endpoints", "lbPolicy", "healthChecks",
                      "circuitBreakers", "outlierDetection"} :
              r.config[f] = cluster[f]

====
