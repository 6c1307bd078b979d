# TLA+ models of the Flowplane control-plane API

This directory holds TLA+ models of the REST control plane in `src/src/api` and
`src/src/auth`, with the TLC configurations that check them. The control plane
accepts clusters, route configurations and listeners, either directly (the
"Native" API) or as higher-level "Platform" descriptions. It persists them in a
SQL repository and, after every write, rebuilds the xDS snapshot that proxies
are served. The models cover the request handlers in the source. The
repository, the xDS refresh and the cluster and listener handlers are not under
`src/`: they are modelled from `spec.md` and marked `spec_modelled` in
`PROJECT.json`.

## 1. Inventory

### Components

| Component | Source | State it keeps | Operations |
|---|---|---|---|
| Native route-config API | `api/route_handlers.rs` | none of its own. It reads and writes the route repository, then triggers the route refresh. | create, list, get, update, delete (`*_route_handler`) |
| Route validation and summaries | `api/route_handlers.rs` 463-880 | none (pure functions) | `validate_route_payload`, `validate_route_match`, `validate_route_action`, `summarize_route` (not modelled), `to_xds_config`/`from_xds_config` |
| Route repository | `storage` (not in src) | one row per name: id, version, configuration, summary columns | create (Conflict on a taken name), get_by_name, list, update by id (version + 1), delete by id |
| xDS refresh hook | `xds` (not in src) | the snapshot served to proxies | `refresh_routes_from_repository`: read every route and replace the snapshot; may fail |
| Native cluster and listener API | `api/handlers.rs`, `api/listener_handlers.rs` (not in src) | the cluster and listener repositories and their snapshots | CRUD plus refresh, with the same shape as routes (spec.md 4.C) |
| Platform services | `api/platform_service_handlers.rs` | none. It delegates to the cluster handlers. | create/update/delete/get/list, `service_to_cluster`, `cluster_response_to_service` |
| Platform API definitions | `api/platform_api_definitions.rs` | none. Create builds the derived cluster and route config but persists neither. | create (201, nothing stored), list (always empty), get/update/delete (always 404), `api_to_cluster`, `api_to_route_config` |
| Platform transformers | `api/platform_transformers.rs` | none (pure functions) | `service_to_cluster_response`, `policies_to_filters` (modelled); `cluster_to_service`, `is_platform_*` (no caller) |
| OpenAPI importer | `api/platform_openapi_handlers.rs` | none. It returns a definition and persists nothing. | `import_openapi_handler`, `extract_flowplane_policies`, `openapi_to_api_definition`, `redirect_gateway_import_handler` |
| Authentication middleware | `auth/middleware.rs` | none. It reads the token store through `AuthService` (not in src). | `authenticate` (OPTIONS bypass, bearer check), `ensure_scopes` (all scopes required), `map_auth_error` |
| Router and scope table | `api/routes.rs` | the required scopes of every route | `build_router` |
| Token request validation | `auth/validation.rs` | none | `validate_token_name`, `validate_scope`, `UpdateTokenRequest::validate` |
| OpenAPI docs | `api/docs.rs` | none | generated schema only |

### How the components interact

A write flows like this: HTTP request → `authenticate` → `ensure_scopes` →
handler → validation → repository write (`.await`) → refresh (`.await`) →
response. Each request runs as its own tokio task. The only shared state is the
database and the xDS snapshot. The handlers share nothing in memory: between two
awaits of one handler, any number of steps of other handlers may run.

The Platform service handlers call the Native cluster handlers directly
(`create_cluster_handler(state, ...)`). The Platform API-definition handlers
call nothing. The OpenAPI importer calls nothing either: it returns the parsed
definition with a fresh id and does not persist it.

### What is hard in this code

- **Interleaving at awaits.** `update_route_handler` and `delete_route_handler`
  read `existing.id` in one await (`get_by_name`) and use it in the next one
  (`update` or `delete`). Any other request may run between the two.
- **Partial failure.** The repository write commits before the refresh runs.
  A refresh error gives the client a 5xx, but the write stays.
- **Cancellation.** Hyper drops a handler's future when the client
  disconnects. If that happens after the commit and before the refresh, the
  write is never published and nobody is told.
- **Retry.** A client that retries after a 5xx hits a different branch of the
  handler: a retried create gets `Conflict` and a retried delete gets
  `NotFound`. Neither branch refreshes.
- **Lossy conversions.** Milliseconds become seconds by floor division, then
  seconds become milliseconds again. `RING_HASH` and `MAGLEV` map to
  `RoundRobin` in one of the two inverse mappings. Port numbers are narrowed
  with `as u16`.
- **Validation ordering.** The match-arm order of the cross-field checks in
  `validate_route_payload` decides which rule a route rule falls under.

### What makes each component correct

- Native API, repository and refresh: the properties in
  `spec.md` 8.2 to 8.5:
  - versions go 1, 2, … per name;
  - a name is created only once;
  - every 2xx write response follows a refresh that saw the write;
  - the default gateway route cannot be deleted;
  - storage and snapshot agree again once the handlers stop, or a caller
    was told that they do not.
- Validation: it accepts exactly the route rules that satisfy the invariants of
  spec.md 3 and 8.7.
- Transformers: round trips keep what spec.md 4.D says they keep, and lose only
  what it says they lose.
- Platform definitions: the resources derived from an accepted definition can
  be read back through the Native API (spec.md 8.6).
- Authentication and authorization:
  - a handler runs only for an active, unexpired token that holds every
    scope the route requires;
  - OPTIONS requests bypass authentication (spec.md 4.H, 6).

## 2. Plan

Modules in the order they are built, the most important behaviour first:

1. `RouteConfigs` (done): the Native route-config handlers, the route repository
   and the route refresh. Its answers are checked for linearizability against
   a history of the name each request touches.
2. `RouteValidation` (done): `validate_route_payload`, `validate_route_match`,
   `validate_route_action` as operators over a bounded
   set of route rules. They are checked against a reference definition written
   from spec.md 3 and 8.7. The definition- and virtual-host-level
   `to_xds_config` and `from_xds_config`, with scoped filter configs, are
   checked over bounded sample definitions.
3. `ServiceTransform` (done): `service_to_cluster`, `cluster_response_to_service`, the
   load-balancing maps and `platform_transformers::service_to_cluster_response`,
   checked as round trips over bounded inputs; every service handler (create, list,
   get, update, delete) is an action over the store of the service's name.
4. Dropped: a Native cluster and listener store beside routes. Those
   handlers are not under src/, so the module would be written from spec.md
   alone and would repeat `RouteConfigs`' refresh contract for another kind
   of resource. Each Platform service handler is a single call into that
   store, so composing them adds no interleaving of src/ code.
5. `PlatformApis` (done): the API-definition handlers composed with the cluster and
   route stores, checked against spec.md 8.6.
6. `AuthMiddleware` (done): `authenticate` and `ensure_scopes` over the route/scope
   table of `build_router`, with token states, and the token DTOs'
   validation (`CreateTokenRequest`, `UpdateTokenRequest`, the two regexes).
7. `OpenApiImport` (done): `extract_flowplane_policies` and the per-route policy
   selection of `openapi_to_api_definition`.
   A disagreement to check there: at platform_openapi_handlers.rs 88-100 a
   `x-flowplane-ratelimit` whose `requests` is an integer but whose
   `interval` is not a string yields neither a policy nor a warning, while
   spec.md 4.F says a malformed tag gives a warning.
8. `service_to_cluster_response`, checked against the handler's own
   lowering (done). `policies_to_filters`, checked on the policies each
   import emits (done). The other transformers have no caller in src/. (The service update, delete and
   list handlers are now part of item 3; `CreateTokenRequest` validation is
   part of item 6.)

Items 4 and 8 are not built yet. The runs of the other items are listed in
section 3.

## 3. Modules and runs so far

### `RouteConfigs` (src/src/api/route_handlers.rs)

State:

- `repo`: the route repository, one row `[id, version, config]` per name.
- `snap`: the snapshot served by the xDS server.
- `req[c]`: the request client `c` is running. Its `pc` names the await the
  handler is suspended at (`lookup` for `get_by_name`, `write` for the
  repository write, `refresh` for the refresh). It also holds `existingId`,
  the id read by `get_by_name`, and the HTTP `outcome`.
- `nextId`: fresh row ids.
- `sent`: the number of requests sent so far.
- `told`: a history variable. It holds the clients that got a 5xx after their
  write committed, since the last successful refresh.
- `seen[c]`: a history variable. It holds `"present"` and/or `"absent"`: the
  states the name of `c`'s request was in at the states its request ran
  through. `RecordSeen` updates it on every step, as a conjunct of the
  next-state relation, so the handlers' actions leave it alone.

Actions, one per piece of handler code:

| Action | Code |
|---|---|
| `CreateRoute` / `UpdateRoute` / `DeleteRoute` | the synchronous prefix of each handler up to its first await. This covers validation (400), the payload-name check (400) and the default-gateway check (409). |
| `LookupExisting` | `get_by_name(...).await` (404 or remember `existing.id`) |
| `RepoCreate` / `RepoUpdate` / `RepoDelete` | the repository write (409 / 404 / commit) |
| `RefreshOk` / `RefreshFail` | `refresh_routes_from_repository().await` and the response |
| `Cancel` | hyper dropping the handler future at an await |

Payloads are model values: a valid definition is `p1` or `p2`, and every
invalid one is `BadPayload`. Nothing the properties look at depends on what a
definition contains; `RouteValidation` covers that. Three constants switch the
environment's behaviours:

- `RefreshMayFail`: a refresh may fail;
- `CanCancel`: a handler may be cancelled at an await;
- `RetryOnError`: a client retries a request that got a 5xx.

Bounds: two clients, the names `r1` and `gw` (the default gateway route), two
payloads, and `MaxRequests = 5` requests in all. Five requests are enough for
these cases:

- create, update and delete of one name interleaved with a second client;
- a delete and a recreate landing between another handler's lookup and its
  write;
- a failed refresh followed by a retry.

The clients are symmetric (`ClientSymmetry`).

No fairness is assumed and no liveness property is checked. At this bound, a
"the snapshot eventually equals the repository" property only repeated
`StalenessIsReported` at the final quiescent state. The refresh is one atomic
step (it is not under src/, and spec.md 5 serialises refreshes), so the model
has no refresh that reads the repository before another commit and publishes
after it.

| Run | Config | Expect | Shows |
|---|---|---|---|
| `routes_concurrent` | `MC_RouteConfigs.cfg` | pass | Refreshes may fail and clients retry a 5xx; no handler is cancelled. A stale snapshot at quiescence always comes with a client that was told 5xx (`StalenessIsReported`). |
| `routes_linearizable` | `MC_RouteConfigs_faults.cfg` | pass | With every fault on (failed refreshes, cancellation, retries; `MaxRequests = 4`), update and delete look a row up by name and write by the id they read, while the other client deletes and recreates the name in between. Every 404 is still an answer an atomic store gives at some moment of the request, when the name had no row; every create's 409 comes at a moment when it had one (`AnswersAreLinearizable`). The mutant that forgets `existing.id` answers 404 for a name present throughout. |
| `routes_cancel` | `MC_RouteConfigs_cancel.cfg` | violation | A handler dropped between its repository commit and its refresh leaves a stale snapshot that no caller was told about. spec.md 5 requires the refresh to complete. |
| `routes_retry` | `MC_RouteConfigs_retry.cfg` | violation | Retrying after a refresh failure does not recover. A retried create answers 409 and a retried delete answers 404, and neither refreshes. The snapshot stays stale while no caller holds an error. This contradicts spec.md 4.G. |

### `RouteValidation` (src/src/api/route_handlers.rs 55-196, 415-706, 755-880)

A route rule is a record with a name, a match (prefix, exact path, regex or
template, plus headers and query parameters) and an action (forward, weighted
or redirect). Strings are sequences over a five-letter alphabet
(`" "`, `"/"`, `"a"`, `"{"`, `"}"`) of length at most 2. That alphabet is
enough to build a blank name, a path with and without a leading slash, and a
well-formed and a malformed URI template. `ValidateRouteRule` is
`validate_route_payload` with its match arms in the source's order.
`RouteRuleToXds` and `RouteRuleFromXds` are `to_xds_config` and
`from_xds_config`, including the proto3 convention that an empty string means
"absent".

Whole definitions are checked too. `VirtualHostToXds` and `RouteDefinitionToXds`
convert their parts in order and fail as soon as one part fails (`AnyFailed`,
the `collect::<Result<Vec<_>, _>>()` of the code). `VirtualHostFromXds` and
`RouteDefinitionFromXds` convert back. A `typed_per_filter_config` map is a
function from filter names to an abstract config: empty, or one
`local_ratelimit` override. Rules of the state-space part carry the empty
map, so the state space is unchanged. `SampleDefinitions` holds every
definition of up to two hosts of up to two `SampleRules` each, with or
without a host-level override. The five sample rules (set in
`MC_RouteValidation.tla`) cover each action variant, the failing empty
Weighted, and overrides on a rule and on a weighted cluster. That is about
four thousand definitions, checked once. The submitted rule of each state
is also placed as the second rule of a second host (`DefinitionAround`).

State: `payload` (the submitted rule), `phase`
(`submitted` → `stored` or `rejected` → `read`), `stored` (the xDS form) and
`view` (the rule read back). A request ends once rejected or read back, so
these runs say `CHECK_DEADLOCK FALSE`.

| Run | Config | Expect | Shows |
|---|---|---|---|
| `route_rule_validation` | `MC_RouteValidation.cfg` | pass | Validation accepts exactly the rules that satisfy spec.md 3 and 8.7 (`SpecRuleValid`), and every accepted rule reads back unchanged through the xDS conversion. Whole definitions are refused exactly when a rule is an empty Weighted action; every other one reads back unchanged, with the filter overrides of hosts, rules and weighted clusters and the order of hosts and rules (`DefinitionRoundTrip`, spec.md scenario S3). |

### `ServiceTransform` (src/src/api/platform_service_handlers.rs, platform_transformers.rs)

A service definition has a name, endpoints, a load-balancing strategy and
optional health check, circuit breaker and outlier detection. `ServiceToCluster`
is `service_to_cluster`. `ClusterResponseToService` is the reconstruction done
by `get_service_handler` and `list_services_handler`.
`ServiceToClusterResponse` is `platform_transformers::service_to_cluster_response`,
a second lowering written apart from the handler's. The
milliseconds-to-seconds division, the seconds-to-milliseconds multiplication
and both load-balancing maps are separate operators.

One client sends requests in any order. Each handler is one action:
`CreateService` (400, 409 when the name is taken, 201), `GetService(path)`,
`UpdateService(path, body)` (400 on validation or a body name that differs
from the path, 404, 200), `DeleteService(path)` (204 or 404) and
`ListServices(limit, offset)`. The Native cluster handlers these handlers call
are not under src/. They are modelled from spec.md 4.B and 4.C as one stored
cluster under the service's name, with `Paginate` for `repository.list`.

State:
- `payload`: the create body.
- `cluster`: the stored cluster.
- `accepted`: the last body a create or update stored.
- `answer`: the last request's operation, status and body.

The body of a PUT is one of the `Updates` or the body of the GET just
before it (`AsServiceDefinition`, the client's read-modify-write).

Bounds:
- two hosts, one port, weights 0 and 100, every strategy;
- outlier `intervalMs` of 999 and 1500, which sit just below and between
  multiples of 1000, where floor division loses data;
- three PUT bodies: a RingHash rewrite, the same body under the other path
  name `orders`, and one with no endpoints;
- limit and offset in {absent, 0, 1}.

The handlers are not modelled as interleaving with each other. The store's
await points are the subject of `RouteConfigs`. Concurrent Platform and
Native clients on one cluster would race inside the Native cluster
handlers, which are not under src/ (item 4).

| Run | Config | Expect | Shows |
|---|---|---|---|
| `service_read_back` | `MC_ServiceTransform.cfg` | pass | After any sequence of requests, GET and each entry of the list answer exactly what spec.md 4.D promises for the last accepted create or update: weight 100, times floored to whole seconds, default breaker thresholds, no metadata (`ReadBackMatchesSpec`). PUTting a GET's body back unchanged leaves the stored cluster as it was (`GetPutRoundTrip`). The transformer's `service_to_cluster_response` of the last accepted body agrees with the cluster the handlers stored, on every field spec.md 4.D maps (`LoweringsAgree`). This holds only for clusters the Platform surface wrote. A Native-written cluster with a TCP check or a `high` threshold block would lose them. |

### `AuthMiddleware` (src/src/auth/middleware.rs, src/src/api/routes.rs, src/src/auth/validation.rs)

`RouteTable` is the scope table of `build_router`, one entry per
`.route(...).route_layer(scope_layer(...))`. An endpoint is a method, a path
family and a kind (collection, item, rotate).

State:

- `tok`: the token store (status, scopes, secret generation, expiry).
- `req[c]`: client `c`'s request. It holds the call, the header, `pc`
  (`auth` is the await in `auth_service.authenticate`, `handler` means
  admitted with the handler's write not yet committed) and `gate` (what the
  middleware answered). History fields `seen` and `down` hold the token and
  the store availability that authenticate observed.

Actions:

- `Authenticate` is everything from the end of that await to the handler's
  first await. That covers `map_auth_error`, routing and `ensure_scopes`,
  with no await between them.
- `Handle` commits the handler's write. For the token endpoints this is one
  of four writes. A POST issues a new active token under an unused id,
  guarded by `CreateTokenRequest`'s validation. A PATCH is guarded by
  `UpdateTokenRequest::validate`. The other two are the revoke and the
  rotation. `AuthService` and the token handlers are not under `src/`; they
  follow spec.md 2, 4.H and 6.
- `Expire` lets a token's `expiresAt` pass.

`ValidateTokenName` and `ValidateScope` translate `NAME_REGEX` and
`SCOPE_REGEX`. They test each character of a TLA+ string
(`Char(s, i)`). The reference `SpecScope` is a different formulation of
spec.md 2's scope pattern: a scanner folded over the characters.

Bounds: two clients, three token ids and three requests. One token
administers tokens. The other holds two of the four scopes
`POST /platform/apis` needs and expires. The third id is unused until a POST
issues it. One rotation is allowed. The calls are:

- PATCH bodies: an escalation, a reactivation, an empty scope list, an
  invalid name, and a list with the scope `tokens:`;
- POST bodies: a valid one holding `apis-:write` (a `-` before the colon,
  which both patterns allow), a two-character name with no scope, and
  scopes `tokens:` and `Tokens:read`;
- a revoke, a rotate, a read, a multi-scope write and an OPTIONS request.

Three requests reach, for example, a revoke or rotate followed by a use of
the stale credential, and an escalation followed by the use of the new
scope. Clients are symmetric.

| Run | Config | Expect | Shows |
|---|---|---|---|
| `auth_gate` | `MC_AuthMiddleware.cfg` | pass | Every answer equals spec.md's answer for the token authenticate saw. That is 405 for OPTIONS, 401 for each credential failure, 503 for a store outage, 403 unless all required scopes are granted, for the endpoint families the model sends (the route table itself is `build_router`'s). Every scope the store holds matches spec.md 2's pattern after any sequence of creates and patches (`TokenScopesMatchSpec`). |

### `PlatformApis` (src/src/api/platform_api_definitions.rs)

`ValidateApiDefinition` is the `#[derive(Validate)]` of `ApiDefinition`.
`upstream` and `routes` carry no `#[validate(nested)]`, so only the top-level
lengths are checked. `ApiToCluster`, `ApiRouteToRule` and `ApiToRouteConfig`
are the lowering. The derived route config is checked with
`ValidateRoutePayload` (`validate_route_payload`, whose per-rule checks come
from `RouteValidation` through `INSTANCE`). Native cluster validation is not under
`src/`; `SpecClusterValid` is the Cluster invariant of spec.md 3.

`PoliciesToFilters` is `platform_transformers::policies_to_filters`, built the
way the code builds its JSON object: starting from an empty object, each
present policy adds one filter (`RateLimitToFilter`, `CorsToFilter`,
`AuthenticationToFilter`, the last only for type `"jwt"`), merged with `@@`.
The descriptor value and `max_age` are real strings made with `ToString`,
and `JoinComma` is `join(", ")`. The fixed parts of each filter (domain,
stage, the rate-limit service, the match prefix) are left out. No handler
calls this function, so `ImportedPoliciesLower` applies it to the policies
an import emits, the composition spec.md 4.D and 4.F describe.

State:

- `payload`: the submitted definition.
- `phase`: `submitted`, `rejected` or `created`.
- `created`: the 201 body's ids.
- `lowered`: the derived cluster and route config that create computes and
  then drops.
- `last`: the answer to one later list, get, update or delete.
- `imported`: the body, query and answer of an OpenAPI import. The client
  either submits a definition (`phase = submitted`) or imports a document
  (`phase = importing`), so the two request kinds add states rather than
  multiply them.
- `native`: the derived names the handlers wrote to the Native cluster and
  route repositories. It starts empty, as on a fresh server, and no action
  adds to it, because no handler calls a repository.

Each handler is one action. None of them awaits, so one client suffices.

Bounds:

- names: empty, blank and `a`;
- paths: empty, blank, `/` and `a`;
- endpoint lists: none, or one with port 0 or 80;
- `loadBalancing`: `ROUND_ROBIN` and `round_robin`;
- routes: one or two;
- one request after the create.

These reach every check the lowering can break: 117,936 definitions in all.

| Run | Config | Expect | Shows |
|---|---|---|---|
| `platform_api_lowering` | `MC_PlatformApis.cfg` | pass | Every sample document imports as spec.md 4.F says (`ImportFollowsSpec`). Every policy an import emits lowers to exactly its rate-limit, CORS and JWT filters, and the JWT rule requires the provider exactly when the policy is required (`ImportedPoliciesLower`, spec.md 4.D and S5). |
| `platform_api_lowering_valid` | `MC_PlatformApis_valid.cfg` | violation | A definition with an empty service name and no endpoints is accepted. Its derived cluster has no endpoints, and its derived route forwards to a blank cluster name. The Native paths reject both. |
| `platform_api_persist` | `MC_PlatformApis_persist.cfg` | violation | create answers 201 with `{id}-cluster` and `{id}-routes`, but writes neither to a Native repository (`native` stays empty; l440-445 bind the lowered resources to unused names). spec.md 4.E says create invokes the Native create paths, and `test_cross_api_visibility.rs` GETs both and expects 200 (`DerivedResourcesPersisted`). |
| `platform_import_ratelimit` | `MC_PlatformApis_import.cfg` | violation | An `x-flowplane-ratelimit` with `requests: 100` and no `interval` imports with no policy and no warning. spec.md 4.F step 6 says a malformed extension warns. |

### `OpenApiImport` (src/src/api/platform_openapi_handlers.rs)

A module of operators, used by `PlatformApis`, whose `ImportOpenApi` action
is `import_openapi_handler`. A document is the parsed serde `Value` reduced
to what the importer reads: `openapi`, `info.version`, `servers[0].url` (as
the outcome of `Url::parse`: parsed or not, scheme, host, explicit port,
path) and, per path and method, the operation's `summary`, `description`,
`x-flowplane-*` extensions and other keys. A field the code reads with
`as_str`, `as_u64` or `as_bool` is `None` when absent or of another type,
since the code treats both alike.

| Operator | Code |
|---|---|
| `ExtractFlowplanePolicies` | `extract_flowplane_policies`: rate limit, jwt-auth, cors with defaults, unknown-tag warnings |
| `ImportVersion`, `ImportBasePath`, `ImportUpstream` | the three derivations at the top of `openapi_to_api_definition` |
| `Operations`, `ImportStep`, `ImportRoutes` | the path and method loop, as a `FoldLeft` of one iteration: extract, take the first route's policies as global, push the route |
| `Bodies`, `ImportAnswer` | body read, YAML/JSON parse, the `openapi` 3.x check, the 201 body |

`serde_json::Map` iterates keys in sorted order, so `PathOrder` and
`KeyOrder` list the sample keys sorted. The reference `AnswerFollowsSpec`
is written from the steps of spec.md 4.F. It leaves out only the warning
for a malformed rate limit, which `AnswerWarnsMalformedRateLimit` states.

Bounds: `openapi` absent, `2.0` or `3.0.0`; `info.version` absent or set;
six server URLs (none, https with the default port, http with an explicit
port, a hostless `file:` URL, a relative path, a bare host); no `paths`, an
empty object, one path or two; path items with one GET of each of six
operation kinds (plain, each rate-limit shape, jwt-auth beside an unknown
extension, cors with defaults) or a GET and a POST; two queries (no
overrides, both overrides). That is 4,180 imports, counting the two bodies that do not parse. They cover a first route
with and without policies followed by one with them, and every branch of
each derivation.

Not checked here:

- a `summary` that is present but not a string. Then
  `or_else` does not fall back to `description`, and the route has no
  description. The operator models this (`NonString`), but no sample has it.
- the query keys. `OpenApiImportQuery` has no `rename_all`, so the override
  is read from `base_path`. A client that sends spec.md's `basePath` gets
  its override ignored. The model's queries are the deserialised struct.
- `redirect_gateway_import_handler` puts the name into the `Location` query
  without percent-encoding it. A name containing `&`, `+` or `#` is not
  preserved, and a name with a control character makes the response
  builder's `unwrap` panic. The handler changes no state, so this is a
  unit-test matter, not a model-checking one.

The handlers persist nothing, so `GET /platform/apis/{id}` answers 404 for
an id create just returned. The model shows this (`GetApi`). spec.md 9
already records it, so no run checks it.

## 4. Not modelled, and why

- The list and get handlers of the Native route surface: they change no state. The reads they do are the
  same repository reads as `LookupExisting`.
- `docs.rs`: generated OpenAPI schema, with no behaviour.
- `is_platform_service_cluster`, `cluster_name_to_service_name`,
  `is_platform_api_routes`, `routes_to_api_summary`,
  `create_cross_api_metadata`, `cluster_to_service` and
  `clusters_to_services`: nothing in src/ calls them, and they are pure,
  so they take part in no behaviour. (`policies_to_filters` has no caller
  either. It is modelled because spec.md 4.D states what it must produce.)
- `redirect_gateway_import_handler`: a stateless 308 with a formatted
  `Location` header (see `OpenApiImport` above).
- The xDS gRPC server and the proxies: out of scope per spec.md 1.
- The contents of payloads, JSON serialisation and `strip_gateway_tags`. The
  properties of `RouteConfigs` do not depend on them. Validation is
  modelled separately in `RouteValidation`.
- `validate_route_config`: it calls `to_envoy_route_configuration`, which is
  not under src/. spec.md 4.C says it rejects invalid URI templates, so
  whether a malformed template such as `"{"` is stored cannot be settled
  from src/. `ensure_valid_uri_template` (l875) itself accepts every
  non-empty template; no run claims more.
- `summarize_route`: it only fills the repository's summary columns
  (`path_prefix`, `cluster_name`), which no modelled behaviour reads.
- The weight range of service endpoints (1..100): it is never checked,
  because `ServiceDefinition.endpoints` lacks `#[validate(nested)]`, and the
  weight is not stored. This is listed as a hazard in `PROJECT.json`.
