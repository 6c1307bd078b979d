---------------------------- MODULE OpenApiImport ----------------------------
(***************************************************************************)
(* The OpenAPI importer (src/src/api/platform_openapi_handlers.rs):       *)
(* extract_flowplane_policies, openapi_to_api_definition and the checks   *)
(* of import_openapi_handler, as operators over a parsed document.        *)
(*                                                                         *)
(* A document is the serde Value after parsing, reduced to what the       *)
(* importer reads: openapi, info.version, servers[0].url, and per path    *)
(* and method the operation's summary, description, x-flowplane-*         *)
(* extensions and other keys.  A field is None when the key is absent or  *)
(* its value is not of the type the code asks for (as_str, as_u64,        *)
(* as_bool, as_array all answer None alike).  servers[0].url is given by  *)
(* the outcome of url::Url::parse: parsed or not, scheme, host, the       *)
(* explicit non-default port and the normalised path (for a URL that does *)
(* not parse, path is the raw text).  serde_json::Map iterates its keys   *)
(* in sorted order: PathOrder and KeyOrder list every key of the          *)
(* documents in that order.  Formatted strings are tuples of their parts. *)
(***************************************************************************)
EXTENDS Naturals, Sequences, SequencesExt

CONSTANTS
    Documents,      \* parsed OpenAPI documents a client may send
    ImportQueries,  \* deserialised OpenApiImportQuery values
    PathOrder,      \* every path key of Documents, in map order
    KeyOrder,       \* every operation key of Documents, in map order
    NonString,      \* a summary or description that is not a JSON string
    None

Opt(S) == S \cup {None}

UnwrapOr(o, d) == IF o = None THEN d ELSE o

\* The methods the importer looks for, in its loop order, upper-cased.
Methods == <<"get", "post", "put", "delete", "patch", "options", "head">>

Upper == [get |-> "GET", post |-> "POST", put |-> "PUT", delete |-> "DELETE",
          patch |-> "PATCH", options |-> "OPTIONS", head |-> "HEAD"]

KnownTags == {"x-flowplane-ratelimit", "x-flowplane-jwt-auth", "x-flowplane-cors"}

RateLimitWarning == <<"Invalid x-flowplane-ratelimit format">>

UnknownTagWarning(key) == <<"Unknown flowplane tag: ", key>>

\* The keys of an operation object: its other keys and the extensions it has.
OpKeys(op) ==
    op.otherKeys
    \cup {k \in KnownTags :
            \/ k = "x-flowplane-ratelimit" /\ op.ratelimit # None
            \/ k = "x-flowplane-jwt-auth" /\ op.jwt # None
            \/ k = "x-flowplane-cors" /\ op.cors # None}

-----------------------------------------------------------------------------
(* Policy extraction.                                                      *)

\* extract_flowplane_policies: a rate limit needs requests (as_u64) and an
\* interval (as_str); a missing requests is the only case that warns.  The
\* jwt-auth and cors extensions always emit, with defaults.  Every other
\* x-flowplane-* key warns, in key order.  The policies are None when none
\* of the three was emitted.  (requests as u32 truncates past 2^32, beyond
\* TLC's integers; the samples stay below it.)
ExtractFlowplanePolicies(op) ==
    LET rl == op.ratelimit
        rateLimit ==
            IF rl # None /\ rl.requests # None /\ rl.interval # None
            THEN [requests |-> rl.requests, interval |-> rl.interval, keyBy |-> rl.keyBy]
            ELSE None
        rlWarnings ==
            IF rl # None /\ rl.requests = None THEN <<RateLimitWarning>> ELSE <<>>
        authentication ==
            IF op.jwt = None THEN None
            ELSE [type |-> "jwt", required |-> UnwrapOr(op.jwt.required, TRUE),
                  config |-> [issuer |-> op.jwt.issuer, audience |-> op.jwt.audience]]
        cors ==
            IF op.cors = None THEN None
            ELSE [origins |-> UnwrapOr(op.cors.origins, <<"*">>),
                  methods |-> UnwrapOr(op.cors.methods, <<"GET", "POST">>),
                  headers |-> UnwrapOr(op.cors.headers, <<"Content-Type", "Authorization">>),
                  allowCredentials |-> UnwrapOr(op.cors.allowCredentials, FALSE),
                  maxAge |-> op.cors.maxAge]
        unknown ==
            SelectSeq(KeyOrder, LAMBDA k : /\ k \in OpKeys(op)
                                          /\ IsPrefix("x-flowplane-", k)
                                          /\ k \notin KnownTags)
        policies == [rateLimit |-> rateLimit, authentication |-> authentication, cors |-> cors]
    IN <<IF rateLimit # None \/ authentication # None \/ cors # None THEN policies ELSE None,
         rlWarnings \o [i \in 1..Len(unknown) |-> UnknownTagWarning(unknown[i])]>>

-----------------------------------------------------------------------------
(* openapi_to_api_definition.                                              *)

\* The version override, else info.version, else "1.0.0".
ImportVersion(doc, q) == IF q.version # None THEN q.version ELSE UnwrapOr(doc.infoVersion, "1.0.0")

\* The base_path override, else the parsed URL's path, else a URL that
\* starts with '/', else "/".
ImportBasePath(doc, q) ==
    LET url == doc.serverUrl IN
    IF q.base_path # None THEN q.base_path
    ELSE IF url = None THEN "/"
    ELSE IF url.parsed \/ IsPrefix("/", url.path) THEN url.path
    ELSE "/"

\* The upstream from a parsed URL with a host, else backend.example.com:80.
ImportUpstream(doc, q) ==
    LET url == doc.serverUrl
        service == <<q.name, "-backend">>
    IN IF url # None /\ url.parsed /\ url.host # None
       THEN [service |-> service,
             endpoints |-> <<[host |-> url.host, weight |-> 100,
                              port |-> IF url.port # None THEN url.port
                                       ELSE IF url.scheme = "https" THEN 443 ELSE 80]>>,
             tls |-> url.scheme = "https", loadBalancing |-> "ROUND_ROBIN"]
       ELSE [service |-> service,
             endpoints |-> <<[host |-> "backend.example.com", port |-> 80, weight |-> 100]>>,
             tls |-> FALSE, loadBalancing |-> "ROUND_ROBIN"]

\* The operations the loop visits: paths in map order, then methods in the
\* loop's order, each present one.
Operations(doc) ==
    IF doc.paths = None THEN <<>>
    ELSE LET keys == SelectSeq(PathOrder, LAMBDA p : p \in DOMAIN doc.paths)
             perPath(p) == LET ms == SelectSeq(Methods, LAMBDA m : m \in DOMAIN doc.paths[p])
                           IN [i \in 1..Len(ms) |-> [path |-> p, method |-> ms[i],
                                                      op |-> doc.paths[p][ms[i]]]]
         IN FlattenSeq([i \in 1..Len(keys) |-> perPath(keys[i])])

\* The loop iteration without routes.is_empty(): a later route's policies
\* replace the first route's.
ImportStepNoFirstCheck(acc, o) ==
    LET pw == ExtractFlowplanePolicies(o.op)
        text == IF o.op.summary # None THEN o.op.summary ELSE o.op.description
    IN [routes |-> Append(acc.routes,
                          [path |-> o.path, methods |-> <<Upper[o.method]>>,
                           description |-> IF text = NonString THEN None ELSE text,
                           policies |-> pw[1]]),
        global |-> IF pw[1] # None THEN pw[1] ELSE acc.global,
        warnings |-> acc.warnings \o pw[2]]

\* One iteration of the loop: extract, take the policies as global when the
\* route list is still empty, push the route.
ImportStep(acc, o) ==
    LET pw == ExtractFlowplanePolicies(o.op)
        \* summary, or description when summary is absent, then as_str
        text == IF o.op.summary # None THEN o.op.summary ELSE o.op.description
    IN [routes |-> Append(acc.routes,
                          [path |-> o.path, methods |-> <<Upper[o.method]>>,
                           description |-> IF text = NonString THEN None ELSE text,
                           policies |-> pw[1]]),
        global |-> IF acc.routes = <<>> /\ pw[1] # None THEN pw[1] ELSE acc.global,
        warnings |-> acc.warnings \o pw[2]]

ImportRoutes(doc) ==
    FoldLeft(ImportStep, [routes |-> <<>>, global |-> None, warnings |-> <<>>], Operations(doc))

OpenApiToApiDefinition(doc, q) ==
    LET r == ImportRoutes(doc) IN
    [name |-> q.name, version |-> ImportVersion(doc, q), basePath |-> ImportBasePath(doc, q),
     upstream |-> ImportUpstream(doc, q), routes |-> r.routes, policies |-> r.global,
     warnings |-> r.warnings]

-----------------------------------------------------------------------------
(* import_openapi_handler.                                                 *)

\* What the handler may receive: a body whose read fails, a body neither
\* serde_yaml nor serde_json (by Content-Type) can parse, or a document.
Bodies ==
    {[kind |-> "unreadable"], [kind |-> "unparsable"]}
    \cup {[kind |-> "document", doc |-> d] : d \in Documents}

\* 400 for an unreadable or unparsable body or an openapi field that is not
\* a string starting with "3."; otherwise 201 with the converted definition
\* and its warnings, None when there are none.
ImportAnswer(body, q) ==
    IF body.kind # "document" THEN [status |-> 400]
    ELSE IF body.doc.openapi = None \/ ~IsPrefix("3.", body.doc.openapi) THEN [status |-> 400]
    ELSE LET d == OpenApiToApiDefinition(body.doc, q) IN
         [status |-> 201, name |-> d.name, version |-> d.version, basePath |-> d.basePath,
          upstream |-> d.upstream, routes |-> d.routes, policies |-> d.policies,
          warnings |-> IF d.warnings = <<>> THEN None ELSE d.warnings]

\* The shapes of the answers.
ImportPolicies ==
    [rateLimit : Opt([requests : Nat, interval : STRING, keyBy : Opt(STRING)]),
     authentication : Opt([type : {"jwt"}, required : BOOLEAN,
                           config : [issuer : Opt(STRING), audience : Opt(STRING)]]),
     cors : Opt([origins : Seq(STRING), methods : Seq(STRING), headers : Seq(STRING),
                 allowCredentials : BOOLEAN, maxAge : Opt(Nat)])]

IsImportAnswer(a) ==
    \/ a = [status |-> 400]
    \/ a \in [status : {201}, name : STRING, version : STRING, basePath : STRING,
          upstream : [service : STRING \X {"-backend"},
                      endpoints : Seq([host : STRING, port : Nat, weight : {100}]),
                      tls : BOOLEAN, loadBalancing : {"ROUND_ROBIN"}],
          routes : Seq([path : STRING, methods : Seq(STRING), description : Opt(STRING),
                        policies : Opt(ImportPolicies)]),
          policies : Opt(ImportPolicies),
          warnings : Opt(Seq({RateLimitWarning}
                             \cup {UnknownTagWarning(k) : k \in ToSet(KeyOrder)}))]

-----------------------------------------------------------------------------
(* spec.md 4.F, written from its steps.                                    *)

\* Step 6 for one operation: what is emitted, None when nothing is.
SpecPolicies(op) ==
    LET rl == op.ratelimit
        emitted ==
          [rateLimit |-> IF rl = None \/ rl.requests = None \/ rl.interval = None THEN None
                         ELSE [requests |-> rl.requests, interval |-> rl.interval, keyBy |-> rl.keyBy],
           authentication |-> IF op.jwt = None THEN None
                              ELSE [type |-> "jwt",
                                    required |-> IF op.jwt.required = FALSE THEN FALSE ELSE TRUE,
                                    config |-> [issuer |-> op.jwt.issuer, audience |-> op.jwt.audience]],
           cors |-> IF op.cors = None THEN None
                    ELSE [origins |-> IF op.cors.origins = None THEN <<"*">> ELSE op.cors.origins,
                          methods |-> IF op.cors.methods = None THEN <<"GET", "POST">> ELSE op.cors.methods,
                          headers |-> IF op.cors.headers = None THEN <<"Content-Type", "Authorization">>
                                      ELSE op.cors.headers,
                          allowCredentials |-> op.cors.allowCredentials = TRUE,
                          maxAge |-> op.cors.maxAge]]
    IN IF \A f \in DOMAIN emitted : emitted[f] = None THEN None ELSE emitted

\* Step 5: one route per path and present method.
SpecRoutes(doc) ==
    LET os == Operations(doc) IN
    [i \in 1..Len(os) |->
        [path |-> os[i].path, methods |-> <<Upper[os[i].method]>>,
         description |-> IF os[i].op.summary # None THEN os[i].op.summary ELSE os[i].op.description,
         policies |-> SpecPolicies(os[i].op)]]

\* Step 6, last bullet: the unknown x-flowplane-* keys of all operations.
SpecUnknownTags(doc) ==
    LET os == Operations(doc) IN
    {k \in UNION {OpKeys(os[i].op) : i \in 1..Len(os)} :
        IsPrefix("x-flowplane-", k) /\ k \notin KnownTags}

\* The malformed rate-limit extensions: requests not an integer or interval
\* not a string.
SpecMalformedRateLimit(doc) ==
    LET os == Operations(doc) IN
    \E i \in 1..Len(os) :
        os[i].op.ratelimit # None
        /\ (os[i].op.ratelimit.requests = None \/ os[i].op.ratelimit.interval = None)

\* Steps 1-7 except the rate-limit warning: the status, the derived fields,
\* the routes with their policies, the first route's policies as global
\* ones, and a warning for every unknown tag.
AnswerFollowsSpec(body, q, a) ==
    IF body.kind # "document" \/ body.doc.openapi = None \/ ~IsPrefix("3.", body.doc.openapi)
    THEN a.status = 400
    ELSE LET doc == body.doc
             routes == SpecRoutes(doc)
             warned == IF a.warnings = None THEN {} ELSE ToSet(a.warnings)
         IN /\ a.status = 201
            /\ a.name = q.name
            /\ a.version = ImportVersion(doc, q)
            /\ a.basePath = ImportBasePath(doc, q)
            /\ a.upstream = ImportUpstream(doc, q)
            /\ a.routes = routes
            /\ a.policies = IF routes = <<>> THEN None ELSE routes[1].policies
            /\ {w[2] : w \in warned \ {RateLimitWarning}} = SpecUnknownTags(doc)

\* The last bullet of step 6 for rate limits: a malformed one warns.
AnswerWarnsMalformedRateLimit(body, q, a) ==
    a.status = 201 /\ SpecMalformedRateLimit(body.doc)
    => a.warnings # None /\ RateLimitWarning \in ToSet(a.warnings)

=============================================================================
