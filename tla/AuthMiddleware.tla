--------------------------- MODULE AuthMiddleware ---------------------------
(***************************************************************************)
(* The authentication and authorization layers in front of every secured   *)
(* handler: authenticate and ensure_scopes (src/src/auth/middleware.rs)    *)
(* over the scope table of build_router (src/src/api/routes.rs).           *)
(*                                                                         *)
(* The token store they read belongs to AuthService and the token          *)
(* handlers, which are not under src/. It is modelled from spec.md 2 and   *)
(* 4.H. The store is changed concurrently by PATCH, DELETE and rotate      *)
(* requests that pass through the same middleware. Their bodies are       *)
(* checked by UpdateTokenRequest::validate (src/src/auth/validation.rs).   *)
(***************************************************************************)
EXTENDS Naturals, Sequences, FiniteSets, SequencesExt

CONSTANTS
    Clients,          \* concurrent HTTP clients
    Tokens,           \* personal access tokens (ids)
    InitialTokens,    \* the token store at start: Tokens -> token records
    Calls,            \* the requests clients may send (endpoint, target, body)
    Scopes,           \* the scope strings tokens and request bodies carry
    MaxRequests,      \* bound on the requests sent in a behaviour
    MaxRotations,     \* bound on the rotate requests sent in a behaviour
    StoreMayFail,     \* the token store may be unavailable (Persistence)
    None

VARIABLES
    tok,        \* the token store: id -> [status, scopes, gen, expires]
    req,        \* req[c]: the request client c is running
    sent,       \* requests sent so far
    rotations,  \* rotate requests sent so far
    creations   \* POST /tokens requests sent so far

vars == <<tok, req, sent, rotations, creations>>

(***************************************************************************)
(* Endpoints and the scope table of build_router.                          *)
(***************************************************************************)
Endpoint(m, f, k) == [method |-> m, family |-> f, kind |-> k]

\* One .route(path, method(handler)).route_layer(scope_layer(scopes)).
Route(m, f, k, s) == [ep |-> Endpoint(m, f, k), scopes |-> s]

ApisWrite == {"apis:write", "route-configs:write", "listeners:write", "clusters:write"}

RouteTable == {
    Route("GET",    "tokens", "coll",   {"tokens:read"}),
    Route("POST",   "tokens", "coll",   {"tokens:write"}),
    Route("GET",    "tokens", "item",   {"tokens:read"}),
    Route("PATCH",  "tokens", "item",   {"tokens:write"}),
    Route("DELETE", "tokens", "item",   {"tokens:write"}),
    Route("POST",   "tokens", "rotate", {"tokens:write"}),
    Route("GET",    "clusters", "coll", {"clusters:read"}),
    Route("POST",   "clusters", "coll", {"clusters:write"}),
    Route("GET",    "clusters", "item", {"clusters:read"}),
    Route("PUT",    "clusters", "item", {"clusters:write"}),
    Route("DELETE", "clusters", "item", {"clusters:write"}),
    Route("GET",    "route-configs", "coll", {"route-configs:read"}),
    Route("POST",   "route-configs", "coll", {"route-configs:write"}),
    Route("GET",    "route-configs", "item", {"route-configs:read"}),
    Route("PUT",    "route-configs", "item", {"route-configs:write"}),
    Route("DELETE", "route-configs", "item", {"route-configs:write"}),
    Route("GET",    "listeners", "coll", {"listeners:read"}),
    Route("POST",   "listeners", "coll", {"listeners:write"}),
    Route("GET",    "listeners", "item", {"listeners:read"}),
    Route("PUT",    "listeners", "item", {"listeners:write"}),
    Route("DELETE", "listeners", "item", {"listeners:write"}),
    Route("GET",    "platform/apis", "coll", {"apis:read"}),
    Route("POST",   "platform/apis", "coll", ApisWrite),
    Route("GET",    "platform/apis", "item", {"apis:read"}),
    Route("PUT",    "platform/apis", "item", ApisWrite),
    Route("DELETE", "platform/apis", "item", ApisWrite),
    Route("POST",   "platform/import/openapi", "coll", {"apis:write", "import:write"}),
    Route("POST",   "gateways/openapi", "coll", {"gateways:import"}),
    Route("GET",    "platform/services", "coll", {"services:read"}),
    Route("POST",   "platform/services", "coll", {"services:write"}),
    Route("GET",    "platform/services", "item", {"services:read"}),
    Route("PUT",    "platform/services", "item", {"services:write"}),
    Route("DELETE", "platform/services", "item", {"services:write"})
}

\* The router matches a method and path only if some route declares it;
\* route_layer applies the scope check to matched routes only.
Routed(e) == \E r \in RouteTable : r.ep = e

RequiredScopes(e) == (CHOOSE r \in RouteTable : r.ep = e).scopes

(***************************************************************************)
(* The token store (spec.md 2, PersonalAccessToken) and                    *)
(* AuthService::authenticate, in the order of spec.md 4.H's 401 list.      *)
(***************************************************************************)
Statuses == {"active", "revoked", "expired"}
Expiries == {"never", "future", "past"}
TokenRecords == [status : Statuses, scopes : SUBSET Scopes,
                 gen : 0..MaxRotations, expires : Expiries]

\* An Authorization header: absent, not "Bearer <id>.<secret>", or a bearer
\* of the secret of generation gen of a token.
Headers ==
    {[kind |-> "none", tok |-> None, gen |-> 0],
     [kind |-> "malformed", tok |-> None, gen |-> 0]}
    \cup [kind : {"bearer"}, tok : Tokens, gen : 0..MaxRotations]

AuthenticateToken(h) ==
    IF h.kind = "none" THEN "MissingBearer"
    ELSE IF h.kind = "malformed" THEN "MalformedBearer"
    ELSE IF tok[h.tok] = None \/ h.gen # tok[h.tok].gen THEN "TokenNotFound"
    ELSE IF tok[h.tok].status # "active" THEN "InactiveToken"
    ELSE IF tok[h.tok].expires = "past" THEN "ExpiredToken"
    ELSE "ok"

\* map_auth_error with a backing-store error reported as an internal error.
MapAuthErrorPersistenceInternal(err) ==
    IF err \in {"MissingBearer", "MalformedBearer", "TokenNotFound",
                "InactiveToken", "ExpiredToken"}
    THEN "401"
    ELSE IF err = "Forbidden" THEN "403"
    ELSE "500"

\* map_auth_error: every AuthError to its HTTP status.
MapAuthError(err) ==
    IF err \in {"MissingBearer", "MalformedBearer", "TokenNotFound",
                "InactiveToken", "ExpiredToken"}
    THEN "401"
    ELSE IF err = "Forbidden" THEN "403"
    ELSE "503"

\* ensure_scopes: required_scopes.iter().any(...) instead of all(...).
EnsureScopesAny(required, granted) == \E s \in required : s \in granted

\* ensure_scopes: every required scope must be granted.
EnsureScopes(required, granted) == \A s \in required : s \in granted

(***************************************************************************)
(* The request DTOs of src/src/auth/validation.rs. NAME_REGEX and          *)
(* SCOPE_REGEX are matched character by character (Char(s, i) is the i-th *)
(* character of s as a one-character string).                              *)
(***************************************************************************)
LowerLetters == {"a", "b", "c", "d", "e", "f", "g", "h", "i", "j", "k", "l", "m",
                 "n", "o", "p", "q", "r", "s", "t", "u", "v", "w", "x", "y", "z"}
UpperLetters == {"A", "B", "C", "D", "E", "F", "G", "H", "I", "J", "K", "L", "M",
                 "N", "O", "P", "Q", "R", "S", "T", "U", "V", "W", "X", "Y", "Z"}
Digits == {"0", "1", "2", "3", "4", "5", "6", "7", "8", "9"}

Char(s, i) == SubSeq(s, i, i)

\* validate_token_name: NAME_REGEX ^[a-zA-Z0-9_-]{3,64}$.
ValidateTokenName(name) ==
    /\ Len(name) \in 3..64
    /\ \A i \in 1..Len(name) :
          Char(name, i) \in LowerLetters \cup UpperLetters \cup Digits \cup {"_", "-"}

\* Mutant of ValidateScope: the part after the colon may be empty
\* ([a-z]* for [a-z]+).
ValidateScopeEmptyAction(scope) ==
    \E k \in 2..Len(scope) :
        /\ Char(scope, 1) \in LowerLetters
        /\ \A i \in 2..(k - 1) : Char(scope, i) \in LowerLetters \cup {"-"}
        /\ Char(scope, k) = ":"
        /\ \A i \in (k + 1)..Len(scope) : Char(scope, i) \in LowerLetters

\* validate_scope: SCOPE_REGEX ^[a-z][a-z-]*:[a-z]+$. [a-z-] excludes ':',
\* so k is the position of the first colon.
ValidateScope(scope) ==
    \E k \in 2..(Len(scope) - 1) :
        /\ Char(scope, 1) \in LowerLetters
        /\ \A i \in 2..(k - 1) : Char(scope, i) \in LowerLetters \cup {"-"}
        /\ Char(scope, k) = ":"
        /\ \A i \in (k + 1)..Len(scope) : Char(scope, i) \in LowerLetters

\* validate_scopes_list: the first invalid scope fails the list.
ValidateScopesList(scopes) == \A i \in 1..Len(scopes) : ValidateScope(scopes[i])

\* CreateTokenRequest's #[derive(Validate)]: the name, and a scopes list of
\* length at least 1 whose every scope is valid.
ValidateCreateToken(b) ==
    /\ ValidateTokenName(b.name)
    /\ Len(b.scopes) >= 1
    /\ ValidateScopesList(b.scopes)

\* UpdateTokenRequest::validate: name, then scopes, then status. A scopes
\* list may be empty: only CreateTokenRequest has length(min = 1).
ValidateUpdateToken(u) ==
    /\ u.name = None \/ ValidateTokenName(u.name)
    /\ u.scopes = None \/ ValidateScopesList(u.scopes)
    /\ u.status = None \/ u.status \in Statuses

\* The token handlers (spec.md 6): POST issues a new active token for a
\* valid CreateTokenRequest under an unused id, PATCH applies a valid
\* update, DELETE revokes, rotate issues a secret of the next generation;
\* an unknown id is a 404. Other handlers leave the token store alone.
NewTokenId == CHOOSE t \in Tokens : tok[t] = None

NewToken(b) ==
    [status |-> "active", scopes |-> {b.scopes[i] : i \in 1..Len(b.scopes)},
     gen |-> 0, expires |-> b.expires]

UpdatedToken(t, u) ==
    [t EXCEPT !.status = IF u.status = None THEN @ ELSE u.status,
              !.scopes = IF u.scopes = None THEN @
                         ELSE {u.scopes[i] : i \in 1..Len(u.scopes)}]

TokenHandler(call) ==
    LET e == call.ep IN
    IF e.family # "tokens" THEN tok
    ELSE IF e.method = "POST" /\ e.kind = "coll"
    THEN IF ValidateCreateToken(call.body)
         THEN [tok EXCEPT ![NewTokenId] = NewToken(call.body)]
         ELSE tok
    ELSE IF e.kind # "coll" /\ tok[call.target] = None THEN tok
    ELSE IF e.method = "PATCH" /\ ValidateUpdateToken(call.body)
    THEN [tok EXCEPT ![call.target] = UpdatedToken(@, call.body)]
    ELSE IF e.method = "DELETE"
    THEN [tok EXCEPT ![call.target].status = "revoked"]
    ELSE IF e.kind = "rotate"
    THEN [tok EXCEPT ![call.target].gen = @ + 1]
    ELSE tok

(***************************************************************************)
(* Requests. pc is "idle", "auth" (suspended in auth_service.authenticate),*)
(* "handler" (admitted, the handler's write not yet committed) or "done".  *)
(* gate is what the middleware answered ("pass" admits the request).       *)
(* seen and down are history: the token and store availability that       *)
(* authenticate observed.                                                  *)
(***************************************************************************)
Requests ==
    [pc : {"idle", "auth", "handler", "done"}, call : Calls \cup {None},
     header : Headers \cup {None}, gate : {"pass", "401", "403", "405", "503", None},
     seen : TokenRecords \cup {None}, down : BOOLEAN]

IdleRequest == [pc |-> "idle", call |-> None, header |-> None, gate |-> None,
                seen |-> None, down |-> FALSE]

IsRotate(call) == call.ep.family = "tokens" /\ call.ep.kind = "rotate"

IsCreate(call) == call.ep = Endpoint("POST", "tokens", "coll")

\* The ids no token has yet: each POST /tokens sent may use one.
FreeIds == {t \in Tokens : InitialTokens[t] = None}

TypeOK ==
    /\ tok \in [Tokens -> TokenRecords \cup {None}]
    /\ req \in [Clients -> Requests]
    /\ sent \in 0..MaxRequests
    /\ rotations \in 0..MaxRotations
    /\ creations \in 0..Cardinality(FreeIds)

Init ==
    /\ tok = InitialTokens
    /\ req = [c \in Clients |-> IdleRequest]
    /\ sent = 0
    /\ rotations = 0
    /\ creations = 0

\* A client sends a request with a header it holds: a secret of a generation
\* already issued, or a missing or malformed header.
Send(c) ==
    /\ req[c].pc \in {"idle", "done"}
    /\ sent < MaxRequests
    /\ \E call \in Calls, h \in Headers :
          /\ h.kind = "bearer" => tok[h.tok] # None /\ h.gen <= tok[h.tok].gen
          /\ IsRotate(call) => rotations < MaxRotations
          /\ IsCreate(call) => creations < Cardinality(FreeIds)
          /\ rotations' = IF IsRotate(call) THEN rotations + 1 ELSE rotations
          /\ creations' = IF IsCreate(call) THEN creations + 1 ELSE creations
          /\ req' = [req EXCEPT ![c] = [IdleRequest EXCEPT !.pc = "auth",
                                            !.call = call, !.header = h]]
    /\ sent' = sent + 1
    /\ UNCHANGED tok

\* authenticate: OPTIONS passes straight to the router; otherwise the token
\* lookup resumes, and on success the router and ensure_scopes run in the
\* same poll. No await separates them.
Authenticate(c) ==
    /\ req[c].pc = "auth"
    /\ LET r == req[c]
           e == r.call.ep
           Admit(granted) ==
               IF ~Routed(e) THEN "405"
               ELSE IF EnsureScopes(RequiredScopes(e), granted) THEN "pass"
               ELSE "403"
       IN
       IF e.method = "OPTIONS"
       THEN req' = [req EXCEPT ![c].gate = IF Routed(e) THEN "pass" ELSE "405",
                               ![c].pc = IF Routed(e) THEN "handler" ELSE "done"]
       ELSE \E down \in (IF StoreMayFail /\ r.header.kind = "bearer"
                         THEN BOOLEAN ELSE {FALSE}) :
              LET err == IF down THEN "Persistence" ELSE AuthenticateToken(r.header)
                  gate == IF err = "ok" THEN Admit(tok[r.header.tok].scopes)
                          ELSE MapAuthError(err)
              IN req' = [req EXCEPT ![c].gate = gate,
                                    ![c].pc = IF gate = "pass" THEN "handler" ELSE "done",
                                    ![c].down = down,
                                    ![c].seen = IF r.header.kind = "bearer"
                                                THEN tok[r.header.tok] ELSE None]
    /\ UNCHANGED <<tok, sent, rotations, creations>>

\* The admitted handler commits its write at its own await.
Handle(c) ==
    /\ req[c].pc = "handler"
    /\ tok' = TokenHandler(req[c].call)
    /\ req' = [req EXCEPT ![c].pc = "done"]
    /\ UNCHANGED <<sent, rotations, creations>>

\* A token's expires_at passes.
Expire(t) ==
    /\ tok[t] # None /\ tok[t].expires = "future"
    /\ tok' = [tok EXCEPT ![t].expires = "past"]
    /\ UNCHANGED <<req, sent, rotations, creations>>

\* Every request has been answered and no more are sent.
Terminated ==
    /\ sent = MaxRequests
    /\ \A c \in Clients : req[c].pc \in {"idle", "done"}
    /\ UNCHANGED vars

Next ==
    \/ \E c \in Clients : Send(c) \/ Authenticate(c) \/ Handle(c)
    \/ \E t \in Tokens : Expire(t)
    \/ Terminated

Spec == Init /\ [][Next]_vars

(***************************************************************************)
(* Reference: the HTTP surface of spec.md 6 and the status table of 4.H.   *)
(***************************************************************************)
ResourceFamilies == {"clusters", "route-configs", "listeners", "platform/apis",
                     "platform/services"}

SpecEndpoints ==
    {Endpoint(m, f, "coll") : m \in {"GET", "POST"}, f \in ResourceFamilies \cup {"tokens"}}
    \cup {Endpoint(m, f, "item") : m \in {"GET", "PUT", "DELETE"}, f \in ResourceFamilies}
    \cup {Endpoint(m, "tokens", "item") : m \in {"GET", "PATCH", "DELETE"}}
    \cup {Endpoint("POST", "tokens", "rotate"),
          Endpoint("POST", "platform/import/openapi", "coll"),
          Endpoint("POST", "gateways/openapi", "coll")}

ScopeResource(f) ==
    CASE f = "platform/apis" -> "apis"
      [] f = "platform/services" -> "services"
      [] OTHER -> f

SpecScopes(e) ==
    CASE e.family = "platform/import/openapi" -> {"apis:write", "import:write"}
      [] e.family = "gateways/openapi" -> {"gateways:import"}
      [] e.family = "platform/apis" /\ e.method # "GET" ->
             {"apis:write", "route-configs:write", "listeners:write", "clusters:write"}
      [] OTHER -> {ScopeResource(e.family) \o (IF e.method = "GET" THEN ":read" ELSE ":write")}

\* What spec.md says the layers answer, given the token authenticate saw.
SpecGate(r) ==
    LET e == r.call.ep
        h == r.header
        t == r.seen
    IN
    IF e.method = "OPTIONS" THEN IF e \in SpecEndpoints THEN "pass" ELSE "405"
    ELSE IF h.kind # "bearer" THEN "401"
    ELSE IF r.down THEN "503"
    ELSE IF h.gen # t.gen \/ t.status # "active" \/ t.expires = "past" THEN "401"
    ELSE IF e \notin SpecEndpoints THEN "405"
    ELSE IF ~(SpecScopes(e) \subseteq t.scopes) THEN "403"
    ELSE "pass"

\* The scope pattern of spec.md 2 (PersonalAccessToken), read as a scanner
\* over the characters: a lower-case resource that may contain '-', one
\* ':', and a non-empty lower-case action.
ScopeScan(st, ch) ==
    CASE st = "start" /\ ch \in LowerLetters          -> "resource"
      [] st = "resource" /\ ch \in LowerLetters \cup {"-"} -> "resource"
      [] st = "resource" /\ ch = ":"                  -> "colon"
      [] st \in {"colon", "action"} /\ ch \in LowerLetters -> "action"
      [] OTHER                                         -> "reject"

SpecScope(s) == FoldLeft(ScopeScan, "start", [i \in 1..Len(s) |-> Char(s, i)]) = "action"

\* The scope strings of the model that match the pattern (a constant).
PatternScopes == {s \in Scopes : SpecScope(s)}

(***************************************************************************)
(* Properties.                                                             *)
(***************************************************************************)

\* Whatever the token store went through before authenticate read it, the
\* middleware's answer (OPTIONS bypass in authenticate, 401/403/503 from
\* map_auth_error, 405 from the router, the all-scopes check of
\* ensure_scopes over build_router's table) is the one spec.md 4.H and 6
\* give for the method, path, header and token.
GateFollowsSpec ==
    \A c \in Clients : req[c].gate # None => req[c].gate = SpecGate(req[c])

\* Every scope of every token in the store matches the pattern spec.md 2
\* gives for PersonalAccessToken scopes, whatever sequence of POST and
\* PATCH requests built it: CreateTokenRequest's and UpdateTokenRequest's
\* validation (SCOPE_REGEX in validate_scope) is the only gate in front of
\* the store.
TokenScopesMatchSpec ==
    \A t \in Tokens : tok[t] # None => tok[t].scopes \subseteq PatternScopes

=============================================================================
