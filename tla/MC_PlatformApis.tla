--------------------------- MODULE MC_PlatformApis ---------------------------
EXTENDS PlatformApis

CONSTANTS api1

MCChars == {" ", "/", "a"}

\* Empty, blank and ordinary names.
MCNameSamples == {<<>>, <<" ">>, <<"a">>}

\* Empty, blank, rooted and relative paths.
MCPathSamples == {<<>>, <<" ">>, <<"/">>, <<"a">>}

MCApiDefinitions == AllApiDefinitions

MCListQueries ==
    {[name |-> None, version |-> None, offset |-> None, limit |-> None],
     [name |-> <<"a">>, version |-> <<"a">>, offset |-> 1, limit |-> 1]}
\* Operations: plain, each rate-limit shape (valid, no interval, no
\* requests), jwt-auth beside an unknown extension, cors with defaults.
MCOp(summary, description, ratelimit, jwt, cors, otherKeys) ==
    [summary |-> summary, description |-> description, ratelimit |-> ratelimit,
     jwt |-> jwt, cors |-> cors, otherKeys |-> otherKeys]

MCOps ==
    {MCOp(None, "d", None, None, None, {"description", "responses"}),
     MCOp("s", None, [requests |-> 100, interval |-> "1m", keyBy |-> None], None, None, {"summary"}),
     MCOp(None, None, [requests |-> 100, interval |-> None, keyBy |-> None], None, None, {}),
     MCOp(None, None, [requests |-> None, interval |-> "1m", keyBy |-> "ip"], None, None, {}),
     MCOp(None, None, None, [required |-> None, issuer |-> "iss", audience |-> None], None,
          {"x-flowplane-foo"}),
     MCOp("s", None, None, None,
          [origins |-> None, methods |-> None, headers |-> None,
           allowCredentials |-> None, maxAge |-> None], {"summary"})}

\* Path items: one GET of each kind, and a GET and a POST.
MCPathItems ==
    {[get |-> o] : o \in MCOps}
    \cup {[get |-> MCOp(None, "d", None, None, None, {"description"}),
           post |-> MCOp(None, None, None, [required |-> FALSE, issuer |-> None, audience |-> None],
                         None, {})]}

MCPathOrder == <<"/a", "/b">>

MCPaths ==
    {None}
    \cup UNION {[ks -> MCPathItems] : ks \in {{}, {"/a"}, {"/a", "/b"}}}

MCKeyOrder == <<"description", "responses", "summary", "x-flowplane-cors", "x-flowplane-foo",
                "x-flowplane-jwt-auth", "x-flowplane-ratelimit">>

\* servers[0].url as Url::parse sees it: https with the default port, http
\* with an explicit one, a hostless file URL, a relative path, a bare host.
MCUrls ==
    {None,
     [parsed |-> TRUE, scheme |-> "https", host |-> "h", port |-> None, path |-> "/"],
     [parsed |-> TRUE, scheme |-> "http", host |-> "h", port |-> 8080, path |-> "/v1"],
     [parsed |-> TRUE, scheme |-> "file", host |-> None, port |-> None, path |-> "/x"],
     [parsed |-> FALSE, scheme |-> None, host |-> None, port |-> None, path |-> "/v1"],
     [parsed |-> FALSE, scheme |-> None, host |-> None, port |-> None, path |-> "h"]}

MCDocuments ==
    [openapi : {None, "2.0", "3.0.0"}, infoVersion : {None, "2.0.0"},
     serverUrl : MCUrls, paths : MCPaths]

MCImportQueries ==
    {[name |-> "api", version |-> None, base_path |-> None],
     [name |-> "api", version |-> "9", base_path |-> "/q"]}
=============================================================================
