\* Every sample OpenAPI document is imported; a rate-limit extension with
\* an integer requests and no string interval is among them.
CONSTANTS
    api1 = api1
    None = None
    ApiId = api1
    Chars <- MCChars
    NameSamples <- MCNameSamples
    PathSamples <- MCPathSamples
    Hosts = {"h"}
    Ports = {0, 80}
    LbStrings = {"ROUND_ROBIN", "round_robin"}
    Timeouts = {5}
    MaxRoutes = 2
    ApiDefinitions <- MCApiDefinitions
    ListQueries <- MCListQueries
    MaxOps = 1
    Documents <- MCDocuments
    ImportQueries <- MCImportQueries
    PathOrder <- MCPathOrder
    KeyOrder <- MCKeyOrder
    NonString = NonString
SPECIFICATION Spec
INVARIANT ImportWarnsMalformedRateLimit
CHECK_DEADLOCK FALSE
