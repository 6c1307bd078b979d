\* Every definition over the sample strings, endpoints and strategies is
\* created, then read, listed, updated or deleted once; or every sample
\* OpenAPI document is imported.
CONSTANTS
    api1 = api1
    None = None
    ApiId = api1
    Chars <- MCChars
    NameSamples <- MCNameSamples
    PathSamples <- MCPathSamples
    Hosts = {"h"}
    Ports = {0, 80}
    LbStrings = {"ROUND_ROBIN", "round_robin"}
    Timeouts = {5}
    MaxRoutes = 2
    ApiDefinitions <- MCApiDefinitions
    ListQueries <- MCListQueries
    MaxOps = 1
    Documents <- MCDocuments
    ImportQueries <- MCImportQueries
    PathOrder <- MCPathOrder
    KeyOrder <- MCKeyOrder
    NonString = NonString
SPECIFICATION Spec
INVARIANT TypeOK ImportFollowsSpec ImportedPoliciesLower
CHECK_DEADLOCK FALSE
