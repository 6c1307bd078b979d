\* Every accepted definition is lowered; its derived route config and
\* cluster are checked against the Native validation rules.
CONSTANTS
    api1 = api1
    None = None
    ApiId = api1
    Chars <- MCChars
    NameSamples <- MCNameSamples
    PathSamples <- MCPathSamples
    Hosts = {"h"}
    Ports = {0, 80}
    LbStrings = {"ROUND_ROBIN", "round_robin"}
    Timeouts = {5}
    MaxRoutes = 2
    ApiDefinitions <- MCApiDefinitions
    ListQueries <- MCListQueries
    MaxOps = 1
    Documents <- MCDocuments
    ImportQueries <- MCImportQueries
    PathOrder <- MCPathOrder
    KeyOrder <- MCKeyOrder
    NonString = NonString
SPECIFICATION Spec
INVARIANT LoweringIsValid
CHECK_DEADLOCK FALSE
