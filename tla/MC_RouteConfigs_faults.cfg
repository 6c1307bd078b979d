\* Refreshes may fail, handlers may be cancelled and clients retry after a 5xx.
CONSTANTS
    c1 = c1
    c2 = c2
    r1 = r1
    gw = gw
    p1 = p1
    p2 = p2
    Clients <- MCClients
    Names <- MCNames
    Configs <- MCConfigs
    DefaultGateway = gw
    Absent = Absent
    BadPayload = BadPayload
    MaxRequests = 4
    RefreshMayFail = TRUE
    CanCancel = TRUE
    RetryOnError = TRUE
SPECIFICATION Spec
INVARIANT AnswersAreLinearizable
SYMMETRY ClientSymmetry
