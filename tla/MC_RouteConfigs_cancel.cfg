\* Handlers may be dropped at an await; refreshes succeed.
CONSTANTS
    c1 = c1
    c2 = c2
    r1 = r1
    gw = gw
    p1 = p1
    p2 = p2
    Clients <- MCClients
    Names <- MCNames
    Configs <- MCConfigs
    DefaultGateway = gw
    Absent = Absent
    BadPayload = BadPayload
    MaxRequests = 5
    RefreshMayFail = FALSE
    CanCancel = TRUE
    RetryOnError = FALSE
SPECIFICATION Spec
INVARIANT StalenessIsReported
SYMMETRY ClientSymmetry
