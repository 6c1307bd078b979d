\* Two clients call the token endpoints and a multi-scope endpoint with
\* every kind of header while tokens are patched, revoked, rotated and expire.
CONSTANTS
    c1 = c1
    c2 = c2
    t1 = t1
    t2 = t2
    t3 = t3
    None = None
    Clients <- MCClients
    Tokens <- MCTokens
    InitialTokens <- MCInitialTokens
    Calls <- MCCalls
    Scopes <- MCScopes
    MaxRequests = 3
    MaxRotations = 1
    StoreMayFail = TRUE
SPECIFICATION Spec
INVARIANT TypeOK GateFollowsSpec TokenScopesMatchSpec
SYMMETRY ClientSymmetry
