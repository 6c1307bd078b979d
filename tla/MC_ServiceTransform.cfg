\* Every bounded ServiceDefinition is created, then read back by
\* get_service_handler and by the transformer listing; each request's life
\* ends there.
CONSTANTS
    ServiceName = "payments"
    Hosts = {"a", "b"}
    Ports = {8080}
    Weights = {0, 100}
    HealthChecks <- MCHealthChecks
    CircuitBreakers <- MCCircuitBreakers
    OutlierDetections <- MCOutlierDetections
    Metadata = {"meta"}
    OtherName = "orders"
    Updates <- MCUpdates
    None = None
SPECIFICATION Spec
INVARIANT TypeOK
INVARIANT ReadBackMatchesSpec
INVARIANT LoweringsAgree
PROPERTY GetPutRoundTrip
CHECK_DEADLOCK FALSE
