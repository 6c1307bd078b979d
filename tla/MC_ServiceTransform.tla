------------------------- MODULE MC_ServiceTransform -------------------------
(* Bounded instance of ServiceTransform.  Threshold values are distinct so *)
(* that a field copied into the wrong place is visible; outlier-detection  *)
(* times straddle the 1000 ms boundary of the seconds conversion.          *)
EXTENDS ServiceTransform

MCHealthChecks ==
    {[path |-> "/health", interval |-> 7, timeout |-> 4,
      healthyThreshold |-> 2, unhealthyThreshold |-> 3]}

MCCircuitBreakers ==
    {[maxRequests |-> 1, maxPendingRequests |-> None, maxConnections |-> 2,
      maxRetries |-> None, consecutiveErrors |-> None, intervalMs |-> None],
     [maxRequests |-> None, maxPendingRequests |-> 3, maxConnections |-> None,
      maxRetries |-> 4, consecutiveErrors |-> 5, intervalMs |-> 10000]}

MCOutlierDetections ==
    [consecutive5xx : {5}, intervalMs : {None, 999, 1500},
     baseEjectionTimeMs : {None, 30000}, maxEjectionPercent : {None},
     minHealthyPercent : {None, 50}]

\* PUT bodies: a valid rewrite (RingHash, a second endpoint, breaker and
\* outlier detection), the same body under the other name, and a body
\* without endpoints that validation rejects.
MCUpdate(name, endpoints) ==
    [name |-> name, endpoints |-> endpoints, loadBalancing |-> "RingHash",
     healthCheck |-> None,
     circuitBreaker |-> [maxRequests |-> None, maxPendingRequests |-> 3,
                         maxConnections |-> None, maxRetries |-> 4,
                         consecutiveErrors |-> 5, intervalMs |-> 10000],
     outlierDetection |-> [consecutive5xx |-> 5, intervalMs |-> 1500,
                           baseEjectionTimeMs |-> None,
                           maxEjectionPercent |-> None, minHealthyPercent |-> 50],
     metadata |-> "meta"]

MCEndpoints == <<[host |-> "b", port |-> 8080, weight |-> 0],
                 [host |-> "a", port |-> 8080, weight |-> 100]>>

MCUpdates ==
    {MCUpdate("payments", MCEndpoints), MCUpdate("orders", MCEndpoints),
     MCUpdate("payments", <<>>)}

=============================================================================
