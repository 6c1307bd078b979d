---------------------------- MODULE RouteConfigs ----------------------------
(***************************************************************************)
(* The Native route-configuration surface (src/src/api/route_handlers.rs) *)
(* as concurrent request handlers over the route repository and the xDS   *)
(* route snapshot.                                                         *)
(*                                                                         *)
(* Each client runs one request at a time; many clients run concurrently  *)
(* (one tokio task per request).  A handler's synchronous prefix          *)
(* (validation, name checks, the default-gateway check) happens when the  *)
(* request arrives; every `.await` on the repository or on the refresh is *)
(* a step of its own, so other handlers interleave between them.  At each *)
(* await the task may be dropped (the client disconnected, hyper drops    *)
(* the handler future), when CanCancel holds.                              *)
(*                                                                         *)
(* The repository (storage::RouteRepository) and the refresh              *)
(* (XdsState::refresh_routes_from_repository) are not under src/: they    *)
(* are modelled from spec.md 4.B and 4.G.  A repository call is atomic    *)
(* (one SQL statement); a refresh reads every route and replaces the      *)
(* snapshot, serialised with other refreshes (spec.md 5), and may fail    *)
(* when RefreshMayFail holds.                                             *)
(***************************************************************************)
EXTENDS Naturals, FiniteSets

CONSTANTS
    Clients,        \* concurrent API callers
    Names,          \* route configuration names
    Configs,        \* valid route definitions, abstracted to model values
    DefaultGateway, \* name for which is_default_gateway_route holds
    Absent,         \* no row for this name
    BadPayload,     \* a payload rejected before any await (400)
    MaxRequests,    \* bound on the number of requests sent in a behaviour
    RefreshMayFail, \* refresh_routes_from_repository may return an error
    CanCancel,      \* a handler future may be dropped at an await point
    RetryOnError    \* a client that got a 5xx resends the same request

ASSUME DefaultGateway \in Names
ASSUME MaxRequests \in Nat \ {0}
ASSUME {RefreshMayFail, CanCancel, RetryOnError} \subseteq BOOLEAN

VARIABLES
    repo,       \* repo[n]: latest row for n, [id, version, config], or Absent
    snap,       \* the route snapshot served by the xDS server
    req,        \* req[c]: the request client c is running or ran last
    nextId,     \* source of fresh row ids (Uuid::new_v4 in the repository)
    sent,       \* number of requests sent so far (bounded by MaxRequests)
    told,       \* history: clients told 5xx after their write committed,
                \* since the last successful refresh
    seen        \* history: seen[c] holds "present" or "absent" for every
                \* state the name of c's request was in while it ran

vars == <<repo, snap, req, nextId, sent, told, seen>>

Ops == {"create", "update", "delete"}

\* Handler program counter: "done" when no request is in flight, otherwise
\* the await the task is suspended at.
Pcs == {"done", "lookup", "write", "refresh"}

\* HTTP outcomes, grouped by what the client learns.
Outcomes == {"none", "ok", "bad_request", "not_found", "conflict",
             "server_error", "cancelled"}

Row == [id : 0..MaxRequests, version : 1..(MaxRequests + 1), config : Configs]

Request == [op : Ops, name : Names, payload : Configs \cup {BadPayload},
            pc : Pcs, existingId : 0..MaxRequests, outcome : Outcomes]

TypeOK ==
    /\ repo \in [Names -> Row \cup {Absent}]
    /\ snap \in [Names -> Row \cup {Absent}]
    /\ req \in [Clients -> Request]
    /\ nextId \in 1..(MaxRequests + 1)
    /\ sent \in 0..MaxRequests
    /\ told \subseteq Clients
    /\ seen \in [Clients -> SUBSET {"present", "absent"}]

\* The default gateway route exists from bootstrap; every other name starts
\* absent, and the snapshot was built from the repository at startup.
InitialRepo ==
    [n \in Names |-> IF n = DefaultGateway
                     THEN [id |-> 0, version |-> 1, config |-> CHOOSE p \in Configs : TRUE]
                     ELSE Absent]

Init ==
    /\ repo = InitialRepo
    /\ snap = InitialRepo
    /\ req = [c \in Clients |-> [op |-> "create", name |-> DefaultGateway,
                                 payload |-> BadPayload, pc |-> "done",
                                 existingId |-> 0, outcome |-> "none"]]
    /\ nextId = 1
    /\ sent = 0
    /\ told = {}
    /\ seen = [c \in Clients |-> {}]

-----------------------------------------------------------------------------
(* Helpers: request bookkeeping                                            *)

Idle(c) == req[c].pc = "done"

\* Finish client c's request with outcome o.
Finish(c, o) == req' = [req EXCEPT ![c].pc = "done", ![c].outcome = o]

\* Move client c's request to the await at pc p.
Await(c, p) == req' = [req EXCEPT ![c].pc = p]

\* A client whose last request ended in a 5xx and that retries must send
\* the same request again (spec.md 4.G: refresh failures are recoverable by
\* retry).
MaySend(c, op, n, p) ==
    /\ Idle(c)
    /\ sent < MaxRequests
    /\ RetryOnError /\ req[c].outcome = "server_error"
       => /\ op = req[c].op /\ n = req[c].name
          /\ (op # "delete" => p = req[c].payload)

\* Record a freshly arrived request (outcome reset until it finishes).
Arrive(c, op, n, p) ==
    [req EXCEPT ![c] = [op |-> op, name |-> n, payload |-> p, pc |-> "done",
                        existingId |-> 0, outcome |-> "none"]]

-----------------------------------------------------------------------------
(* Request arrival: the synchronous prefix of each handler, up to its     *)
(* first await.                                                            *)

\* create_route_handler: validate_route_payload, to_xds_config and
\* validate_route_config reject a bad payload with 400; otherwise the
\* handler awaits route_repository.create.
CreateRoute(c, n, p) ==
    /\ MaySend(c, "create", n, p)
    /\ sent' = sent + 1
    /\ LET r == Arrive(c, "create", n, p) IN
       req' = IF p = BadPayload
              THEN [r EXCEPT ![c].outcome = "bad_request"]
              ELSE [r EXCEPT ![c].pc = "write"]
    /\ UNCHANGED <<repo, snap, nextId, told>>

\* update_route_handler: payload validation and the payload-name/path-name
\* check return 400; otherwise the handler awaits get_by_name.
UpdateRoute(c, n, p) ==
    /\ MaySend(c, "update", n, p)
    /\ sent' = sent + 1
    /\ LET r == Arrive(c, "update", n, p) IN
       req' = IF p = BadPayload
              THEN [r EXCEPT ![c].outcome = "bad_request"]
              ELSE [r EXCEPT ![c].pc = "lookup"]
    /\ UNCHANGED <<repo, snap, nextId, told>>

\* delete_route_handler: the default gateway route is refused with 409
\* before the repository is touched; otherwise await get_by_name.
DeleteRoute(c, n) ==
    /\ MaySend(c, "delete", n, BadPayload)
    /\ sent' = sent + 1
    /\ LET r == Arrive(c, "delete", n, BadPayload) IN
       req' = IF n = DefaultGateway
              THEN [r EXCEPT ![c].outcome = "conflict"]
              ELSE [r EXCEPT ![c].pc = "lookup"]
    /\ UNCHANGED <<repo, snap, nextId, told>>

-----------------------------------------------------------------------------
(* Awaits on the repository                                               *)

\* Mutant of LookupExisting: existing.id is not carried to the write (the
\* write uses the request's initial id instead).
LookupExistingNoId(c) ==
    LET n == req[c].name IN
    /\ req[c].pc = "lookup"
    /\ IF repo[n] = Absent
       THEN Finish(c, "not_found")
       ELSE req' = [req EXCEPT ![c].pc = "write"]
    /\ UNCHANGED <<repo, snap, nextId, sent, told>>

\* repository.get_by_name(&name).await in update and delete: 404 when the
\* name has no row, otherwise remember existing.id for the write.
LookupExisting(c) ==
    LET n == req[c].name IN
    /\ req[c].pc = "lookup"
    /\ IF repo[n] = Absent
       THEN Finish(c, "not_found")
       ELSE req' = [req EXCEPT ![c].existingId = repo[n].id, ![c].pc = "write"]
    /\ UNCHANGED <<repo, snap, nextId, sent, told>>

\* Mutant of RepoCreate: the new row starts at version 0.
RepoCreateVersionZero(c) ==
    LET n == req[c].name IN
    /\ req[c].pc = "write"
    /\ req[c].op = "create"
    /\ IF repo[n] # Absent
       THEN /\ Finish(c, "conflict")
            /\ UNCHANGED <<repo, nextId>>
       ELSE /\ repo' = [repo EXCEPT ![n] = [id |-> nextId, version |-> 0,
                                             config |-> req[c].payload]]
            /\ nextId' = nextId + 1
            /\ Await(c, "refresh")
    /\ UNCHANGED <<snap, sent, told>>

\* route_repository.create(request).await: Conflict (409) when the name is
\* taken, otherwise a new row at version 1 with a fresh id.
RepoCreate(c) ==
    LET n == req[c].name IN
    /\ req[c].pc = "write"
    /\ req[c].op = "create"
    /\ IF repo[n] # Absent
       THEN /\ Finish(c, "conflict")
            /\ UNCHANGED <<repo, nextId>>
       ELSE /\ repo' = [repo EXCEPT ![n] = [id |-> nextId, version |-> 1,
                                             config |-> req[c].payload]]
            /\ nextId' = nextId + 1
            /\ Await(c, "refresh")
    /\ UNCHANGED <<snap, sent, told>>

\* Does the row the handler looked up still hold name n?
SameRow(n, id) == repo[n] # Absent /\ repo[n].id = id

\* repository.update(&existing.id, ...).await: NotFound (404) when the id
\* is gone, otherwise the row's version is bumped and its config replaced.
RepoUpdate(c) ==
    LET n == req[c].name IN
    /\ req[c].pc = "write"
    /\ req[c].op = "update"
    /\ IF SameRow(n, req[c].existingId)
       THEN /\ repo' = [repo EXCEPT ![n] = [@ EXCEPT !.version = @ + 1,
                                                   !.config = req[c].payload]]
            /\ Await(c, "refresh")
       ELSE /\ Finish(c, "not_found")
            /\ UNCHANGED repo
    /\ UNCHANGED <<snap, nextId, sent, told>>

\* repository.delete(&existing.id).await: NotFound (404) when the id is
\* gone, otherwise every version of the row is removed.
RepoDelete(c) ==
    LET n == req[c].name IN
    /\ req[c].pc = "write"
    /\ req[c].op = "delete"
    /\ IF SameRow(n, req[c].existingId)
       THEN /\ repo' = [repo EXCEPT ![n] = Absent]
            /\ Await(c, "refresh")
       ELSE /\ Finish(c, "not_found")
            /\ UNCHANGED repo
    /\ UNCHANGED <<snap, nextId, sent, told>>

-----------------------------------------------------------------------------
(* The refresh after a committed write, and the response                   *)

\* xds_state.refresh_routes_from_repository().await succeeds: the snapshot
\* becomes the repository's current content and the handler answers 2xx.
RefreshOk(c) ==
    /\ req[c].pc = "refresh"
    /\ snap' = repo
    /\ told' = {}
    /\ Finish(c, "ok")
    /\ UNCHANGED <<repo, nextId, sent>>

\* Mutant of RefreshFail: the refresh error is logged and swallowed.
RefreshFailSwallowed(c) ==
    /\ RefreshMayFail
    /\ req[c].pc = "refresh"
    /\ Finish(c, "ok")
    /\ UNCHANGED <<repo, snap, nextId, sent, told>>

\* The refresh fails: the error is returned (5xx), the committed write is
\* not rolled back and the snapshot keeps its old content.
RefreshFail(c) ==
    /\ RefreshMayFail
    /\ req[c].pc = "refresh"
    /\ told' = told \cup {c}
    /\ Finish(c, "server_error")
    /\ UNCHANGED <<repo, snap, nextId, sent>>

\* The handler future is dropped while suspended at an await: whatever the
\* repository already committed stays, nothing after the await runs.
Cancel(c) ==
    /\ CanCancel
    /\ req[c].pc # "done"
    /\ Finish(c, "cancelled")
    /\ UNCHANGED <<repo, snap, nextId, sent, told>>

-----------------------------------------------------------------------------

Quiescent == \A c \in Clients : Idle(c)

\* Every request has been sent and answered: the server has nothing to do.
Terminated ==
    /\ Quiescent
    /\ sent = MaxRequests
    /\ UNCHANGED vars

\* Steps the server takes on a request already in flight.
Serve(c) ==
    \/ LookupExisting(c)
    \/ RepoCreate(c)
    \/ RepoUpdate(c)
    \/ RepoDelete(c)
    \/ RefreshOk(c)
    \/ RefreshFail(c)

Next ==
    \/ \E c \in Clients, n \in Names, p \in Configs \cup {BadPayload} :
          CreateRoute(c, n, p) \/ UpdateRoute(c, n, p)
    \/ \E c \in Clients, n \in Names : DeleteRoute(c, n)
    \/ \E c \in Clients : Serve(c) \/ Cancel(c)
    \/ Terminated

\* History: a request that arrives starts an empty record; every step adds
\* the state of the name of each request in flight after the step.
Arrived(c) == sent' # sent /\ req'[c] # req[c]

NameState(c) == IF repo'[req'[c].name] = Absent THEN "absent" ELSE "present"

RecordSeen ==
    seen' = [c \in Clients |->
               IF Arrived(c) THEN {NameState(c)}
               ELSE IF Idle(c) THEN seen[c]
               ELSE seen[c] \cup {NameState(c)}]

Spec == Init /\ [][Next /\ RecordSeen]_vars

-----------------------------------------------------------------------------
(* Properties                                                               *)

\* The snapshot the xDS server serves agrees with the repository.
Consistent == snap = repo

\* Refresh-after-write (spec.md 4.G, 5): when no request is in flight, the
\* served snapshot may differ from storage only if some client was told so
\* by a 5xx after its write committed (create_route_handler,
\* update_route_handler, delete_route_handler map a refresh error to an
\* ApiError).  A committed write whose refresh silently never ran breaks it.
StalenessIsReported == Quiescent /\ ~Consistent => told # {}

\* Recovery by retry (spec.md 4.G): once no request is in flight and no
\* client is left holding a 5xx (each retried until it got another answer),
\* the snapshot agrees with the repository.
ConvergesAfterRetries ==
    Quiescent /\ (\A c \in Clients : req[c].outcome # "server_error")
    => Consistent

\* Linearizable answers (spec.md 4.B, 4.C): update_route_handler and
\* delete_route_handler look the row up by name and then write by the id
\* they read (existing.id), so other handlers can delete, recreate or
\* update the name in between.  Whatever interleaving happened, a 404
\* must be the answer an atomic store gives at some moment while the
\* request ran (the name had no row then), and a create's 409 must be
\* given only if the name had a row at some such moment.
AnswersAreLinearizable ==
    \A c \in Clients : Idle(c) =>
        /\ req[c].outcome = "not_found" => "absent" \in seen[c]
        /\ req[c].outcome = "conflict" /\ req[c].op = "create" => "present" \in seen[c]

=============================================================================
