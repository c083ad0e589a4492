----------------------------- MODULE HttpRequests -----------------------------
(***************************************************************************)
(* What the HTTP layer decides about one request without looking at any    *)
(* other: which quota it is charged to, which client it comes from, which  *)
(* check refuses it first, and what the answer to it carries.              *)
(***************************************************************************)
EXTENDS Naturals, Sequences, FiniteSets, SequencesExt

CONSTANTS
    Proxies,      \* addresses inside HTTP_TRUSTED_PROXY_CIDRS
    Outsiders,    \* addresses outside of them
    NoAddress,    \* no address is known
    NotAnAddress, \* text that does not parse as one
    MaxHops       \* hops of X-Forwarded-For that are read

UserOperations == {"create", "list", "cursor", "update", "delete", "get"}

Conditional == {"update", "delete"}

WithBody == {"create", "update"}

\* "unknown" has no route, "wrongMethod" is a path without that method, and
\* "patchCursor" is PATCH /users/cursor, which the route of /users/{id} serves.
Operations == UserOperations
    \cup {"live", "health", "ready", "document", "unknown", "wrongMethod", "patchCursor"}

Addresses == Proxies \cup Outsiders \cup {NoAddress, NotAnAddress}

\* A "wrongMethod" request is within the body limit: which of the two
\* refusals comes first is up to the framework.
Request ==
    [op        : Operations,
     peer      : Addresses,                        \* the address of the connection
     chain     : Seq(Addresses \ {NoAddress}),     \* the hops of X-Forwarded-For
     bearer    : {"absent", "wrong", "right"},
     large     : BOOLEAN,                          \* the body is over the limit
     json      : BOOLEAN,                          \* the body, where one is read, parses
     input     : {"valid", "invalid"},             \* against the route's schemas
     condition : {"absent", "given", "malformed"}] \* If-Match, If-None-Match, Idempotency-Key

(***************************************************************************)
(* Quotas and clients.                                                     *)
(***************************************************************************)

NoScope == "none"

\* The quota a request is charged to: none for the health routes, and the
\* general one for a path that merely looks like a user's.
Scope(q) ==
    CASE q.op \in {"live", "health", "ready"}         -> NoScope
      [] q.op \in {"create", "update", "delete"}      -> "http.users.write"
      [] q.op \in {"list", "cursor", "get"}           -> "http.users.read"
      [] q.op \in {"unknown", "wrongMethod", "patchCursor", "document"}
                                                      -> "http.global"

\* The chain is read as a whole or not at all.
ReadableChain(chain) ==
    /\ Len(chain) \in 1 .. MaxHops
    /\ NotAnAddress \notin Range(chain)

\* Mutant: the chain is searched from the left.
ClientAddressFromLeft(peer, chain) ==
    IF peer \notin Proxies \/ ~ReadableChain(chain)
    THEN peer
    ELSE LET outside == {i \in DOMAIN chain : chain[i] \notin Proxies}
         IN  chain[IF outside = {} THEN 1 ELSE Min(outside)]

\* A peer outside the trusted networks speaks for itself; a trusted one for
\* the nearest hop that is not, or for the farthest when all of them are.
ClientAddress(peer, chain) ==
    IF peer \notin Proxies \/ ~ReadableChain(chain)
    THEN peer
    ELSE LET outside == {i \in DOMAIN chain : chain[i] \notin Proxies}
         IN  chain[IF outside = {} THEN 1 ELSE Max(outside)]

(***************************************************************************)
(* Refusals, in the order in which they are looked for.                    *)
(***************************************************************************)

\* A principal may have a tenant; some of its scopes are asked for.
Principals == [tenant : BOOLEAN, scopes : SUBSET {"users:read", "users:write"}]

\* Nobody: no principal has this scope.
NoPrincipal == [tenant |-> FALSE, scopes |-> {"anonymous"}]

Accepted == 0   \* no check refuses the request

Refusal(when, status) == IF when THEN <<status>> ELSE <<>>

RoutingRefusals(q) == Refusal(q.op = "wrongMethod", 405)

UnknownPathRefusals(q) == Refusal(q.op = "unknown", 404)

BodyRefusals(q) == Refusal(q.large, 413)

\* An update that names no field already fails its schema.  The body is parsed last;
\* what the framework throws at it is no AppError, and so an internal error.
ValidationRefusals(q) ==
       Refusal(q.op = "patchCursor" \/ q.input = "invalid", 400)
    \o Refusal(q.op \in WithBody /\ ~q.json, 500)

EntityTagRefusals(q) == Refusal(q.op \in Conditional /\ q.condition = "malformed", 400)

RequiredScope(op) == IF op \in {"create", "update", "delete"} THEN "users:write" ELSE "users:read"

TenantRefusals(q, principal) ==
       Refusal(principal = NoPrincipal, 401)
    \o Refusal(~principal.tenant, 403)
    \o Refusal(RequiredScope(q.op) \notin principal.scopes, 403)

PreconditionRefusals(q) == Refusal(q.op \in Conditional /\ q.condition = "absent", 428)

\* The status of the first refusal between the limiter and the operation.
FirstRefusal(q, principal) ==
    LET inOrder ==    RoutingRefusals(q) \o BodyRefusals(q) \o UnknownPathRefusals(q)
                   \o ValidationRefusals(q) \o EntityTagRefusals(q)
                   \o (IF q.op \in UserOperations
                       THEN TenantRefusals(q, principal) \o PreconditionRefusals(q)
                       ELSE <<>>)
    IN  IF inOrder = <<>> THEN Accepted ELSE Head(inOrder)

(***************************************************************************)
(* Answers: a status, the Cache-Control directive and the other headers.   *)
(***************************************************************************)

Answer(status, cache, headers) == [status |-> status, cache |-> cache, headers |-> headers]

NoAnswer == Answer(0, "unset", {})

\* An error replaces the directive the handler may have set, and keeps the
\* other headers it set.
ErrorAnswer(status, headers) == Answer(status, "no-store", headers)

RefusalAnswer(status) == ErrorAnswer(status, IF status = 405 THEN {"Allow"} ELSE {})

DeniedAnswer == ErrorAnswer(429, {"RateLimit", "Retry-After"})

\* The answers of the routes that ask nothing of the pool in this model.
SystemAnswers(op) ==
    CASE op \in {"live", "health"} -> {Answer(200, "no-store", {})}
      [] op = "ready"              -> {Answer(s, "no-store", {}) : s \in {200, 503}}
      [] op = "document"           -> {Answer(200, "unset", {})}

\* How the database can fail, and the status each failure is turned into.
Failures == {"retryable", "lockTimeout", "statementTimeout", "unavailable", "unexpected"}

FailureStatus(failure) ==
    CASE failure \in {"retryable", "lockTimeout", "unavailable"} -> 503
      [] failure = "statementTimeout"                            -> 504
      [] failure = "unexpected"                                  -> 500

\* What the operation can find in the database.
Keyed(q) == q.op = "create" /\ q.condition = "given"

Results(q) ==
    CASE q.op = "create" -> {"created", "conflict"}
                            \cup (IF Keyed(q) THEN {"replayed", "reused", "inconsistent"} ELSE {})
      [] q.op = "list"   -> {"lastPage"}
      [] q.op = "cursor" -> {"page", "lastPage"}
      [] q.op = "update" -> {"changed", "missing", "stale", "conflict"}
      [] q.op = "delete" -> {"deleted", "missing", "stale"}
      [] q.op = "get"    -> {"found", "missing"}
                            \cup (IF q.condition = "given" THEN {"unchanged"} ELSE {})

ResultStatus(result) ==
    CASE result \in {"conflict"}     -> 409
      [] result = "missing"          -> 404
      [] result = "stale"            -> 412
      [] result = "reused"           -> 422
      [] result = "inconsistent"     -> 500

CreateAnswer == Answer(201, "private, no-store", {"Location", "ETag"})

ListAnswer == Answer(200, "private, no-store", {})

CursorAnswer(result) ==
    Answer(200, "private, no-store", IF result = "page" THEN {"Link"} ELSE {})

UpdateAnswer == Answer(200, "private, no-store", {"ETag"})

DeleteAnswer == Answer(204, "private, no-store", {})

\* Mutant: the error keeps the directive of the representation.
GetAnswerStorable(q, result) ==
    Answer(CASE q.condition = "malformed" -> 400 [] result = "unchanged" -> 304 [] OTHER -> 200,
           "private, no-cache", {"ETag", "Vary"})

\* If-None-Match is only parsed once the user has been read and the headers
\* of the representation are set.
GetAnswer(q, result) ==
    IF q.condition = "malformed"
    THEN ErrorAnswer(400, {"ETag", "Vary"})
    ELSE Answer(IF result = "unchanged" THEN 304 ELSE 200, "private, no-cache", {"ETag", "Vary"})

ResultAnswer(q, result) ==
    CASE result \in {"created", "replayed"}     -> CreateAnswer
      [] q.op = "list"                          -> ListAnswer
      [] q.op = "cursor"                        -> CursorAnswer(result)
      [] result = "changed"                     -> UpdateAnswer
      [] result = "deleted"                     -> DeleteAnswer
      [] result \in {"found", "unchanged"}      -> GetAnswer(q, result)
      [] OTHER                                  -> ErrorAnswer(ResultStatus(result), {})

(***************************************************************************)
(* What the OpenAPI contract declares: for each operation the answers that *)
(* succeed, with the headers each carries, and the statuses that refuse.   *)
(***************************************************************************)

DatabaseFailureResponses == {503, 504}

RateLimitExceededResponseHeaders == {"RateLimit", "Retry-After"}

CreateUserRoute ==
    [successes |-> {Answer(201, "private, no-store", {"ETag", "Location"})},
     refusals  |-> {400, 401, 403, 409, 413, 422, 429} \cup DatabaseFailureResponses]

ListUsersRoute ==
    [successes |-> {Answer(200, "private, no-store", {})},
     refusals  |-> {400, 401, 403, 429} \cup DatabaseFailureResponses]

\* The Link header is declared as omitted on the final page.
ListUsersCursorRoute ==
    [successes |-> {Answer(200, "private, no-store", h) : h \in {{}, {"Link"}}},
     refusals  |-> {400, 401, 403, 429} \cup DatabaseFailureResponses]

UpdateUserRoute ==
    [successes |-> {Answer(200, "private, no-store", {"ETag"})},
     refusals  |-> {400, 401, 403, 404, 409, 412, 413, 428, 429} \cup DatabaseFailureResponses]

DeleteUserRoute ==
    [successes |-> {Answer(204, "private, no-store", {})},
     refusals  |-> {400, 401, 403, 404, 412, 428, 429} \cup DatabaseFailureResponses]

GetUserRoute ==
    [successes |-> {Answer(s, "private, no-cache", {"ETag", "Vary"}) : s \in {200, 304}},
     refusals  |-> {400, 401, 403, 404, 429} \cup DatabaseFailureResponses]

Route(op) ==
    CASE op = "create" -> CreateUserRoute
      [] op = "list"   -> ListUsersRoute
      [] op = "cursor" -> ListUsersCursorRoute
      [] op = "update" -> UpdateUserRoute
      [] op = "delete" -> DeleteUserRoute
      [] op = "get"    -> GetUserRoute

===============================================================================
