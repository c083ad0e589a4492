----------------------------- MODULE RequestPath -----------------------------
(***************************************************************************)
(* The way of concurrent requests through the application: the middleware  *)
(* chain of createApp, the limiter's own queries, authorization, the       *)
(* operation's query or retried transaction, and the answer - all of them  *)
(* sharing one connection pool.                                            *)
(*                                                                         *)
(* A request is at one step at a time.  At a database step it asks the     *)
(* pool for a connection, works on it and gives it back before it goes on. *)
(* The limiter's sweep of expired buckets and the ledger's sweep of        *)
(* expired keys run when they are due, which is left open here, and what   *)
(* becomes of them changes nothing.                                        *)
(***************************************************************************)
EXTENDS HttpRequests, ConnectionPool

CONSTANTS
    Requests,    \* the requests that are on their way
    Scenarios,   \* the requests and the deployments to start from
    MaxAttempts  \* DATABASE_TRANSACTION_RETRY_MAX_ATTEMPTS

\* How the program is configured.
Deployment ==
    [limiter : {"none", "fixed_window", "gcra"}, resolver : BOOLEAN, principal : Principals]

ASSUME ScenariosAssumption ==
    Scenarios \subseteq [requests : [Requests -> Request], deployment : Deployment]

ASSUME MaxAttemptsAssumption == MaxAttempts \in Nat \ {0}

VARIABLES
    request,     \* what each request asks
    deployment,  \* how the program is configured
    pc,          \* the step each request is at
    charged,     \* the quota and the client the limiter was asked about, <<>> if it was not
    admitted,    \* the limiter let it pass
    attempt,     \* the attempt the transaction manager is at
    runs,        \* operations begun on a connection
    retries,     \* db.transaction.retries
    exhausted,   \* db.transaction.retry.exhausted
    answer       \* the answer sent

requestVars == <<request, deployment, pc, charged, admitted, attempt, runs, retries, exhausted, answer>>
vars == <<requestVars, poolVars>>

\* The statements of the limiters: an upsert of the fixed window; an insert,
\* and if that finds a bucket an update, and if that is refused a read, of GCRA.
ConsumeSteps == {"bucketInsert", "bucketUpdate", "bucketSelect"}

Sweeps == {"limiterSweep", "ledgerSweep"}

DatabaseSteps == Sweeps \cup ConsumeSteps \cup {"operation"}

\* Each database step of a request is a caller of the pool of its own.
ASSUME CallersAssumption == Callers = Requests \X DatabaseSteps

Caller(r) == <<r, pc[r]>>

Steps == DatabaseSteps \cup {"arrived", "route", "backoff", "answered"}

Init ==
    /\ \E s \in Scenarios : request = s.requests /\ deployment = s.deployment
    /\ pc = [r \in Requests |-> "arrived"]
    /\ charged = [r \in Requests |-> <<>>]
    /\ admitted = [r \in Requests |-> FALSE]
    /\ attempt = [r \in Requests |-> 1]
    /\ runs = [r \in Requests |-> 0]
    /\ retries = [r \in Requests |-> 0]
    /\ exhausted = [r \in Requests |-> 0]
    /\ answer = [r \in Requests |-> NoAnswer]
    /\ PoolInit

GoTo(r, step) == pc' = [pc EXCEPT ![r] = step]

\* An answer passes the limiter's middleware on its way out, which adds the
\* quota to whatever a request it admitted is answered with.
Reply(r, a) ==
    /\ GoTo(r, "answered")
    /\ answer' = [answer EXCEPT ![r] =
           IF admitted[r] THEN [a EXCEPT !.headers = @ \cup {"RateLimit"}] ELSE a]

Client(r) == ClientAddress(request[r].peer, request[r].chain)

Limited(r) ==
    /\ deployment.limiter # "none"
    /\ Scope(request[r]) # NoScope
    /\ Client(r) # NoAddress

\* Request context and limiter: wrong credentials end the request before the
\* limiter sees it; no credentials, or no resolver, leave it anonymous.
Arrive(r) ==
    /\ pc[r] = "arrived"
    /\ IF deployment.resolver /\ request[r].bearer = "wrong"
       THEN Reply(r, RefusalAnswer(401)) /\ UNCHANGED charged
       ELSE IF Limited(r)
            THEN /\ \E step \in {"limiterSweep", "bucketInsert"} : GoTo(r, step)
                 /\ charged' = [charged EXCEPT ![r] = <<Scope(request[r]), Client(r)>>]
                 /\ UNCHANGED answer
            ELSE GoTo(r, "route") /\ UNCHANGED <<charged, answer>>
    /\ UNCHANGED <<request, deployment, admitted, attempt, runs, retries, exhausted, poolVars>>

Principal(r) ==
    IF deployment.resolver /\ request[r].bearer = "right" THEN deployment.principal ELSE NoPrincipal

\* Everything between the limiter and the operation: routing, body limit,
\* validation, authorization, precondition.
Dispatch(r) ==
    /\ pc[r] = "route"
    /\ LET refusal == FirstRefusal(request[r], Principal(r))
       IN  \/ refusal # Accepted /\ Reply(r, RefusalAnswer(refusal))
           \/ /\ refusal = Accepted /\ request[r].op \notin UserOperations
              /\ \E a \in SystemAnswers(request[r].op) : Reply(r, a)
           \/ /\ refusal = Accepted /\ request[r].op \in UserOperations
              /\ \E step \in {"operation"} \cup (IF Keyed(request[r]) THEN {"ledgerSweep"} ELSE {}) :
                     GoTo(r, step)
              /\ UNCHANGED answer
    /\ UNCHANGED <<request, deployment, charged, admitted, attempt, runs, retries, exhausted, poolVars>>

(***************************************************************************)
(* Database steps.  What comes after each of them depends on its outcome   *)
(* only, also when the outcome is that no connection was to be had.        *)
(***************************************************************************)

Transactional(r) == request[r].op = "create"

Outcomes(r) ==
    Failures \cup
    CASE pc[r] \in Sweeps        -> {"swept"}
      [] pc[r] = "bucketInsert"  -> IF deployment.limiter = "gcra" THEN {"allowed", "taken"}
                                                                  ELSE {"allowed", "denied"}
      [] pc[r] = "bucketUpdate"  -> {"allowed", "taken"}
      [] pc[r] = "bucketSelect"  -> {"denied"}
      [] pc[r] = "operation"     -> Results(request[r])

\* Retention is best effort.
AfterSweep(r) ==
    /\ GoTo(r, IF pc[r] = "limiterSweep" THEN "bucketInsert" ELSE "operation")
    /\ UNCHANGED <<admitted, attempt, retries, exhausted, answer>>

\* The limiter fails closed.
AfterConsume(r, outcome) ==
    /\ admitted' = [admitted EXCEPT ![r] = outcome = "allowed"]
    /\ CASE outcome = "allowed"    -> GoTo(r, "route") /\ UNCHANGED answer
         [] outcome = "taken"      ->
                /\ GoTo(r, IF pc[r] = "bucketInsert" THEN "bucketUpdate" ELSE "bucketSelect")
                /\ UNCHANGED answer
         [] outcome = "denied"     -> Reply(r, DeniedAnswer)
         [] outcome \in Failures   -> Reply(r, ErrorAnswer(FailureStatus(outcome), {}))
    /\ UNCHANGED <<attempt, retries, exhausted>>

\* DrizzleTransactionManager.run: serialization failures and deadlocks of a
\* transaction are tried again after a delay, so many times.
Retryable(r, outcome) == Transactional(r) /\ outcome = "retryable"

\* Mutant: one attempt too many.
ExhaustedLate(r) == attempt[r] > MaxAttempts

Exhausted(r) == attempt[r] >= MaxAttempts

AfterOperation(r, outcome) ==
    /\ IF Retryable(r, outcome) /\ ~Exhausted(r)
       THEN /\ GoTo(r, "backoff")
            /\ retries' = [retries EXCEPT ![r] = @ + 1]
            /\ UNCHANGED <<exhausted, answer>>
       ELSE /\ Reply(r, IF outcome \in Failures
                        THEN ErrorAnswer(FailureStatus(outcome), {})
                        ELSE ResultAnswer(request[r], outcome))
            /\ exhausted' = [exhausted EXCEPT ![r] = @ + (IF Retryable(r, outcome) THEN 1 ELSE 0)]
            /\ UNCHANGED retries
    /\ UNCHANGED <<admitted, attempt>>

After(r, outcome) ==
    /\ CASE pc[r] \in Sweeps       -> AfterSweep(r)
         [] pc[r] \in ConsumeSteps -> AfterConsume(r, outcome)
         [] pc[r] = "operation"    -> AfterOperation(r, outcome)
    /\ UNCHANGED <<request, deployment, charged>>

AskForConnection(r) ==
    /\ pc[r] \in DatabaseSteps
    /\ ~WithPool(Caller(r))
    /\ Connect(Caller(r))
    /\ UNCHANGED requestVars

ConnectionOpened(r) == Opened(Caller(r)) /\ UNCHANGED requestVars

ConnectionRefused(r) == OpenFails(Caller(r)) /\ After(r, "unavailable") /\ UNCHANGED runs

ConnectionTimesOut(r) == AcquireTimesOut(Caller(r)) /\ After(r, "unavailable") /\ UNCHANGED runs

\* A query that failed takes its connection with it; a transaction was rolled
\* back and returns its connection, unless that is what failed.
Breaks(r, outcome) ==
    IF pc[r] = "operation" /\ Transactional(r)
    THEN outcome = "unavailable"
    ELSE outcome \in Failures

\* Mutants: the delay before a retry is waited for within the transaction; the
\* ledger is swept on a second connection while the first one is kept.
WorkThroughDelay(r) ==
    /\ Holds(Caller(r))
    /\ \E outcome \in Outcomes(r) :
           /\ IF pc[r] = "operation" /\ Retryable(r, outcome) /\ ~Exhausted(r)
              THEN UNCHANGED poolVars
              ELSE Release(Caller(r), Breaks(r, outcome))
           /\ After(r, outcome)
           /\ runs' = [runs EXCEPT ![r] = @ + (IF pc[r] = "operation" THEN 1 ELSE 0)]

WorkOnTwoConnections(r) ==
    /\ Holds(Caller(r))
    /\ \E outcome \in Outcomes(r) :
           /\ CASE pc[r] = "ledgerSweep" -> UNCHANGED poolVars
                [] pc[r] = "operation" /\ Holds(<<r, "ledgerSweep">>) ->
                       /\ held' = {l \in held : l.caller[1] # r}
                       /\ idle' = idle + 2
                       /\ UNCHANGED <<size, pending, opening, abandoned>>
                [] OTHER -> Release(Caller(r), Breaks(r, outcome))
           /\ After(r, outcome)
           /\ runs' = [runs EXCEPT ![r] = @ + (IF pc[r] = "operation" THEN 1 ELSE 0)]

\* The step is done, whatever its outcome, and its connection given back.
Work(r) ==
    /\ Holds(Caller(r))
    /\ \E outcome \in Outcomes(r) :
           /\ Release(Caller(r), Breaks(r, outcome))
           /\ After(r, outcome)
           /\ runs' = [runs EXCEPT ![r] = @ + (IF pc[r] = "operation" THEN 1 ELSE 0)]

\* The delay is over.
Retry(r) ==
    /\ pc[r] = "backoff"
    /\ GoTo(r, "operation")
    /\ attempt' = [attempt EXCEPT ![r] = @ + 1]
    /\ UNCHANGED <<request, deployment, charged, admitted, runs, retries, exhausted, answer, poolVars>>

Pulse == PulseQueue /\ UNCHANGED requestVars

AbandonedConnection == AbandonedOpened /\ UNCHANGED requestVars

IdleConnectionLost == IdleLost /\ UNCHANGED requestVars

\* What a request does on its own account.
Proceed(r) ==
    \/ Arrive(r)
    \/ Dispatch(r)
    \/ AskForConnection(r)
    \/ ConnectionOpened(r)
    \/ ConnectionRefused(r)
    \/ Work(r)
    \/ Retry(r)

Next ==
    \/ \E r \in Requests : Proceed(r) \/ ConnectionTimesOut(r)
    \/ Pulse
    \/ AbandonedConnection
    \/ IdleConnectionLost

Spec == Init /\ [][Next]_vars

\* Every asynchronous call of the program is awaited and ends: an opening
\* connection by the connection timeout, a query by the statement timeout, a
\* delay by its timer; the pool serves its queue whenever it can.  That a
\* waiting caller's timeout fires is not assumed.
FairSpec ==
    /\ Spec
    /\ \A r \in Requests : WF_vars(Proceed(r))
    /\ WF_vars(Pulse)
    /\ WF_vars(AbandonedConnection)

(***************************************************************************)
(* Properties.                                                             *)
(***************************************************************************)

\* Every request is answered in the end, however few connections there are:
\* none holds one while it waits for another, and none is lost on the way.
RequestsAnswered == \A r \in Requests : <>(pc[r] = "answered")

\* A request only queues for, opens or holds a connection at the step it needs
\* it for, and one at a time: whatever a step's outcome - a failed sweep, a
\* refusal, a retry, a timeout - the request goes on without one.  The pool never
\* has more connections than it may, and the gauges tell how many are out.
Acquisitions == opening \cup held \cup Range(pending)

ConnectionsReturned ==
    /\ \A a \in Acquisitions : a.caller = Caller(a.caller[1])
    /\ \A r \in Requests : Cardinality({a \in Acquisitions : a.caller[1] = r}) <= 1
    /\ Gauges.idle + Gauges.used <= Gauges.max
    /\ Gauges.used - abandoned + Gauges.pending = Cardinality({r \in Requests : WithPool(Caller(r))})

\* db.client.connection.create_time is only recorded for an acquisition a
\* connection was really opened for: the guess taken before the acquisition
\* is not overtaken by what other requests do to the pool meanwhile.
CreateTimeHonest == \A l \in held : CreateTimeRecorded(l) => l.source = "new"

\* The retry telemetry tells what happened: as many retries as the operation
\* was begun again, never more than the configured attempts, never for
\* anything but a creation, and a creation answered "busy" for a failure
\* that could have been retried has used all of its attempts.
RetriesHonest ==
    \A r \in Requests :
        /\ runs[r] <= (IF Transactional(r) THEN MaxAttempts ELSE 1)
        /\ runs[r] <= retries[r] + 1 /\ retries[r] <= runs[r]
        /\ retries[r] + exhausted[r] <= runs[r]
        /\ exhausted[r] > 0 => /\ exhausted[r] = 1
                               /\ runs[r] = MaxAttempts
                               /\ answer[r].status = 503

\* An operation is begun only for a request that passed every check: its
\* principal has a tenant and the operation's scope, and the limiter - where
\* there is one and the client is known - admitted it under the quota of its
\* operation and for the client the nearest trusted hop vouches for, which
\* is the same whatever the client put in front of the chain itself.
OnlyAdmitted ==
    \A r \in Requests :
        runs[r] > 0 =>
            LET q == request[r]
            IN  /\ Principal(r) # NoPrincipal
                /\ Principal(r).tenant /\ RequiredScope(q.op) \in Principal(r).scopes
                /\ ~q.large /\ q.input = "valid" /\ (q.op \in WithBody => q.json)
                /\ deployment.limiter # "none" /\ q.peer # NoAddress =>
                       /\ admitted[r]
                       /\ charged[r][1] = Scope(q)
                       /\ \/ charged[r][2] = q.peer
                          \/ Range(q.chain) \subseteq Proxies
                          \/ \A forged \in Proxies \cup Outsiders \cup {NotAnAddress} :
                                 ClientAddress(q.peer, <<forged>> \o q.chain)
                                     \in {charged[r][2], q.peer}

\* The contract is kept: what a user operation answers is declared for it,
\* with the headers and the cache directive declared; what it refuses is
\* never stored by a cache.  Internal errors (500: an unexpected failure, and a
\* body that is not JSON) and the body limit (413), which the routes without a
\* body do not declare, are apart.
ContractKept ==
    \A r \in Requests :
        (pc[r] = "answered" /\ request[r].op \in UserOperations) =>
            LET a == answer[r]
                plain == Answer(a.status, a.cache, a.headers \ {"RateLimit"})
            IN  \/ plain \in Route(request[r].op).successes
                \/ /\ a.status \in Route(request[r].op).refusals \cup {413, 500}
                   /\ a.cache = "no-store"
                   /\ a.status = 429 => RateLimitExceededResponseHeaders \subseteq a.headers

===============================================================================
