---------------------- MODULE FixedWindowRateLimiter ----------------------
(***************************************************************************)
(* PostgresFixedWindowRateLimiter.consume, over one table shared by all    *)
(* replicas: an occasional cleanup of expired rows, then one upsert.       *)
(*                                                                         *)
(* The upsert reads now(), which is when its statement began, and may wait *)
(* for the row lock of a cleanup or of another upsert, so it judges the    *)
(* window that it finds by a clock that is late, and a row that it inserts *)
(* opens a window in the past.  An upsert is over MaxWait ticks after it   *)
(* began, as the session has a lock_timeout and a statement_timeout: one   *)
(* that still waits then is cancelled.  All identities have one policy.    *)
(***************************************************************************)
EXTENDS DatabaseTime, FiniteSets

CONSTANTS
  Requests,                \* calls of consume, each made once
  Identities, IdentityOf,  \* (scope, identity_hash) of a request
  Limit, Window,           \* policy.limit; policy.windowSeconds, in ticks
  CleanupBatch,            \* CLEANUP_BATCH_SIZE
  MaxWait,                 \* lock_timeout, statement_timeout: the longest upsert
  MaxClock                 \* bound of the exploration

ASSUME Shapes == IdentityOf \in [Requests -> Identities]
ASSUME Numbers ==
  /\ Limit \in Nat \ {0} /\ Window \in Nat \ {0}
  /\ Window % Second = 0
  /\ CleanupBatch \in Nat \ {0}
  /\ MaxWait \in Nat
  /\ MaxClock \in Nat

Instants == 0 .. MaxClock

VARIABLES
  buckets,   \* rows [id, count, exp]
  clock,     \* clock_timestamp()
  pc,
  cleaning,  \* rows a request's cleanup has locked and deleted, uncommitted
  now,       \* now() of a request's upsert
  answer,    \* the decision, when and for which window it was taken
  since      \* history: requests of an identity allowed at or after an instant

vars == <<buckets, clock, pc, cleaning, now, answer, since>>

\* window_started_at, which nothing reads, is exp - Window.
Row == [id : Identities, count : Nat \ {0}, exp : Nat]

Places == {"idle", "cleanup", "clean", "start", "upsert", "done", "failed"}

\* "total" is the number of requests of the identity allowed up to the answer.
Answer == [allowed : BOOLEAN, at : Instants, total : Nat, exp : Nat,
           remaining : 0 .. Limit, reset : Nat \ {0}]

\* Every variable has its type.
TypeOK ==
  /\ buckets \subseteq Row
  /\ clock \in Instants
  /\ pc \in [Requests -> Places]
  /\ cleaning \in [Requests -> SUBSET Row]
  /\ now \in [Requests -> Instants]
  /\ answer \in [Requests -> SUBSET Answer]
  /\ since \in [Identities -> [Instants -> Nat]]

Init ==
  /\ buckets = {}
  /\ clock = 0
  /\ pc = [r \in Requests |-> "idle"]
  /\ cleaning = [r \in Requests |-> {}]
  /\ now = [r \in Requests |-> 0]
  /\ answer = [r \in Requests |-> {}]
  /\ since = [i \in Identities |-> [t \in Instants |-> 0]]

-----------------------------------------------------------------------------
Goto(r, place) == pc' = [pc EXCEPT ![r] = place]

BucketsOf(r) == {b \in buckets : b.id = IdentityOf[r]}

Locked == UNION {cleaning[q] : q \in Requests}

\* resetAfterSeconds, and retryAfterSeconds of a denial
ResetAfter(exp) == WholeSeconds(Until(exp, clock))

Remaining(count) == Later(0, Limit - count)

\* Whether this replica's cleanup is due depends on its own clock.
Consume(r) ==
  /\ pc[r] = "idle"
  /\ Goto(r, "cleanup") \/ Goto(r, "start")
  /\ UNCHANGED <<buckets, clock, cleaning, now, answer, since>>

\* Mutant: a row goes although its window is open.
ExpiredSoon == {b \in buckets : b.exp <= clock + Window}

Expired == {b \in buckets : b.exp <= clock}

\* The oldest expired rows nobody has locked are deleted, at most CleanupBatch.
CleanupDelete(r) ==
  /\ pc[r] = "cleanup"
  /\ LET free == Expired \ Locked IN
     \E batch \in SUBSET free :
       /\ \/ batch = free /\ Cardinality(free) <= CleanupBatch
          \/ Cardinality(batch) = CleanupBatch
       /\ \A b \in batch, c \in free \ batch : b.exp <= c.exp
       /\ cleaning' = [cleaning EXCEPT ![r] = batch]
  /\ Goto(r, "clean")
  /\ UNCHANGED <<buckets, clock, now, answer, since>>

\* The deletion is committed, or it fails, which is swallowed.
CleanupEnd(r) ==
  /\ pc[r] = "clean"
  /\ buckets' \in {buckets \ cleaning[r], buckets}
  /\ cleaning' = [cleaning EXCEPT ![r] = {}]
  /\ Goto(r, "start")
  /\ UNCHANGED <<clock, now, answer, since>>

\* The statement of the upsert begins.
Start(r) ==
  /\ pc[r] = "start"
  /\ now' = [now EXCEPT ![r] = clock]
  /\ Goto(r, "upsert")
  /\ UNCHANGED <<buckets, clock, cleaning, answer, since>>

\* Mutant: the window ends windowSeconds after the last request.
BumpedSliding(r, b) ==
  IF b.exp <= now[r] THEN [b EXCEPT !.count = 1, !.exp = now[r] + Window]
                     ELSE [b EXCEPT !.count = b.count + 1, !.exp = now[r] + Window]

\* What the upsert makes of the row b it has locked: "expired" resets the window.
Bumped(r, b) ==
  IF b.exp <= now[r] THEN [b EXCEPT !.count = 1, !.exp = now[r] + Window]
                     ELSE [b EXCEPT !.count = b.count + 1]

\* The identity is allowed one request more.
OneMore(i) ==
  [since EXCEPT ![i] =
     [t \in Instants |-> IF t <= clock THEN since[i][t] + 1 ELSE since[i][t]]]

\* The decision on the returned row
Decide(r, b) ==
  /\ since' = IF b.count <= Limit THEN OneMore(IdentityOf[r]) ELSE since
  /\ answer' = [answer EXCEPT ![r] =
       {[allowed |-> b.count <= Limit, at |-> clock, total |-> since'[IdentityOf[r]][0],
         exp |-> b.exp, remaining |-> Remaining(b.count), reset |-> ResetAfter(b.exp)]}]

\* INSERT ... ON CONFLICT DO UPDATE, on the newest version of the row
Upsert(r) ==
  /\ pc[r] = "upsert"
  /\ BucketsOf(r) \intersect Locked = {}
  /\ \/ /\ BucketsOf(r) = {}
        /\ LET b == [id |-> IdentityOf[r], count |-> 1, exp |-> now[r] + Window] IN
           buckets' = buckets \union {b} /\ Decide(r, b)
     \/ \E b \in BucketsOf(r) :
          /\ buckets' = (buckets \ {b}) \union {Bumped(r, b)}
          /\ Decide(r, Bumped(r, b))
  /\ Goto(r, "done")
  /\ UNCHANGED <<clock, cleaning, now>>

\* The upsert is cancelled while it waits, and the limiter throws.
UpsertTimesOut(r) ==
  /\ pc[r] = "upsert"
  /\ BucketsOf(r) \intersect Locked # {}
  /\ clock = now[r] + MaxWait
  /\ Goto(r, "failed")
  /\ UNCHANGED <<buckets, clock, cleaning, now, answer, since>>

\* Time passes, except that an upsert is not longer than MaxWait.
Tick ==
  /\ clock < MaxClock
  /\ \A r \in Requests : pc[r] = "upsert" => clock < now[r] + MaxWait
  /\ clock' = clock + 1
  /\ UNCHANGED <<buckets, pc, cleaning, now, answer, since>>

Finished == (\A r \in Requests : pc[r] \in {"done", "failed"}) /\ UNCHANGED vars

Step(r) ==
  \/ Consume(r) \/ CleanupDelete(r) \/ CleanupEnd(r)
  \/ Start(r) \/ Upsert(r) \/ UpsertTimesOut(r)

Next == (\E r \in Requests : Step(r)) \/ Tick \/ Finished

Spec == Init /\ [][Next]_vars
-----------------------------------------------------------------------------
\* No interval shorter than a window, less the time an upsert may take, admits twice
\* the limit: it cannot hold two openings of a window, whatever cleanups and late now() do.
WindowQuota ==
  \A i \in Identities, t \in 0 .. clock :
    clock - t < Window - MaxWait => since[i][t] < 2 * Limit

\* A request is denied only if the limit was used up in the last window, or as
\* much longer as its upsert took.
NoEarlyDenial ==
  [][\A r \in Requests : \A a \in answer'[r] \ answer[r] :
       ~a.allowed => \E t \in Instants :
         clock - t < Window + MaxWait /\ since[IdentityOf[r]][t] >= Limit]_vars

\* Retry-After and the reset time tell the truth, to the millisecond that the
\* conversion loses: a request made after it finds a new window, unless somebody of
\* the identity was allowed meanwhile.
RetryAfterHonest ==
  \A r \in Requests : \A a \in answer[r] :
    a.total = since[IdentityOf[r]][0] /\ Waited(a.at, a.reset, clock)
    => BucketsOf(r) \subseteq Expired
=============================================================================
