-------------------------- MODULE GcraRateLimiter --------------------------
(***************************************************************************)
(* PostgresGcraRateLimiter.consume, over one table shared by all replicas. *)
(*                                                                         *)
(* A decision is up to three autocommitted statements, INSERT, UPDATE and  *)
(* SELECT, with no transaction around them, after an occasional cleanup of *)
(* expired rows.  A statement that meets a row a cleanup is deleting waits *)
(* for it.  A row of the table has the theoretical arrival time of its     *)
(* identity; expires_at, set by the same expression, is taken to equal it. *)
(* All identities have one policy.                                         *)
(*                                                                         *)
(* An INSERT or UPDATE writes what it has computed before it waited.  The  *)
(* lock_timeout and statement_timeout of the session bound the wait, which *)
(* may be longer than an emission interval.                                *)
(***************************************************************************)
EXTENDS DatabaseTime, FiniteSets

CONSTANTS
  Requests,                \* calls of consume, each made once
  Identities, IdentityOf,  \* (scope, identity_hash) of a request
  Limit, Interval,         \* policy.limit; windowSeconds / limit, in ticks
  CleanupBatch,            \* CLEANUP_BATCH_SIZE
  MaxWait,                 \* lock_timeout, statement_timeout: the longest wait
  MaxClock                 \* bound of the exploration

ASSUME Shapes == IdentityOf \in [Requests -> Identities]
ASSUME Numbers ==
  /\ Limit \in Nat \ {0} /\ Interval \in Nat \ {0} /\ CleanupBatch \in Nat \ {0}
  /\ MaxWait \in Nat /\ MaxClock \in Nat

\* burstToleranceSeconds
Tolerance == Interval * (Limit - 1)

Instants == 0 .. MaxClock

VARIABLES
  buckets,   \* rows [id, tat, gen]; gen tells the rows of one identity apart
  gens,      \* rows inserted so far, per identity
  clock,     \* clock_timestamp()
  pc,
  cleaning,  \* rows a request's cleanup has locked and deleted, uncommitted
  arrived,   \* clock_timestamp() in the new values a statement has computed
  seen,      \* the row version an UPDATE found (at most one)
  answer,    \* the decision, when it was taken (none if the limiter threw)
  since,     \* history: requests of an identity allowed at or after an instant
  last,      \* history: the theoretical arrival time last written for an identity
  forgiven   \* history: debt of an identity that late INSERTs have lost

history == <<since, last, forgiven>>
vars == <<buckets, gens, clock, pc, cleaning, arrived, seen, answer, history>>

Row == [id : Identities, tat : Nat, gen : Nat]

Places == {"idle", "cleanup", "clean", "insert", "wait", "update", "apply",
           "select", "done", "failed"}

\* "total" is the number of requests of the identity allowed up to the answer.
Answer ==
  [kind : {"allowed"}, at : Nat, total : Nat, remaining : 0 .. Limit, reset : Nat \ {0}]
    \union
  [kind : {"denied"}, at : Nat, total : Nat, retryAfter : Nat \ {0}, reset : Nat \ {0}]

\* Every variable has its type.
TypeOK ==
  /\ buckets \subseteq Row
  /\ gens \in [Identities -> Nat]
  /\ clock \in Instants
  /\ pc \in [Requests -> Places]
  /\ cleaning \in [Requests -> SUBSET Row]
  /\ arrived \in [Requests -> Nat]
  /\ seen \in [Requests -> SUBSET Row]
  /\ answer \in [Requests -> SUBSET Answer]
  /\ since \in [Identities -> [Instants -> Nat]]
  /\ last \in [Identities -> Nat]
  /\ forgiven \in [Identities -> Nat]

Init ==
  /\ buckets = {}
  /\ gens = [i \in Identities |-> 0]
  /\ clock = 0
  /\ pc = [r \in Requests |-> "idle"]
  /\ cleaning = [r \in Requests |-> {}]
  /\ arrived = [r \in Requests |-> 0]
  /\ seen = [r \in Requests |-> {}]
  /\ answer = [r \in Requests |-> {}]
  /\ since = [i \in Identities |-> [t \in Instants |-> 0]]
  /\ last = [i \in Identities |-> 0]
  /\ forgiven = [i \in Identities |-> 0]

-----------------------------------------------------------------------------
Goto(r, place) == pc' = [pc EXCEPT ![r] = place]

BucketsOf(r) == {b \in buckets : b.id = IdentityOf[r]}

Locked == UNION {cleaning[q] : q \in Requests}

Earlier(a, b) == IF a < b THEN a ELSE b

Debt(tat) == Later(0, Until(tat, clock))

\* floor((tolerance - debt) / interval) + 1, between 0 and limit
Remaining(tat) ==
  IF Debt(tat) > Tolerance THEN 0 ELSE (Tolerance - Debt(tat)) \div Interval + 1

\* The identity of r is allowed one request more, as of the instant "at".  A row that
\* takes the place of a deleted one knows nothing of what fell due since that instant.
Allow(r, tat, at) ==
  LET i == IdentityOf[r] IN
  /\ since' = [since EXCEPT ![i] = [t \in Instants |->
                 IF t <= at THEN since[i][t] + 1 ELSE since[i][t]]]
  /\ last' = [last EXCEPT ![i] = tat]
  /\ forgiven' = [forgiven EXCEPT ![i] =
                    @ + Later(0, Earlier(last[i], clock) + Interval - tat)]
  /\ answer' = [answer EXCEPT ![r] =
       {[kind |-> "allowed", at |-> clock, total |-> since[i][0] + 1,
         remaining |-> Remaining(tat), reset |-> WholeSeconds(Debt(tat))]}]
  /\ Goto(r, "done")

\* Whether this replica's cleanup is due depends on its own clock.
Consume(r) ==
  /\ pc[r] = "idle"
  /\ Goto(r, "cleanup") \/ Goto(r, "insert")
  /\ UNCHANGED <<buckets, gens, clock, cleaning, arrived, seen, answer, history>>

\* Mutant: a row counts as expired while its burst is not restored.
ExpiredSoon == {b \in buckets : b.tat <= clock + Tolerance}

Expired == {b \in buckets : b.tat <= clock}

\* The oldest expired rows nobody has locked are deleted, at most CleanupBatch.
CleanupDelete(r) ==
  /\ pc[r] = "cleanup"
  /\ LET free == Expired \ Locked IN
     \E batch \in SUBSET free :
       /\ \/ batch = free /\ Cardinality(free) <= CleanupBatch
          \/ Cardinality(batch) = CleanupBatch
       /\ \A b \in batch, c \in free \ batch : b.tat <= c.tat
       /\ cleaning' = [cleaning EXCEPT ![r] = batch]
  /\ Goto(r, "clean")
  /\ UNCHANGED <<buckets, gens, clock, arrived, seen, answer, history>>

\* The deletion is committed, or it fails, which is swallowed.
CleanupEnd(r) ==
  /\ pc[r] = "clean"
  /\ buckets' \in {buckets \ cleaning[r], buckets}
  /\ cleaning' = [cleaning EXCEPT ![r] = {}]
  /\ Goto(r, "insert")
  /\ UNCHANGED <<gens, clock, arrived, seen, answer, history>>

InsertRow(r, at) ==
  LET i == IdentityOf[r] IN
  /\ buckets' = buckets \union {[id |-> i, tat |-> at + Interval, gen |-> gens[i] + 1]}
  /\ gens' = [gens EXCEPT ![i] = gens[i] + 1]
  /\ Allow(r, at + Interval, at)

\* INSERT ... ON CONFLICT DO NOTHING, its values computed first
Insert(r) ==
  /\ pc[r] = "insert"
  /\ \/ /\ BucketsOf(r) = {}
        /\ InsertRow(r, clock)
        /\ UNCHANGED arrived
     \/ /\ BucketsOf(r) # {} /\ BucketsOf(r) \intersect Locked = {}
        /\ Goto(r, "update")
        /\ UNCHANGED <<buckets, gens, arrived, answer, history>>
     \/ /\ BucketsOf(r) \intersect Locked # {}
        /\ arrived' = [arrived EXCEPT ![r] = clock]
        /\ Goto(r, "wait")
        /\ UNCHANGED <<buckets, gens, answer, history>>
  /\ UNCHANGED <<clock, cleaning, seen>>

\* The cleanup the INSERT waited for is over.
InsertAfterWait(r) ==
  /\ pc[r] = "wait"
  /\ BucketsOf(r) \intersect Locked = {}
  /\ \/ /\ BucketsOf(r) = {}
        /\ InsertRow(r, arrived[r])
     \/ /\ BucketsOf(r) # {}
        /\ Goto(r, "update")
        /\ UNCHANGED <<buckets, gens, answer, history>>
  /\ UNCHANGED <<clock, cleaning, arrived, seen>>

\* Mutant: lt instead of lte.
ConformingStrict(b) == b.tat < clock + Tolerance

Conforming(b) == b.tat <= clock + Tolerance

\* UPDATE ... WHERE theoretical_arrival_at <= clock_timestamp() + tolerance: the
\* row its snapshot shows, and the values to set are computed
UpdateScan(r) ==
  /\ pc[r] = "update"
  /\ \/ \E b \in BucketsOf(r) :
          /\ Conforming(b)
          /\ seen' = [seen EXCEPT ![r] = {b}]
          /\ arrived' = [arrived EXCEPT ![r] = clock]
          /\ Goto(r, "apply")
     \/ /\ \A b \in BucketsOf(r) : ~Conforming(b)
        /\ Goto(r, "select")
        /\ UNCHANGED <<seen, arrived>>
  /\ UNCHANGED <<buckets, gens, clock, cleaning, answer, history>>

\* The newest versions of the row that the UPDATE of r has found: none when it
\* was deleted, even if another row of the identity took its place.
NewestSeen(r) == {b \in BucketsOf(r) : \E s \in seen[r] : s.gen = b.gen}

\* theoretical_arrival_at = greatest(theoretical_arrival_at, at) + interval
Advance(r, b, at) ==
  LET tat == Later(b.tat, at) + Interval IN
  /\ buckets' = (buckets \ {b}) \union {[b EXCEPT !.tat = tat]}
  /\ Allow(r, tat, at)

\* The row is locked.  If somebody has updated it since, the WHERE clause and the
\* values are evaluated again on the newest version.
UpdateApply(r) ==
  /\ pc[r] = "apply"
  /\ BucketsOf(r) \intersect Locked = {}
  /\ \/ \E b \in NewestSeen(r) : b \in seen[r] /\ Advance(r, b, arrived[r])
     \/ \E b \in NewestSeen(r) : b \notin seen[r] /\ Conforming(b) /\ Advance(r, b, clock)
     \/ /\ \A b \in NewestSeen(r) : b \notin seen[r] /\ ~Conforming(b)
        /\ Goto(r, "select")
        /\ UNCHANGED <<buckets, answer, history>>
  /\ UNCHANGED <<gens, clock, cleaning, arrived, seen>>

\* SELECT for the denial; without a row the limiter throws.
Select(r) ==
  /\ pc[r] = "select"
  /\ \/ \E b \in BucketsOf(r) :
          /\ answer' = [answer EXCEPT ![r] =
               {[kind |-> "denied", at |-> clock, total |-> since[IdentityOf[r]][0],
                 retryAfter |-> WholeSeconds(Debt(b.tat) - Tolerance),
                 reset |-> WholeSeconds(Debt(b.tat))]}]
          /\ Goto(r, "done")
     \/ BucketsOf(r) = {} /\ Goto(r, "failed") /\ UNCHANGED answer
  /\ UNCHANGED <<buckets, gens, clock, cleaning, arrived, seen, history>>

\* The statement is cancelled while it waits, and the limiter throws.
LockTimesOut(r) ==
  /\ pc[r] \in {"wait", "apply"}
  /\ BucketsOf(r) \intersect Locked # {}
  /\ clock = arrived[r] + MaxWait
  /\ Goto(r, "failed")
  /\ UNCHANGED <<buckets, gens, clock, cleaning, arrived, seen, answer, history>>

\* Time passes, except that a statement is not longer than MaxWait.
Tick ==
  /\ clock < MaxClock
  /\ \A r \in Requests :
       pc[r] \in {"wait", "apply"} => clock < arrived[r] + MaxWait
  /\ clock' = clock + 1
  /\ UNCHANGED <<buckets, gens, pc, cleaning, arrived, seen, answer, history>>

Finished == (\A r \in Requests : pc[r] \in {"done", "failed"}) /\ UNCHANGED vars

Step(r) ==
  \/ Consume(r) \/ CleanupDelete(r) \/ CleanupEnd(r)
  \/ Insert(r) \/ InsertAfterWait(r) \/ LockTimesOut(r)
  \/ UpdateScan(r) \/ UpdateApply(r) \/ Select(r)

Next == (\E r \in Requests : Step(r)) \/ Tick \/ Finished

Spec == Init /\ [][Next]_vars
-----------------------------------------------------------------------------
\* No interval admits more than its share: of the requests of one identity that
\* were allowed from any instant on, at most Limit exceed one per emission
\* interval, however the statements and cleanups of the replicas interleave, and
\* up to the debt that INSERTs lost which waited while their row was renewed, paid
\* off and deleted again.
Conformance ==
  \A i \in Identities, t \in 0 .. clock :
    since[i][t] > 0 => (since[i][t] - Limit) * Interval <= clock - t + forgiven[i]

\* A request is refused only when allowing it would have exceeded that share, or
\* when its row was deleted since the statement before by somebody's cleanup.
NoEarlyRefusal ==
  [][\A r \in Requests :
       pc[r] # "select" /\ pc'[r] = "select" =>
         \/ (IF pc[r] = "apply" THEN NewestSeen(r) ELSE BucketsOf(r)) = {}
         \/ \E t \in 0 .. clock :
              (since[IdentityOf[r]][t] + 1 - Limit) * Interval > clock - t]_vars

\* Retry-After and the reset time tell the truth, to the millisecond that the
\* conversion loses: if nobody of the identity was allowed meanwhile, a request made
\* after the one conforms, and after the other the whole burst is restored.
RetryAfterHonest ==
  \A r \in Requests : \A a \in answer[r] :
    a.total = since[IdentityOf[r]][0] =>
      /\ a.kind = "denied" /\ Waited(a.at, a.retryAfter, clock) =>
           \A b \in BucketsOf(r) : Conforming(b)
      /\ Waited(a.at, a.reset, clock) => BucketsOf(r) \subseteq Expired

\* "burst tolerance permits up to `limit` immediate requests from a fully
\* restored state" (docs/architecture.md:131): as long as an identity has made at
\* most Limit requests, each of them is allowed.
BurstAdmitted ==
  \A i \in Identities :
    LET made == {r \in Requests : IdentityOf[r] = i /\ pc[r] # "idle"}
    IN  Cardinality(made) <= Limit =>
          \A r \in made : pc[r] # "failed" /\ \A a \in answer[r] : a.kind = "allowed"
=============================================================================
