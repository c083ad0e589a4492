---------------------------- MODULE UserCreation ----------------------------
(***************************************************************************)
(* Creating, updating and deleting users over PostgreSQL, one action per   *)
(* statement the application sends.                                        *)
(*                                                                         *)
(* A create is CreateUserService.execute inside the retrying transaction   *)
(* manager; with an Idempotency-Key it first claims a row of the ledger    *)
(* user_creation_idempotency.  An update or a delete is one autocommitted  *)
(* statement.  The database is READ COMMITTED: a statement reads committed *)
(* rows, writes stay private to the transaction until COMMIT, and a        *)
(* statement that meets another transaction's uncommitted row waits for    *)
(* that transaction.  Waiting is a guard (Blockers), and a cycle of waits  *)
(* is broken by aborting one of its members, as the deadlock detector does.*)
(*                                                                         *)
(* One tenant is modelled: tenant_id is part of every key and WHERE here.  *)
(***************************************************************************)
EXTENDS Naturals, FiniteSets

CONSTANTS
  Creates, Deletes, Patches,   \* the HTTP requests, each served once
  Keys, NoKey,                 \* Idempotency-Key values, and its absence
  Payloads,                    \* normalised request bodies (= fingerprints)
  Emails, EmailOf,             \* the email of a body
  UserIds, NoUser,             \* users.id, and SQL null
  Preconditions,               \* If-Match: the set of versions it accepts
  TTL,                         \* IDEMPOTENCY_TTL_SECONDS
  MaxAttempts,                 \* maxAttempts of the transaction manager
  ClaimAttempts,               \* rounds of the loop in claim() (3 in the code)
  CleanupBatch,                \* CLEANUP_BATCH_SIZE
  MaxClock, MaxFaults          \* bounds of the exploration

Mutators == Deletes \union Patches
Requests == Creates \union Mutators

ASSUME RequestKinds ==
  /\ Creates \intersect Mutators = {}
  /\ Deletes \intersect Patches = {}
ASSUME Sentinels ==
  /\ NoKey \notin Keys
  /\ NoUser \notin UserIds
ASSUME Shapes ==
  /\ EmailOf \in [Payloads -> Emails]
  /\ Preconditions \subseteq SUBSET Nat
ASSUME Numbers ==
  /\ TTL \in Nat \ {0}
  /\ MaxAttempts \in Nat \ {0}
  /\ ClaimAttempts \in Nat \ {0}
  /\ CleanupBatch \in Nat \ {0}
  /\ MaxClock \in Nat
  /\ MaxFaults \in Nat

VARIABLES
  users,     \* committed rows of users
  ledger,    \* committed rows of user_creation_idempotency
  births,    \* history: every committed creation, with the key it ran under
  clock,     \* the database clock
  faults,    \* how many failures the environment has injected
  request,   \* what each create asks for
  pc,        \* where each request is
  now,       \* now() of a create's transaction: its start
  tries,     \* round of the claim loop
  attempt,   \* attempt of the transaction manager
  claim,     \* the uncommitted ledger row of a create (at most one)
  claimedAt, \* history: the clock when that row was written
  born,      \* the uncommitted users row of a create (at most one)
  found,     \* the user a create answers with
  target, ifMatch, newEmail,   \* what an update or a delete asks for
  answer     \* how each request was answered

database == <<users, ledger, births>>
txn      == <<now, tries, claim, claimedAt, born, found>>
mutation == <<target, ifMatch, newEmail>>
vars == <<users, ledger, births, clock, faults, request, pc, now, tries,
          attempt, claim, claimedAt, born, found, target, ifMatch, newEmail,
          answer>>

UserRow   == [id : UserIds, email : Emails, version : Nat]
LedgerRow == [key : Keys, fp : Payloads, user : UserIds \union {NoUser}, exp : Nat]
Birth     == [id : UserIds, key : Keys \union {NoKey}, fp : Payloads, at : Nat, exp : Nat]

\* Places of a create that lie between BEGIN and COMMIT.
InTxn == {"reclaim", "insert", "select", "replay", "lookup", "create",
          "complete", "commit"}

CreatePlaces  == InTxn \union {"idle", "cleanup", "begin", "done"}
MutatorPlaces == {"idle", "row", "held", "done"}

Answers == {"none", "created", "replayed", "conflict", "mismatch", "orphan",
            "vanished", "exhausted", "incomplete", "busy", "unavailable",
            "missing", "stale", "changed"}

\* Every variable holds a value of the shape its column or field has.
TypeOK ==
  /\ users \subseteq UserRow
  /\ ledger \subseteq LedgerRow
  /\ births \subseteq Birth
  /\ clock \in Nat
  /\ faults \in Nat
  /\ request \in [Creates -> [key : Keys \union {NoKey}, fp : Payloads]]
  /\ pc \in [Requests -> CreatePlaces \union MutatorPlaces]
  /\ now \in [Creates -> Nat]
  /\ tries \in [Creates -> Nat]
  /\ attempt \in [Creates -> Nat]
  /\ claim \in [Creates -> SUBSET LedgerRow]
  /\ claimedAt \in [Creates -> Nat]
  /\ born \in [Creates -> SUBSET UserRow]
  /\ found \in [Creates -> UserIds \union {NoUser}]
  /\ target \in [Mutators -> UserIds \union {NoUser}]
  /\ ifMatch \in [Mutators -> SUBSET Nat]
  /\ newEmail \in [Mutators -> SUBSET Emails]
  /\ answer \in [Requests -> Answers]

Init ==
  /\ users = {} /\ ledger = {} /\ births = {}
  /\ clock = 0 /\ faults = 0
  /\ request \in [Creates -> [key : Keys \union {NoKey}, fp : Payloads]]
  /\ pc = [r \in Requests |-> "idle"]
  /\ now = [r \in Creates |-> 0]
  /\ tries = [r \in Creates |-> 0]
  /\ attempt = [r \in Creates |-> 0]
  /\ claim = [r \in Creates |-> {}]
  /\ claimedAt = [r \in Creates |-> 0]
  /\ born = [r \in Creates |-> {}]
  /\ found = [r \in Creates |-> NoUser]
  /\ target = [m \in Mutators |-> NoUser]
  /\ ifMatch = [m \in Mutators |-> {}]
  /\ newEmail = [m \in Mutators |-> {}]
  /\ answer = [r \in Requests |-> "none"]

-----------------------------------------------------------------------------
(***************************************************************************)
(* PostgreSQL: who holds what, and who waits for whom.                     *)
(***************************************************************************)
Email(r)   == EmailOf[request[r].fp]
IsKeyed(r) == request[r].key # NoKey

KeyHolders(k) == {q \in Creates : \E c \in claim[q] : c.key = k}

RowHolders(u) == {m \in Mutators : pc[m] = "held" /\ target[m] = u}

\* An index entry for e is unsettled while its insertion, its deletion or an
\* update of its row is uncommitted.
EmailHolders(e) ==
  {q \in Creates : \E b \in born[q] : b.email = e}
    \union UNION {RowHolders(u.id) : u \in {x \in users : x.email = e}}

\* Mutant: every row counts as expired.
ExpiredRowsAll(k, time) == {l \in ledger : l.key = k}

ExpiredRows(k, time) == {l \in ledger : l.key = k /\ l.exp <= time}
ActiveRows(k, time)  == {l \in ledger : l.key = k /\ l.exp > time}

\* An UPDATE of the email touches the unique index only when the value changes.
EmailChange(p) ==
  {e \in newEmail[p] : \A u \in users : u.id = target[p] => u.email # e}

\* The transactions the next statement of r must wait for.
Blockers(r) ==
  (CASE pc[r] = "reclaim" /\ ExpiredRows(request[r].key, now[r]) # {} ->
          KeyHolders(request[r].key)
     [] pc[r] = "insert" -> KeyHolders(request[r].key)
     [] pc[r] = "create" -> EmailHolders(Email(r))
     [] pc[r] = "row"    -> RowHolders(target[r])
     [] pc[r] = "held" /\ r \in Deletes ->
          UNION {KeyHolders(l.key) : l \in {x \in ledger : x.user = target[r]}}
     [] pc[r] = "held" /\ r \in Patches ->
          UNION {EmailHolders(e) : e \in EmailChange(r)}
     [] OTHER -> {}) \ {r}

\* A smallest set in which everyone waits for another member is a cycle.
Waiting(S)  == S # {} /\ \A r \in S : Blockers(r) \intersect S # {}
Deadlocks   == {S \in SUBSET Requests :
                  Waiting(S) /\ \A T \in SUBSET S : Waiting(T) => T = S}

FreshIds == UserIds \ ({b.id : b \in births}
                         \union {b.id : b \in UNION {born[q] : q \in Creates}})

-----------------------------------------------------------------------------
(***************************************************************************)
(* CreateUserService                                                       *)
(***************************************************************************)
Goto(r, place) == pc' = [pc EXCEPT ![r] = place]

\* The transaction is over: its private rows, its locks and its now() are gone.
EndTxn(r) ==
  /\ claim' = [claim EXCEPT ![r] = {}]
  /\ born' = [born EXCEPT ![r] = {}]
  /\ now' = [now EXCEPT ![r] = 0]
  /\ tries' = [tries EXCEPT ![r] = 0]
  /\ claimedAt' = [claimedAt EXCEPT ![r] = 0]

Rollback(r) ==
  /\ EndTxn(r)
  /\ found' = [found EXCEPT ![r] = NoUser]
  /\ UNCHANGED database

\* The operation throws an AppError, which is never retried.
Fail(r, why) ==
  /\ Rollback(r)
  /\ Goto(r, "done")
  /\ answer' = [answer EXCEPT ![r] = why]

Receive(r) ==
  /\ pc[r] = "idle"
  /\ Goto(r, IF IsKeyed(r) THEN "cleanup" ELSE "begin")
  /\ attempt' = [attempt EXCEPT ![r] = 1]
  /\ UNCHANGED <<database, txn, mutation, clock, faults, request, answer>>

\* Mutant: cleanup does not look at the expiry.
CleanupRowsActive ==
  {batch \in SUBSET {l \in ledger : KeyHolders(l.key) = {}} :
     Cardinality(batch) <= CleanupBatch}

\* The oldest expired rows that nobody has locked, at most CleanupBatch.
CleanupRows ==
  LET free == {l \in ledger : l.exp <= clock /\ KeyHolders(l.key) = {}}
  IN  {batch \in SUBSET free :
         /\ \/ batch = free /\ Cardinality(free) <= CleanupBatch
            \/ Cardinality(batch) = CleanupBatch
         /\ \A l \in batch, m \in free \ batch : l.exp <= m.exp}

\* The gate may be closed and a failing cleanup is swallowed: then no row goes.
CleanupIfDue(r) ==
  /\ pc[r] = "cleanup"
  /\ \E batch \in CleanupRows \union {{}} : ledger' = ledger \ batch
  /\ Goto(r, "begin")
  /\ UNCHANGED <<users, births, txn, mutation, clock, faults, request, attempt, answer>>

Begin(r) ==
  /\ pc[r] = "begin"
  /\ now' = [now EXCEPT ![r] = clock]
  /\ tries' = [tries EXCEPT ![r] = 1]
  /\ Goto(r, IF IsKeyed(r) THEN "reclaim" ELSE "lookup")
  /\ UNCHANGED <<database, claim, claimedAt, born, found, mutation, clock, faults,
                 request, attempt, answer>>

\* Mutant: a reclaimed row keeps the user it had.
ClaimRowKeepsUser(r) ==
  [key |-> request[r].key, fp |-> request[r].fp, exp |-> now[r] + TTL,
   user |-> IF \E l \in ledger : l.key = request[r].key
              THEN (CHOOSE l \in ledger : l.key = request[r].key).user ELSE NoUser]

\* The row a claim writes, whether it inserts or overwrites an expired one.
ClaimRow(r) == [key |-> request[r].key, fp |-> request[r].fp, user |-> NoUser,
                exp |-> now[r] + TTL]

Claimed(r) ==
  /\ claim' = [claim EXCEPT ![r] = {ClaimRow(r)}]
  /\ claimedAt' = [claimedAt EXCEPT ![r] = clock]
  /\ Goto(r, "lookup")

\* UPDATE ... WHERE expires_at <= now()
Reclaim(r) ==
  /\ pc[r] = "reclaim"
  /\ Blockers(r) = {}
  /\ IF ExpiredRows(request[r].key, now[r]) # {}
       THEN Claimed(r)
       ELSE Goto(r, "insert") /\ UNCHANGED <<claim, claimedAt>>
  /\ UNCHANGED <<database, now, tries, born, found, mutation, clock, faults,
                 request, attempt, answer>>

\* INSERT ... ON CONFLICT DO NOTHING
Insert(r) ==
  /\ pc[r] = "insert"
  /\ Blockers(r) = {}
  /\ IF \A l \in ledger : l.key # request[r].key
       THEN Claimed(r)
       ELSE Goto(r, "select") /\ UNCHANGED <<claim, claimedAt>>
  /\ UNCHANGED <<database, now, tries, born, found, mutation, clock, faults,
                 request, attempt, answer>>

\* Mutants: the fingerprint is not compared; a mismatch polls the claim again.
SelectActiveAnyPayload(r) ==
  /\ pc[r] = "select"
  /\ \E l \in ActiveRows(request[r].key, now[r]) :
       found' = [found EXCEPT ![r] = l.user]
  /\ Goto(r, "replay")
  /\ UNCHANGED <<database, now, tries, claim, claimedAt, born, answer, mutation,
                 clock, faults, request, attempt>>
SelectActivePolls(r) ==
  /\ pc[r] = "select"
  /\ Goto(r, "reclaim")
  /\ UNCHANGED <<database, txn, answer, mutation, clock, faults, request, attempt>>

\* SELECT ... WHERE expires_at > now(), and what the service makes of the row.
SelectActive(r) ==
  /\ pc[r] = "select"
  /\ \/ \E l \in ActiveRows(request[r].key, now[r]) :
          \/ l.fp # request[r].fp /\ Fail(r, "mismatch")
          \/ l.fp = request[r].fp /\ l.user = NoUser /\ Fail(r, "orphan")
          \/ /\ l.fp = request[r].fp /\ l.user # NoUser
             /\ found' = [found EXCEPT ![r] = l.user]
             /\ Goto(r, "replay")
             /\ UNCHANGED <<database, now, tries, claim, claimedAt, born, answer>>
     \/ /\ ActiveRows(request[r].key, now[r]) = {}
        /\ tries[r] < ClaimAttempts
        /\ tries' = [tries EXCEPT ![r] = tries[r] + 1]
        /\ Goto(r, "reclaim")
        /\ UNCHANGED <<database, now, claim, claimedAt, born, found, answer>>
     \/ /\ ActiveRows(request[r].key, now[r]) = {}
        /\ tries[r] >= ClaimAttempts
        /\ Fail(r, "exhausted")
  /\ UNCHANGED <<mutation, clock, faults, request, attempt>>

\* findById of the user the ledger points to
Replay(r) ==
  /\ pc[r] = "replay"
  /\ \/ /\ \E u \in users : u.id = found[r]
        /\ Goto(r, "commit")
        /\ UNCHANGED <<database, txn, answer>>
     \/ /\ \A u \in users : u.id # found[r]
        /\ Fail(r, "vanished")
  /\ UNCHANGED <<mutation, clock, faults, request, attempt>>

\* findByEmail
Lookup(r) ==
  /\ pc[r] = "lookup"
  /\ \/ /\ \E u \in users : u.email = Email(r)
        /\ Fail(r, "conflict")
     \/ /\ \A u \in users : u.email # Email(r)
        /\ Goto(r, "create")
        /\ UNCHANGED <<database, txn, answer>>
  /\ UNCHANGED <<mutation, clock, faults, request, attempt>>

\* INSERT INTO users, on which unique (tenant_id, email) is authoritative
Create(r) ==
  /\ pc[r] = "create"
  /\ Blockers(r) = {}
  /\ \/ /\ \E u \in users : u.email = Email(r)
        /\ Fail(r, "conflict")
     \/ /\ \A u \in users : u.email # Email(r)
        /\ \E id \in FreshIds :
             born' = [born EXCEPT ![r] = {[id |-> id, email |-> Email(r),
                                           version |-> 1]}]
        /\ Goto(r, IF IsKeyed(r) THEN "complete" ELSE "commit")
        /\ UNCHANGED <<database, now, tries, claim, claimedAt, found, answer>>
  /\ UNCHANGED <<mutation, clock, faults, request, attempt>>

\* Mutant: the claim is never completed.
CompleteSkipped(r) ==
  /\ pc[r] = "complete"
  /\ Goto(r, "commit")
  /\ UNCHANGED <<database, txn, answer, mutation, clock, faults, request, attempt>>

\* UPDATE ... SET user_id WHERE the claim is still ours and incomplete
Complete(r) ==
  LET owned == {c \in claim[r] : c.key = request[r].key /\ c.fp = request[r].fp
                                   /\ c.user = NoUser}
  IN
  /\ pc[r] = "complete"
  /\ \/ /\ owned = {}
        /\ Fail(r, "incomplete")
     \/ \E c \in owned, b \in born[r] :
          /\ claim' = [claim EXCEPT ![r] = {[c EXCEPT !.user = b.id]}]
          /\ Goto(r, "commit")
          /\ UNCHANGED <<database, now, tries, claimedAt, born, found, answer>>
  /\ UNCHANGED <<mutation, clock, faults, request, attempt>>

\* COMMIT makes the private rows public, a claimed row replacing the expired one.
Publish(r) ==
  /\ users' = users \union born[r]
  /\ ledger' = {l \in ledger : \A c \in claim[r] : l.key # c.key} \union claim[r]
  /\ births' = births \union
       {[id |-> b.id, key |-> request[r].key, fp |-> request[r].fp,
         at |-> claimedAt[r], exp |-> now[r] + TTL] : b \in born[r]}
  /\ EndTxn(r)

\* Mutant: a replay is reported as a creation.
CommitAlwaysCreated(r) ==
  /\ pc[r] = "commit"
  /\ Publish(r)
  /\ answer' = [answer EXCEPT ![r] = "created"]
  /\ \/ born[r] = {} /\ UNCHANGED found
     \/ \E b \in born[r] : found' = [found EXCEPT ![r] = b.id]
  /\ Goto(r, "done")
  /\ UNCHANGED <<mutation, clock, faults, request, attempt>>

\* COMMIT succeeds; user.created is logged for a creation and not for a replay.
Commit(r) ==
  /\ pc[r] = "commit"
  /\ Publish(r)
  /\ \/ /\ born[r] = {}
        /\ answer' = [answer EXCEPT ![r] = "replayed"]
        /\ UNCHANGED found
     \/ \E b \in born[r] :
          /\ answer' = [answer EXCEPT ![r] = "created"]
          /\ found' = [found EXCEPT ![r] = b.id]
  /\ Goto(r, "done")
  /\ UNCHANGED <<mutation, clock, faults, request, attempt>>

-----------------------------------------------------------------------------
(***************************************************************************)
(* Failures of a create's transaction                                      *)
(***************************************************************************)
\* The database aborts the transaction with 40001 or 40P01: run() starts it
\* again while attempts are left, and otherwise the error becomes a 503.
AbortRetryably(r) ==
  /\ pc[r] \in InTxn
  /\ Rollback(r)
  /\ \/ /\ attempt[r] < MaxAttempts
        /\ attempt' = [attempt EXCEPT ![r] = attempt[r] + 1]
        /\ Goto(r, "begin")
        /\ UNCHANGED answer
     \/ /\ attempt[r] >= MaxAttempts
        /\ Goto(r, "done")
        /\ answer' = [answer EXCEPT ![r] = "busy"]
        /\ UNCHANGED attempt
  /\ UNCHANGED <<mutation, clock, request>>

Inject == faults < MaxFaults /\ faults' = faults + 1

AbortInjected(r) == Inject /\ AbortRetryably(r)

\* The connection (or the process) is lost: not retryable, the server rolls back.
ConnectionLost(r) ==
  /\ Inject
  /\ pc[r] \in InTxn \union {"begin"}
  /\ Fail(r, "unavailable")
  /\ UNCHANGED <<mutation, clock, request, attempt>>

\* The connection is lost after the server committed: the caller cannot know.
CommitAckLost(r) ==
  /\ Inject
  /\ pc[r] = "commit"
  /\ Publish(r)
  /\ Goto(r, "done")
  /\ answer' = [answer EXCEPT ![r] = "unavailable"]
  /\ found' = [found EXCEPT ![r] = NoUser]
  /\ UNCHANGED <<mutation, clock, request, attempt>>

-----------------------------------------------------------------------------
(***************************************************************************)
(* UpdateUserService and DeleteUserService: one conditional statement each *)
(***************************************************************************)
FinishMutation(m, how) ==
  /\ Goto(m, "done")
  /\ answer' = [answer EXCEPT ![m] = how]

\* The statement's snapshot: a missing row or a version the precondition
\* refuses is answered at once, a match goes on to the row itself.
Mutate(m) ==
  /\ pc[m] = "idle"
  /\ \E u \in UserIds, versions \in Preconditions :
       /\ target' = [target EXCEPT ![m] = u]
       /\ ifMatch' = [ifMatch EXCEPT ![m] = versions]
       /\ \/ m \in Deletes /\ UNCHANGED newEmail
          \/ m \in Patches /\ \E E \in {{}} \union {{e} : e \in Emails} :
               newEmail' = [newEmail EXCEPT ![m] = E]
       /\ \/ (\A x \in users : x.id # u) /\ FinishMutation(m, "missing")
          \/ \E x \in users :
               /\ x.id = u
               /\ \/ x.version \notin versions /\ FinishMutation(m, "stale")
                  \/ x.version \in versions /\ Goto(m, "row") /\ UNCHANGED answer
  /\ UNCHANGED <<database, txn, clock, faults, request, attempt>>

\* Mutant: the version is not checked again after the wait.
LockRowUnchecked(m) ==
  /\ pc[m] = "row"
  /\ Blockers(m) = {}
  /\ Goto(m, "held")
  /\ UNCHANGED <<database, txn, mutation, clock, faults, request, attempt, answer>>

\* The row is locked, after waiting for its holder, and the predicate is
\* evaluated again on its newest version; existence is still the snapshot's.
LockRow(m) ==
  /\ pc[m] = "row"
  /\ Blockers(m) = {}
  /\ IF \E x \in users : x.id = target[m] /\ x.version \in ifMatch[m]
       THEN Goto(m, "held") /\ UNCHANGED answer
       ELSE FinishMutation(m, "stale")
  /\ UNCHANGED <<database, txn, mutation, clock, faults, request, attempt>>

\* Mutant: the ledger keeps its pointer to the deleted user.
DeleteNoCascade(d) ==
  /\ pc[d] = "held"
  /\ Blockers(d) = {}
  /\ users' = {u \in users : u.id # target[d]}
  /\ FinishMutation(d, "changed")
  /\ UNCHANGED <<ledger, births, txn, mutation, clock, faults, request, attempt>>

\* DELETE with its ON DELETE CASCADE into the ledger
Delete(d) ==
  /\ pc[d] = "held"
  /\ Blockers(d) = {}
  /\ users' = {u \in users : u.id # target[d]}
  /\ ledger' = {l \in ledger : l.user # target[d]}
  /\ FinishMutation(d, "changed")
  /\ UNCHANGED <<births, txn, mutation, clock, faults, request, attempt>>

\* The fields a PATCH writes: the email when given, and always version + 1
Patched(p, u) ==
  [id |-> u.id, version |-> u.version + 1,
   email |-> IF newEmail[p] = {} THEN u.email ELSE CHOOSE e \in newEmail[p] : TRUE]

Patch(p) ==
  /\ pc[p] = "held"
  /\ Blockers(p) = {}
  /\ IF \E e \in EmailChange(p), u \in users : u.email = e
       THEN FinishMutation(p, "conflict") /\ UNCHANGED users
       ELSE /\ users' = {IF u.id = target[p] THEN Patched(p, u) ELSE u : u \in users}
            /\ FinishMutation(p, "changed")
  /\ UNCHANGED <<ledger, births, txn, mutation, clock, faults, request, attempt>>

\* Updates and deletes run once: a deadlock victim is answered 503.
AbortMutation(m) ==
  /\ FinishMutation(m, "busy")
  /\ UNCHANGED <<database, txn, mutation, clock, request, attempt>>

\* The deadlock detector aborts one member of a cycle of waits.
BreakDeadlock ==
  /\ \E S \in Deadlocks : \E r \in S :
       \/ r \in Creates /\ AbortRetryably(r)
       \/ r \in Mutators /\ AbortMutation(r)
  /\ UNCHANGED faults

-----------------------------------------------------------------------------
Tick ==
  /\ clock < MaxClock
  /\ clock' = clock + 1
  /\ UNCHANGED <<database, txn, mutation, faults, request, pc, attempt, answer>>

\* Every request has been answered.
Quiescent == \A r \in Requests : pc[r] = "done"
Finished  == Quiescent /\ UNCHANGED vars

CreateStep(r) ==
  \/ Receive(r) \/ CleanupIfDue(r) \/ Begin(r)
  \/ Reclaim(r) \/ Insert(r) \/ SelectActive(r) \/ Replay(r)
  \/ Lookup(r) \/ Create(r) \/ Complete(r) \/ Commit(r)

CreateFault(r) == AbortInjected(r) \/ ConnectionLost(r) \/ CommitAckLost(r)

MutatorStep(m) ==
  \/ Mutate(m) \/ LockRow(m)
  \/ m \in Deletes /\ Delete(m)
  \/ m \in Patches /\ Patch(m)

Next ==
  \/ \E r \in Creates : CreateStep(r) \/ CreateFault(r)
  \/ \E m \in Mutators : MutatorStep(m)
  \/ BreakDeadlock
  \/ Tick
  \/ Finished

Spec == Init /\ [][Next]_vars

\* The server does not stand still while a request can take a step: the event
\* loop serves callbacks, PostgreSQL answers a statement that need not wait, and
\* its deadlock detector runs.  Which request goes first is left open.
Progress ==
  \/ \E r \in Creates : CreateStep(r)
  \/ \E m \in Mutators : MutatorStep(m)
  \/ BreakDeadlock

FairSpec == Spec /\ WF_vars(Progress)
-----------------------------------------------------------------------------
(***************************************************************************)
(* Safety                                                                  *)
(***************************************************************************)
\* A committed ledger row is complete and points at a user that exists, one
\* created under this key with this fingerprint: no failed or interrupted
\* create leaves an incomplete claim, and no delete leaves a dangling pointer.
LedgerComplete ==
  \A l \in ledger :
    \E u \in users, b \in births :
      /\ u.id = l.user
      /\ b.id = l.user /\ b.key = l.key /\ b.fp = l.fp /\ b.exp = l.exp

\* While a key is active it creates at most one user: of two living users born
\* under one key, the later was claimed after the window of the earlier ended,
\* whatever races, retries, lost acknowledgements and cleanups came between.
OneUserPerActiveKey ==
  \A a, b \in births :
    /\ a.key = b.key /\ a.key # NoKey
    /\ {a.id, b.id} \subseteq {u.id : u \in users}
    => a = b \/ a.exp <= b.at \/ b.exp <= a.at

\* A 201 names a user that was created under the request's own key with the
\* request's own payload, be it created by this request or replayed.
AnswersOwnUser ==
  \A r \in Creates :
    answer[r] \in {"created", "replayed"} =>
      \E b \in births : b.id = found[r] /\ b.key = request[r].key
                          /\ b.fp = request[r].fp

\* user.created is never logged twice for one user: a replay stays silent and a
\* retried transaction is one whose earlier attempts left nothing behind.
AnnouncedOnce ==
  \A r, q \in Creates :
    answer[r] = "created" /\ answer[q] = "created" /\ found[r] = found[q] => r = q

\* The states the service calls inconsistent cannot be reached by its own
\* writes: no committed claim without a user, no claim that is lost before it is
\* completed; and a replay loses its user only to a delete.
ClaimNeverLost ==
  \A r \in Creates :
    /\ answer[r] \notin {"orphan", "incomplete"}
    /\ answer[r] = "vanished" =>
         \E b \in births : /\ b.key = request[r].key /\ b.fp = request[r].fp
                           /\ b.id \notin {u.id : u \in users}

\* Of the updates and deletes that name the same single version of a user, at
\* most one takes effect, however their statements interleave.
NoLostUpdate ==
  \A m, n \in Mutators :
    /\ m # n /\ answer[m] = "changed" /\ answer[n] = "changed"
    /\ target[m] = target[n]
    => \A v \in ifMatch[m] : ifMatch[m] = {v} => ifMatch[n] # {v}

\* The ledger and the users only change together: a key starts to resolve to a
\* user in the step that brings the user to life, keeps resolving to that user
\* while the window lasts, and loses it before only in the step that deletes it.
KeyBindingStep ==
  /\ \A l \in ledger' \ ledger :
       /\ \A u \in users : u.id # l.user
       /\ \E u \in users' : u.id = l.user
  /\ \A l \in ledger \ ledger' :
       l.exp > clock => \A u \in users' : u.id # l.user

\* The key binding over a whole run: every step is a KeyBindingStep.
KeyBinding == [][KeyBindingStep]_vars

(***************************************************************************)
(* Liveness                                                                *)
(***************************************************************************)
\* Every request that was received is answered: lock waits, the claim loop and
\* transaction retries all come to an end.
EveryRequestAnswered ==
  \A r \in Requests : pc[r] # "idle" ~> pc[r] = "done"

(***************************************************************************)
(* The promise of the Idempotency-Key is kept: the rows of the two tables  *)
(* and the answers go through the steps of IdempotentCreation.             *)
(***************************************************************************)
Promise == INSTANCE IdempotentCreation
             WITH live <- {u.id : u \in users}, used <- {b.id : b \in births},
                  binding <- ledger, resolved <- found

\* Whatever the transactions, their retries and the cleanup do, the outside sees
\* users created together with their key's binding and replays of it.
PromiseKept == Promise!Spec

(***************************************************************************)
(* What the documents say and the code does not do                         *)
(***************************************************************************)
\* "a later request in the same tenant using the same key and same normalized
\* payload returns 201": never an internal error.
ReplayNeverFails == \A r \in Creates : answer[r] # "vanished"

\* "one committed creation produces one user.created event"
EveryCreationAnnounced ==
  Quiescent => \A b \in births :
                 \E r \in Creates : answer[r] = "created" /\ found[r] = b.id
=============================================================================
