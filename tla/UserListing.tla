---------------------------- MODULE UserListing ----------------------------
(***************************************************************************)
(* Walks through the users of a tenant while others create and delete      *)
(* them: GET /users/cursor, a page after the position of the last row of   *)
(* the page before, and GET /users, a page by its number.                  *)
(*                                                                         *)
(* A page is one statement, so one snapshot.  A creation is a transaction: *)
(* created_at is its now(), which is long past when it commits.  Time is   *)
(* in ticks, Milli to a millisecond.                                       *)
(***************************************************************************)
EXTENDS Integers, FiniteSets

CONSTANTS
  Ids,      \* user ids, which are ordered as uuid values are
  Foreign,  \* those of them that belong to other tenants
  Limit,    \* limit, or perPage
  Milli,
  MaxClock  \* bound: no creation begins later

ASSUME Users == Ids \subseteq Nat /\ IsFiniteSet(Ids) /\ Foreign \subseteq Ids
ASSUME Numbers == Limit \in Nat \ {0} /\ Milli \in Nat \ {0} /\ MaxClock \in Nat

VARIABLES
  clock,
  user,     \* rows: "begun" until the insert commits, "gone" when deleted
  walk,     \* who reads: the cursor or the number of the next page
  listed,   \* how often the walk has listed an id
  standing, \* history: who was there at the first page and still is
  quiet     \* history: nothing was committed since the walk's first page

vars == <<clock, user, walk, listed, standing, quiet>>

\* Whole milliseconds.
Millis == {t \in Nat : t % Milli = 0}

Position == [createdAt : Millis, id : Nat]

\* Every variable has its type; created_at and cursors are whole milliseconds.
TypeOK ==
  /\ clock \in Nat
  /\ user \in [Ids -> [pc : {"none", "begun", "committed", "gone"}, createdAt : Millis]]
  /\ walk \in [pc : {"idle", "cursor", "offset", "done"}, after : Position, page : Nat]
  /\ listed \in [Ids -> Nat]
  /\ standing \subseteq Ids
  /\ quiet \in BOOLEAN

-----------------------------------------------------------------------------
(***************************************************************************)
(* Keys and cursors.                                                       *)
(***************************************************************************)
\* timestamptz(3) rounds to milliseconds.
Stored(now) == Milli * ((now + Milli \div 2) \div Milli)

\* The cursor goes through a JavaScript Date, which drops what is below them.
Encoded(position) == [position EXCEPT !.createdAt = Milli * (@ \div Milli)]

\* p comes before q: ORDER BY created_at DESC, id DESC.
Before(p, q) ==
  p.createdAt > q.createdAt \/ (p.createdAt = q.createdAt /\ p.id > q.id)

Pos(i) == [createdAt |-> user[i].createdAt, id |-> i]

\* Rows of the tenant in the snapshot of a statement.
Rows == {i \in Ids \ Foreign : user[i].pc = "committed"}

\* How many rows come before i.
Rank(rows, i) == Cardinality({j \in rows : Before(Pos(j), Pos(i))})

\* The rows that OFFSET from LIMIT n selects.
Slice(rows, from, n) ==
  {i \in rows : from <= Rank(rows, i) /\ Rank(rows, i) < from + n}

Init ==
  /\ clock = 0
  /\ user = [i \in Ids |-> [pc |-> "none", createdAt |-> 0]]
  /\ walk = [pc |-> "idle", after |-> [createdAt |-> 0, id |-> 0], page |-> 0]
  /\ listed = [i \in Ids |-> 0]
  /\ standing = {} /\ quiet = TRUE

-----------------------------------------------------------------------------
(***************************************************************************)
(* The writers.                                                            *)
(***************************************************************************)
Tick ==
  /\ clock < MaxClock
  /\ clock' = clock + 1
  /\ UNCHANGED <<user, walk, listed, standing, quiet>>

BeginCreate(i) ==
  /\ user[i].pc = "none"
  /\ user' = [user EXCEPT ![i] = [pc |-> "begun", createdAt |-> Stored(clock)]]
  /\ UNCHANGED <<clock, walk, listed, standing, quiet>>

CommitCreate(i) ==
  /\ user[i].pc = "begun"
  /\ user' = [user EXCEPT ![i].pc = "committed"]
  /\ quiet' = FALSE
  /\ UNCHANGED <<clock, walk, listed, standing>>

Delete(i) ==
  /\ user[i].pc = "committed"
  /\ user' = [user EXCEPT ![i].pc = "gone"]
  /\ standing' = standing \ {i}
  /\ quiet' = FALSE
  /\ UNCHANGED <<clock, walk, listed>>

-----------------------------------------------------------------------------
(***************************************************************************)
(* The reader.                                                             *)
(***************************************************************************)
Listing(page) == listed' = [i \in Ids |-> listed[i] + IF i \in page THEN 1 ELSE 0]

\* listAfter and the cursor of the next page, if a row was read beyond the limit.
CursorPage(rows) ==
  LET page == Slice(rows, 0, Limit)
  IN  /\ Listing(page)
      /\ IF Cardinality(rows) > Limit
         THEN \E last \in page :
                /\ \A i \in page : i = last \/ Before(Pos(i), Pos(last))
                /\ walk' = [walk EXCEPT !.pc = "cursor", !.after = Encoded(Pos(last))]
         ELSE walk' = [walk EXCEPT !.pc = "done"]

\* Mutant: pages are numbered from 0.
OffsetPageFromZero(page) ==
  /\ Listing(Slice(Rows, page * Limit, Limit))
  /\ walk' = [walk EXCEPT !.page = page + 1,
                          !.pc = IF page * Limit < Cardinality(Rows) THEN "offset" ELSE "done"]

\* listPage and totalPages, which the reader goes on to.
OffsetPage(page) ==
  /\ Listing(Slice(Rows, (page - 1) * Limit, Limit))
  /\ walk' = [walk EXCEPT !.page = page + 1,
                          !.pc = IF page < (Cardinality(Rows) + Limit - 1) \div Limit
                                 THEN "offset" ELSE "done"]

Start(reading) ==
  /\ walk.pc = "idle"
  /\ reading
  /\ standing' = Rows /\ quiet' = TRUE
  /\ UNCHANGED <<clock, user>>

Continue(pc, reading) ==
  /\ walk.pc = pc
  /\ reading
  /\ UNCHANGED <<clock, user, standing, quiet>>

\* Mutant: (created_at, id) <= (...).
NextByCursorAt ==
  Continue("cursor",
           CursorPage({i \in Rows : Before(walk.after, Pos(i)) \/ Pos(i) = walk.after}))

\* Mutant: only created_at is compared with the cursor.
NextByCursorTime ==
  Continue("cursor", CursorPage({i \in Rows : user[i].createdAt < walk.after.createdAt}))

NextByCursor == Continue("cursor", CursorPage({i \in Rows : Before(walk.after, Pos(i))}))

Next ==
  \/ Tick
  \/ \E i \in Ids : BeginCreate(i) \/ CommitCreate(i) \/ Delete(i)
  \/ Start(CursorPage(Rows)) \/ NextByCursor
  \/ Start(OffsetPage(1)) \/ Continue("offset", OffsetPage(walk.page))

Spec == Init /\ [][Next]_vars

-----------------------------------------------------------------------------
(***************************************************************************)
(* A walk by cursor lists nobody twice and nobody of another tenant,       *)
(* whoever is created, or deleted, the row of the cursor included:         *)
(* drizzle-user.repository.ts:205-240, user-list-cursor.ts.                *)
(***************************************************************************)
EachOnce ==
  walk.page = 0 =>
    \A i \in Ids : listed[i] <= IF i \in Foreign THEN 0 ELSE 1

\* Who is there throughout a walk by cursor is listed by its end, although the
\* key of the cursor has been through a Date, and although rows with older keys
\* appear late: drizzle-user.repository.ts:212-233, db/schema/users.ts:11.
NoneSkipped ==
  walk.pc = "done" /\ walk.page = 0 => \A i \in standing : listed[i] > 0

\* When nothing is committed between the pages, page numbers from 1 to totalPages
\* list everyone once: list-users.service.ts:26-38, drizzle-user.repository.ts:146-203.
PagesTile ==
  walk.pc = "done" /\ walk.page > 0 /\ quiet =>
    \A i \in Ids : listed[i] = IF i \in Rows THEN 1 ELSE 0
=============================================================================
