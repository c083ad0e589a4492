------------------------- MODULE FixedWindowProofs -------------------------
(***************************************************************************)
(* What holds of FixedWindowRateLimiter for any requests, identities and   *)
(* policy, and any bound on how long an upsert takes.                      *)
(***************************************************************************)
EXTENDS FixedWindowRateLimiter, TLAPS

-----------------------------------------------------------------------------
(***************************************************************************)
(* The delays derived from database timestamps are long enough             *)
(***************************************************************************)
LEMMA DivFloor ==
  ASSUME NEW a \in Int, NEW m \in Nat \ {0}
  PROVE  /\ a \div m \in Int
         /\ (a \div m) * m <= a
         /\ a < (a \div m) * m + m
BY Z3

\* Truncating both timestamps loses less than a millisecond.
LEMMA TruncationBound ==
  ASSUME NEW t \in Int, NEW later \in Int
  PROVE  Until(t, later) \in Int /\ t - later <= Until(t, later) + Milli - 1
<1> DEFINE x == t \div Milli
           y == later \div Milli
<1>1. x \in Int /\ t < x * Milli + Milli
  BY DivFloor, Units
<1>2. y \in Int /\ y * Milli <= later
  BY DivFloor, Units
<1> HIDE DEF x, y
<1>3. (x - y) * Milli = x * Milli - y * Milli /\ x * Milli \in Int /\ y * Milli \in Int
  BY <1>1, <1>2, Units
<1>4. (x - y) * Milli \in Int /\ t - later <= (x - y) * Milli + Milli - 1
  BY <1>1, <1>2, <1>3, Units
<1> QED BY <1>4 DEF x, y, Until

\* A delay in seconds is positive and not shorter than the time it stands for.
LEMMA SecondsCover ==
  ASSUME NEW ticks \in Int
  PROVE  WholeSeconds(ticks) \in Nat \ {0} /\ ticks <= WholeSeconds(ticks) * Second
<1> DEFINE q == (ticks + Second - 1) \div Second
<1>1. q \in Int /\ ticks + Second - 1 < q * Second + Second
  BY DivFloor, Units
<1>2. WholeSeconds(ticks) = IF 1 < q THEN q ELSE 1
  BY DEF WholeSeconds, Later
<1> HIDE DEF q
<1>3. q * Second \in Int /\ ticks <= q * Second
  BY <1>1, Units
<1>4. CASE 1 < q
  BY <1>1, <1>2, <1>3, <1>4
<1>5. CASE ~(1 < q)
  <2>1. q * Second <= 1 * Second
    <3>1. (1 - q) * Second >= 0 /\ (1 - q) * Second = 1 * Second - q * Second
      BY <1>1, <1>5, Units
    <3> QED BY <1>3, <3>1, Units
  <2> QED BY <1>2, <1>3, <1>5, <2>1, Units
<1> QED BY <1>4, <1>5

\* Who has waited a delay that covers a deadline is past the deadline.
LEMMA WaitedPast ==
  ASSUME NEW t \in Int, NEW asked \in Int, NEW later \in Int, NEW early \in Int,
         NEW ticks \in Int, Until(t, asked) - early <= ticks,
         Waited(asked, WholeSeconds(ticks), later)
  PROVE  t - early <= later
<1> DEFINE d == Until(t, asked)
           s == WholeSeconds(ticks) * Second
<1>1. d \in Int /\ t - asked <= d + Milli - 1
  BY TruncationBound
<1>2. WholeSeconds(ticks) \in Nat /\ d - early <= s
  BY <1>1, SecondsCover, Units
<1>3. s \in Int
  BY <1>2, Units
<1>4. later >= asked + s + Milli - 1
  BY DEF Waited
<1> HIDE DEF d, s
<1> QED BY <1>1, <1>2, <1>3, <1>4, Units
-----------------------------------------------------------------------------
\* An identity has one row.
OneRow == \A b, c \in buckets : b.id = c.id => b = c

\* What a cleanup has locked was expired.
LockedExpired == \A q \in Requests : \A b \in cleaning[q] : b.exp <= clock

\* An upsert judges by a clock that is at most MaxWait late.
Lateness ==
  \A r \in Requests : pc[r] = "upsert" => now[r] <= clock /\ clock <= now[r] + MaxWait

\* Nothing was allowed in the future.
Future == \A i \in Identities, t \in Instants : t > clock => since[i][t] = 0

\* The request that opened the window of a row is older than Window - MaxWait at its
\* end, so what was allowed later than it is one less than the row has counted.
Recent ==
  \A b \in buckets, t \in Instants :
    t > b.exp - Window + MaxWait => since[b.id][t] < b.count /\ since[b.id][t] < Limit

\* A short interval sees what the row has counted, and of the window before it
\* all but the request that opened it.
Earlier ==
  \A b \in buckets, t \in Instants :
    clock - t < Window - MaxWait =>
      since[b.id][t] < Limit + b.count /\ since[b.id][t] < 2 * Limit

Vacant ==
  \A i \in Identities, t \in Instants :
    (\A b \in buckets : b.id # i) /\ clock - t < Window - MaxWait => since[i][t] < Limit

\* Since the start of its window, as many requests were allowed as a row has
\* counted, up to the limit.
Counted ==
  \A b \in buckets :
    /\ b.exp - Window \in 0 .. clock
    /\ since[b.id][b.exp - Window] >= Limit \/ since[b.id][b.exp - Window] >= b.count

Quota == OneRow /\ LockedExpired /\ Lateness /\ Future /\ Recent /\ Earlier /\ Vacant /\ Counted

IInv == TypeOK /\ Quota

-----------------------------------------------------------------------------
LEMMA ResetPositive ==
  ASSUME TypeOK, NEW exp \in Nat
  PROVE  ResetAfter(exp) \in Nat \ {0}
<1>1. Until(exp, clock) \in Int
  BY TruncationBound DEF TypeOK, Instants
<1> QED BY <1>1, SecondsCover DEF ResetAfter

LEMMA RemainingBounded ==
  ASSUME NEW count \in Nat \ {0}
  PROVE  Remaining(count) \in 0 .. Limit
BY Numbers DEF Remaining, Later

\* What an upsert writes is a row of its identity.
LEMMA UpsertedRow ==
  ASSUME TypeOK, NEW r \in Requests
  PROVE  /\ [id |-> IdentityOf[r], count |-> 1, exp |-> now[r] + Window] \in Row
         /\ \A b \in BucketsOf(r) : Bumped(r, b) \in Row /\ Bumped(r, b).id = IdentityOf[r]
<1>1. IdentityOf[r] \in Identities
  BY Shapes
<1>2. now[r] + Window \in Nat
  BY Numbers DEF TypeOK, Instants
<1>3. ASSUME NEW b \in BucketsOf(r)
      PROVE  b \in Row /\ b.id = IdentityOf[r]
  BY DEF BucketsOf, TypeOK
<1>4. ASSUME NEW b \in BucketsOf(r)
      PROVE  Bumped(r, b) \in Row /\ Bumped(r, b).id = IdentityOf[r]
  <2>1. CASE b.exp <= now[r]
    <3>1. Bumped(r, b) = [id |-> b.id, count |-> 1, exp |-> now[r] + Window]
      BY <1>3, <2>1 DEF Bumped, Row
    <3> QED BY <3>1, <1>1, <1>2, <1>3 DEF Row
  <2>2. CASE ~(b.exp <= now[r])
    <3>1. Bumped(r, b) = [id |-> b.id, count |-> b.count + 1, exp |-> b.exp]
      BY <1>3, <2>2 DEF Bumped, Row
    <3> QED BY <3>1, <1>1, <1>3 DEF Row
  <2> QED BY <2>1, <2>2
<1> QED BY <1>1, <1>2, <1>4 DEF Row

LEMMA HistoryType ==
  ASSUME TypeOK, NEW i \in Identities
  PROVE  OneMore(i) \in [Identities -> [Instants -> Nat]]
<1>1. [t \in Instants |-> IF t <= clock THEN since[i][t] + 1 ELSE since[i][t]]
        \in [Instants -> Nat]
  BY DEF TypeOK
<1> QED BY <1>1 DEF TypeOK, OneMore

LEMMA DecideType ==
  ASSUME TypeOK, NEW r \in Requests, NEW b \in Row, Decide(r, b)
  PROVE  /\ since' \in [Identities -> [Instants -> Nat]]
         /\ answer' \in [Requests -> SUBSET Answer]
<1>1. since' \in [Identities -> [Instants -> Nat]]
  BY Shapes, HistoryType DEF Decide, TypeOK
<1>2. since'[IdentityOf[r]][0] \in Nat
  BY <1>1, Shapes, Numbers DEF Instants
<1>3. /\ Remaining(b.count) \in 0 .. Limit
      /\ ResetAfter(b.exp) \in Nat \ {0}
  BY RemainingBounded, ResetPositive DEF Row
<1>4. [allowed |-> b.count <= Limit, at |-> clock, total |-> since'[IdentityOf[r]][0],
       exp |-> b.exp, remaining |-> Remaining(b.count), reset |-> ResetAfter(b.exp)] \in Answer
  <2>1. (b.count <= Limit) \in BOOLEAN /\ clock \in Instants /\ b.exp \in Nat
    BY DEF TypeOK, Row
  <2> QED BY <1>2, <1>3, <2>1 DEF Answer
<1> QED BY <1>1, <1>4 DEF Decide, TypeOK

-----------------------------------------------------------------------------
LEMMA InitInv == Init => IInv
<1> SUFFICES ASSUME Init PROVE IInv
  OBVIOUS
<1>1. TypeOK
  BY Numbers DEF Init, TypeOK, Instants, Places
<1>2. Quota
  BY Numbers DEF Init, Quota, OneRow, LockedExpired, Lateness, Future, Recent, Earlier,
                 Vacant, Counted, Instants
<1> QED BY <1>1, <1>2 DEF IInv

LEMMA StepType ==
  ASSUME TypeOK, [Next]_vars
  PROVE  TypeOK'
<1>1. ASSUME NEW r \in Requests, Consume(r) PROVE TypeOK'
  BY <1>1 DEF Consume, TypeOK, Goto, Places
<1>2. ASSUME NEW r \in Requests, CleanupDelete(r) PROVE TypeOK'
  BY <1>2 DEF CleanupDelete, TypeOK, Goto, Places, Expired
<1>3. ASSUME NEW r \in Requests, CleanupEnd(r) PROVE TypeOK'
  BY <1>3 DEF CleanupEnd, TypeOK, Goto, Places
<1>4. ASSUME NEW r \in Requests, Start(r) PROVE TypeOK'
  BY <1>4 DEF Start, TypeOK, Goto, Places
<1>5. ASSUME NEW r \in Requests, Upsert(r) PROVE TypeOK'
  <2>1. pc' \in [Requests -> Places]
    BY <1>5 DEF Upsert, TypeOK, Goto, Places
  <2>2. PICK b \in Row : Decide(r, b) /\ buckets' \subseteq buckets \union {b}
    BY <1>5, UpsertedRow DEF Upsert
  <2>3. buckets' \subseteq Row
    BY <2>2 DEF TypeOK
  <2> QED BY <1>5, <2>1, <2>2, <2>3, DecideType DEF Upsert, TypeOK
<1>6. CASE Tick
  BY <1>6, Numbers DEF Tick, TypeOK, Instants
<1>7. CASE UNCHANGED vars
  BY <1>7 DEF TypeOK, vars
<1>8. ASSUME NEW r \in Requests, UpsertTimesOut(r) PROVE TypeOK'
  BY <1>8 DEF UpsertTimesOut, TypeOK, Goto, Places
<1> QED BY <1>1, <1>2, <1>3, <1>4, <1>5, <1>6, <1>7, <1>8 DEF Next, Step, Finished

-----------------------------------------------------------------------------
(***************************************************************************)
(* The upsert                                                              *)
(***************************************************************************)
\* What an upsert does to the rows and the history: b is the row it leaves to the
\* identity of the request.
Outcome(r, b) ==
  /\ b \in Row /\ b.id = IdentityOf[r]
  /\ buckets' = {c \in buckets : c.id # b.id} \union {b}
  /\ Decide(r, b)

\* It opens a window, at its own now(), or counts one more in a window that is open.
LEMMA UpsertOutcome ==
  ASSUME TypeOK, OneRow, NEW r \in Requests, Upsert(r)
  PROVE  \E b \in Row :
           /\ Outcome(r, b)
           /\ \/ /\ b.count = 1 /\ b.exp = now[r] + Window
                 /\ \A c \in BucketsOf(r) : c.exp <= now[r]
              \/ \E c \in BucketsOf(r) :
                   /\ c.exp > now[r]
                   /\ b.exp = c.exp /\ b.count = c.count + 1
<1> DEFINE Opened(b) == /\ b.count = 1 /\ b.exp = now[r] + Window
                        /\ \A c \in BucketsOf(r) : c.exp <= now[r]
           OneUp(b)  == \E c \in BucketsOf(r) :
                          c.exp > now[r] /\ b.exp = c.exp /\ b.count = c.count + 1
<1>1. CASE BucketsOf(r) = {}
  <2> DEFINE b == [id |-> IdentityOf[r], count |-> 1, exp |-> now[r] + Window]
  <2>1. b \in Row /\ b.id = IdentityOf[r] /\ b.count = 1 /\ b.exp = now[r] + Window
    BY UpsertedRow
  <2>2. buckets' = buckets \union {b} /\ Decide(r, b)
    BY <1>1 DEF Upsert
  <2>3. buckets = {c \in buckets : c.id # b.id}
    BY <1>1, <2>1 DEF BucketsOf
  <2>4. Outcome(r, b)
    BY <2>1, <2>2, <2>3 DEF Outcome
  <2>5. Opened(b)
    BY <1>1, <2>1
  <2> QED BY <2>1, <2>4, <2>5
<1>2. CASE BucketsOf(r) # {}
  <2>1. PICK c \in BucketsOf(r) :
          buckets' = (buckets \ {c}) \union {Bumped(r, c)} /\ Decide(r, Bumped(r, c))
    BY <1>2 DEF Upsert
  <2> DEFINE b == Bumped(r, c)
  <2>2. b \in Row /\ b.id = IdentityOf[r]
    BY UpsertedRow
  <2>3. c \in buckets /\ c \in Row /\ c.id = IdentityOf[r]
    BY DEF BucketsOf, TypeOK
  <2>4. \A d \in buckets : d.id = IdentityOf[r] => d = c
    BY <2>3 DEF OneRow
  <2>5. buckets \ {c} = {d \in buckets : d.id # b.id}
    BY <2>2, <2>3, <2>4
  <2>6. Outcome(r, b)
    BY <2>1, <2>2, <2>5 DEF Outcome
  <2>7. Opened(b) \/ OneUp(b)
    <3>1. CASE c.exp <= now[r]
      <4>1. b.count = 1 /\ b.exp = now[r] + Window
        BY <3>1, <2>3 DEF Bumped, Row
      <4>2. \A d \in BucketsOf(r) : d.exp <= now[r]
        BY <3>1, <2>4 DEF BucketsOf
      <4> QED BY <4>1, <4>2
    <3>2. CASE ~(c.exp <= now[r])
      <4>1. b.count = c.count + 1 /\ b.exp = c.exp
        BY <3>2, <2>3 DEF Bumped, Row
      <4>2. c.exp > now[r]
        BY <3>2, <2>3 DEF TypeOK, Instants, Row
      <4> QED BY <4>1, <4>2
    <3> QED BY <3>1, <3>2
  <2> QED BY <2>2, <2>6, <2>7
<1> QED BY <1>1, <1>2

\* The history of the one identity whose request is allowed moves by one, up to now.
LEMMA HistoryStep ==
  ASSUME TypeOK, NEW r \in Requests, NEW b \in Row, Outcome(r, b)
  PROVE  /\ b.id \in Identities
         /\ \A i \in Identities, t \in Instants : i # b.id => since'[i][t] = since[i][t]
         /\ \A t \in Instants : since'[b.id][t] =
              IF b.count <= Limit /\ t <= clock THEN since[b.id][t] + 1 ELSE since[b.id][t]
<1>1. b.id \in Identities
  BY DEF Row
<1>2. CASE b.count <= Limit
  <2>1. since' = [since EXCEPT ![b.id] =
           [t \in Instants |-> IF t <= clock THEN since[b.id][t] + 1 ELSE since[b.id][t]]]
    BY <1>2 DEF Outcome, Decide, OneMore
  <2>2. since'[b.id] =
          [t \in Instants |-> IF t <= clock THEN since[b.id][t] + 1 ELSE since[b.id][t]]
    BY <1>1, <2>1 DEF TypeOK
  <2>3. \A i \in Identities : i # b.id => since'[i] = since[i]
    BY <2>1 DEF TypeOK
  <2> QED BY <1>1, <1>2, <2>2, <2>3
<1>3. CASE ~(b.count <= Limit)
  BY <1>1, <1>3 DEF Outcome, Decide
<1> QED BY <1>1, <1>2, <1>3

\* A new window.
LEMMA OpenKeepsQuota ==
  ASSUME IInv, NEW r \in Requests, NEW b \in Row, Outcome(r, b),
         now[r] <= clock, clock <= now[r] + MaxWait,
         b.count = 1, b.exp = now[r] + Window, \A c \in BucketsOf(r) : c.exp <= now[r],
         UNCHANGED <<clock, cleaning>>
  PROVE  Recent' /\ Earlier' /\ Counted'
<1> USE DEF IInv, Quota
<1>1. /\ clock \in Nat /\ now[r] \in Nat /\ now[r] \in Instants /\ clock \in Instants
      /\ Limit >= 1 /\ Limit \in Nat /\ Window \in Nat /\ MaxWait \in Nat
      /\ Instants \subseteq Nat /\ 0 .. clock \subseteq Instants
  BY Numbers DEF TypeOK, Instants
<1>2. \A t \in Instants : since[b.id][t] \in Nat /\ since'[b.id][t] \in Nat
  BY HistoryStep DEF TypeOK
<1>3. \A t \in Instants :
        since'[b.id][t] = IF t <= clock THEN since[b.id][t] + 1 ELSE since[b.id][t]
  BY <1>1, HistoryStep
\* A short interval saw less than the limit before.
<1>4. \A t \in Instants : clock - t < Window - MaxWait => since[b.id][t] < Limit
  <2>1. CASE BucketsOf(r) = {}
    <3>1. \A c \in buckets : c.id # b.id
      BY <2>1 DEF BucketsOf, Outcome
    <3> QED BY <3>1, HistoryStep DEF Vacant
  <2>2. CASE BucketsOf(r) # {}
    <3>1. PICK c \in buckets : c.id = b.id /\ c.exp <= now[r] /\ c.exp \in Nat
      BY <2>2 DEF BucketsOf, Outcome, TypeOK, Row
    <3>2. ASSUME NEW t \in Instants, clock - t < Window - MaxWait
          PROVE  t > c.exp - Window + MaxWait
      BY <1>1, <3>1, <3>2
    <3> QED BY <3>1, <3>2 DEF Recent
  <2> QED BY <2>1, <2>2
<1>5. ASSUME NEW c \in buckets', c # b
      PROVE  c \in buckets /\ c.id # b.id /\ c.id \in Identities
             /\ \A t \in Instants : since'[c.id][t] = since[c.id][t]
  <2>1. c \in buckets /\ c.id # b.id
    BY <1>5 DEF Outcome
  <2>2. c.id \in Identities
    BY <2>1 DEF TypeOK, Row
  <2> QED BY <2>1, <2>2, HistoryStep
<1>6. ASSUME NEW t \in Instants, t > b.exp - Window + MaxWait
      PROVE  since'[b.id][t] < b.count /\ since'[b.id][t] < Limit
  <2>1. t > clock
    BY <1>1, <1>6
  <2>2. since[b.id][t] = 0
    BY <2>1, HistoryStep DEF Future
  <2> QED BY <1>1, <1>3, <2>1, <2>2
<1>7. Recent'
  BY <1>5, <1>6 DEF Recent
<1>8. ASSUME NEW t \in Instants, clock - t < Window - MaxWait
      PROVE  since'[b.id][t] < Limit + b.count /\ since'[b.id][t] < 2 * Limit
  BY <1>1, <1>2, <1>3, <1>4, <1>8
<1>9. Earlier'
  BY <1>5, <1>8 DEF Earlier
<1>10. b.exp - Window \in 0 .. clock /\ since'[b.id][b.exp - Window] >= b.count
  <2>1. b.exp - Window = now[r]
    BY <1>1
  <2> QED BY <1>1, <1>2, <1>3, <2>1
<1>11. Counted'
  <2>1. ASSUME NEW c \in buckets', c # b
        PROVE  /\ c.exp - Window \in 0 .. clock
               /\ \/ since'[c.id][c.exp - Window] >= Limit
                  \/ since'[c.id][c.exp - Window] >= c.count
    <3>1. c.exp - Window \in 0 .. clock /\ c.exp - Window \in Instants
      BY <1>1, <1>5, <2>1 DEF Counted
    <3> QED BY <1>5, <2>1, <3>1 DEF Counted
  <2> QED BY <1>10, <2>1 DEF Counted
<1> QED BY <1>7, <1>9, <1>11

\* One more in an open window.
LEMMA CountKeepsQuota ==
  ASSUME IInv, NEW r \in Requests, NEW b \in Row, Outcome(r, b),
         NEW c \in BucketsOf(r), b.exp = c.exp, b.count = c.count + 1,
         UNCHANGED <<clock, cleaning>>
  PROVE  Recent' /\ Earlier' /\ Counted'
<1> USE DEF IInv, Quota
<1>1. /\ clock \in Nat /\ Limit \in Nat /\ Window \in Nat /\ MaxWait \in Nat
      /\ Instants \subseteq Nat /\ 0 .. clock \subseteq Instants
  BY Numbers DEF TypeOK, Instants
<1>2. c \in buckets /\ c \in Row /\ c.id = b.id /\ c.count \in Nat /\ c.exp \in Nat
  BY DEF BucketsOf, Outcome, TypeOK, Row
<1>3. \A t \in Instants : since[b.id][t] \in Nat
  BY HistoryStep DEF TypeOK
<1>4. \A t \in Instants :
        \/ since'[b.id][t] = since[b.id][t] /\ (b.count > Limit \/ t > clock)
        \/ since'[b.id][t] = since[b.id][t] + 1 /\ b.count <= Limit /\ t <= clock
  BY <1>1, <1>2, HistoryStep
<1>5. ASSUME NEW d \in buckets', d # b
      PROVE  d \in buckets /\ d.id # b.id /\ d.id \in Identities
             /\ \A t \in Instants : since'[d.id][t] = since[d.id][t]
  <2>1. d \in buckets /\ d.id # b.id
    BY <1>5 DEF Outcome
  <2>2. d.id \in Identities
    BY <2>1 DEF TypeOK, Row
  <2> QED BY <2>1, <2>2, HistoryStep
<1>6. ASSUME NEW t \in Instants, t > b.exp - Window + MaxWait
      PROVE  since'[b.id][t] < b.count /\ since'[b.id][t] < Limit
  <2>1. since[b.id][t] < c.count /\ since[b.id][t] < Limit
    BY <1>2, <1>6 DEF Recent
  <2> QED BY <1>1, <1>2, <1>3, <1>4, <2>1
<1>7. Recent'
  BY <1>5, <1>6 DEF Recent
<1>8. ASSUME NEW t \in Instants, clock - t < Window - MaxWait
      PROVE  since'[b.id][t] < Limit + b.count /\ since'[b.id][t] < 2 * Limit
  <2>1. since[b.id][t] < Limit + c.count /\ since[b.id][t] < 2 * Limit
    BY <1>2, <1>8 DEF Earlier
  <2> QED BY <1>1, <1>2, <1>3, <1>4, <2>1
<1>9. Earlier'
  BY <1>5, <1>8 DEF Earlier
<1>10. b.exp - Window \in 0 .. clock
       /\ (since'[b.id][b.exp - Window] >= Limit \/ since'[b.id][b.exp - Window] >= b.count)
  <2> DEFINE o == b.exp - Window
  <2>1. o \in 0 .. clock /\ o \in Instants
        /\ (since[b.id][o] >= Limit \/ since[b.id][o] >= c.count)
    BY <1>1, <1>2 DEF Counted
  <2> HIDE DEF o
  <2>2. since'[b.id][o] >= Limit \/ since'[b.id][o] >= b.count
    BY <1>1, <1>2, <1>3, <1>4, <2>1
  <2> QED BY <2>1, <2>2 DEF o
<1>11. Counted'
  <2>1. ASSUME NEW d \in buckets', d # b
        PROVE  /\ d.exp - Window \in 0 .. clock
               /\ \/ since'[d.id][d.exp - Window] >= Limit
                  \/ since'[d.id][d.exp - Window] >= d.count
    <3>1. d.exp - Window \in 0 .. clock /\ d.exp - Window \in Instants
      BY <1>1, <1>5, <2>1 DEF Counted
    <3> QED BY <1>5, <2>1, <3>1 DEF Counted
  <2> QED BY <1>10, <2>1 DEF Counted
<1> QED BY <1>7, <1>9, <1>11

LEMMA UpsertKeepsQuota ==
  ASSUME IInv, NEW r \in Requests, Upsert(r)
  PROVE  Quota'
<1> USE DEF IInv, Quota
<1>1. PICK b \in Row :
        /\ Outcome(r, b)
        /\ \/ /\ b.count = 1 /\ b.exp = now[r] + Window
              /\ \A c \in BucketsOf(r) : c.exp <= now[r]
           \/ \E c \in BucketsOf(r) :
                /\ c.exp > now[r]
                /\ b.exp = c.exp /\ b.count = c.count + 1
  BY UpsertOutcome
<1>2. UNCHANGED <<clock, cleaning, now>> /\ pc' = [pc EXCEPT ![r] = "done"] /\ pc[r] = "upsert"
  BY DEF Upsert, Goto
<1>3. Recent' /\ Earlier' /\ Counted'
  BY <1>1, <1>2, OpenKeepsQuota, CountKeepsQuota DEF Lateness
<1>4. OneRow'
  BY <1>1 DEF Outcome, OneRow
<1>5. LockedExpired'
  BY <1>2 DEF LockedExpired
<1>6. Lateness'
  BY <1>2 DEF Lateness, TypeOK
<1>7. Future'
  <2>1. ASSUME NEW i \in Identities, NEW t \in Instants, t > clock
        PROVE  since'[i][t] = 0
    <3>1. since[i][t] = 0
      BY <2>1 DEF Future
    <3>2. ~(t <= clock)
      BY <2>1 DEF TypeOK, Instants
    <3>3. CASE i = b.id
      BY <1>1, <3>1, <3>2, <3>3, HistoryStep
    <3>4. CASE i # b.id
      BY <1>1, <3>1, <3>4, HistoryStep
    <3> QED BY <3>3, <3>4
  <2> QED BY <1>2, <2>1 DEF Future
<1>8. Vacant'
  <2>1. ASSUME NEW i \in Identities, \A c \in buckets' : c.id # i
        PROVE  i # b.id /\ \A c \in buckets : c.id # i
    BY <1>1, <2>1 DEF Outcome
  <2> QED BY <1>1, <1>2, <2>1, HistoryStep DEF Vacant
<1> QED BY <1>3, <1>4, <1>5, <1>6, <1>7, <1>8

LEMMA StepQuota ==
  ASSUME IInv, [Next]_vars
  PROVE  Quota'
<1> USE DEF IInv, Quota
\* A step that touches neither rows nor history nor clock.
<1>1. ASSUME UNCHANGED <<buckets, clock, since>>
      PROVE  OneRow' /\ Future' /\ Recent' /\ Earlier' /\ Vacant' /\ Counted'
  BY <1>1 DEF OneRow, Future, Recent, Earlier, Vacant, Counted
<1>2. ASSUME NEW r \in Requests, Consume(r) PROVE Quota'
  BY <1>1, <1>2 DEF Consume, Goto, LockedExpired, Lateness, TypeOK
<1>3. ASSUME NEW r \in Requests, CleanupDelete(r) PROVE Quota'
  <2>1. LockedExpired'
    BY <1>3 DEF CleanupDelete, LockedExpired, Expired, TypeOK
  <2>2. Lateness'
    BY <1>3 DEF CleanupDelete, Goto, Lateness, TypeOK
  <2> QED BY <1>1, <1>3, <2>1, <2>2 DEF CleanupDelete
<1>4. ASSUME NEW r \in Requests, CleanupEnd(r) PROVE Quota'
  <2>1. UNCHANGED <<clock, now, since>> /\ buckets' \subseteq buckets
    BY <1>4 DEF CleanupEnd
  <2>2. OneRow' /\ Future' /\ Recent' /\ Earlier' /\ Counted'
    BY <2>1 DEF OneRow, Future, Recent, Earlier, Counted
  <2>3. LockedExpired'
    BY <1>4 DEF CleanupEnd, LockedExpired, TypeOK
  <2>4. Lateness'
    BY <1>4 DEF CleanupEnd, Goto, Lateness, TypeOK
  <2>5. Vacant'
    <3>1. ASSUME NEW i \in Identities, NEW t \in Instants, NEW b \in buckets,
                 b.id = i, b \notin buckets', clock - t < Window - MaxWait
          PROVE  since[i][t] < Limit
      <4>1. b \in cleaning[r]
        BY <1>4, <3>1 DEF CleanupEnd
      <4>2. b.exp <= clock /\ b.exp \in Nat
        BY <4>1 DEF LockedExpired, TypeOK, Row
      <4>3. t > b.exp - Window + MaxWait
        BY <3>1, <4>2, Numbers DEF TypeOK, Instants
      <4> QED BY <3>1, <4>3 DEF Recent
    <3> QED BY <2>1, <3>1 DEF Vacant
  <2> QED BY <2>2, <2>3, <2>4, <2>5
<1>5. ASSUME NEW r \in Requests, Start(r) PROVE Quota'
  <2>1. Lateness'
    BY <1>5, Numbers DEF Start, Goto, Lateness, TypeOK, Instants
  <2> QED BY <1>1, <1>5, <2>1 DEF Start, LockedExpired
<1>6. ASSUME NEW r \in Requests, Upsert(r) PROVE Quota'
  BY <1>6, UpsertKeepsQuota
<1>7. CASE Tick
  <2>1. clock' = clock + 1 /\ clock \in Nat /\ Instants \subseteq Nat
    BY <1>7 DEF Tick, TypeOK, Instants
  <2>2. UNCHANGED <<buckets, pc, cleaning, now, since>>
    BY <1>7 DEF Tick
  <2>3. \A b \in buckets : b.exp \in Nat
    BY DEF TypeOK, Row
  <2>4. OneRow' /\ Recent' 
    BY <2>2 DEF OneRow, Recent
  <2>5. LockedExpired'
    BY <2>1, <2>2 DEF LockedExpired, TypeOK, Row
  <2>6. Lateness'
    BY <1>7, <2>1, <2>2, Numbers DEF Tick, Lateness, TypeOK, Instants
  <2>7. Future'
    <3>1. \A t \in Instants : t > clock' => t > clock
      BY <2>1
    <3> QED BY <2>2, <3>1 DEF Future
  <2>8. \A t \in Instants : clock' - t < Window - MaxWait => clock - t < Window - MaxWait
    BY <2>1, Numbers
  <2>9. Earlier' /\ Vacant'
    BY <2>2, <2>8 DEF Earlier, Vacant
  <2>10. Counted'
    BY <2>1, <2>2 DEF Counted
  <2> QED BY <2>4, <2>5, <2>6, <2>7, <2>9, <2>10
<1>8. CASE UNCHANGED vars
  BY <1>1, <1>8 DEF vars, LockedExpired, Lateness
<1>9. ASSUME NEW r \in Requests, UpsertTimesOut(r) PROVE Quota'
  BY <1>1, <1>9 DEF UpsertTimesOut, Goto, LockedExpired, Lateness, TypeOK
<1> QED BY <1>2, <1>3, <1>4, <1>5, <1>6, <1>7, <1>8, <1>9 DEF Next, Step, Finished

LEMMA Inductive == Spec => []IInv
<1>1. IInv /\ [Next]_vars => IInv'
  BY StepType, StepQuota DEF IInv
<1> QED BY <1>1, InitInv, PTL DEF Spec

LEMMA QuotaHolds == IInv => WindowQuota
<1> SUFFICES ASSUME IInv PROVE WindowQuota
  OBVIOUS
<1> USE DEF IInv, Quota
<1>1. ASSUME NEW i \in Identities, NEW t \in 0 .. clock, clock - t < Window - MaxWait
      PROVE  since[i][t] < 2 * Limit
  <2>1. t \in Instants /\ since[i][t] \in Nat
    BY Numbers DEF TypeOK, Instants
  <2>2. CASE \E b \in buckets : b.id = i
    BY <1>1, <2>1, <2>2 DEF Earlier
  <2>3. CASE \A b \in buckets : b.id # i
    <3>1. since[i][t] < Limit
      BY <1>1, <2>1, <2>3 DEF Vacant
    <3> QED BY <2>1, <3>1, Numbers
  <2> QED BY <2>2, <2>3
<1> QED BY <1>1 DEF WindowQuota

\* The step form of NoEarlyDenial
Earned ==
  \A r \in Requests : \A a \in answer'[r] \ answer[r] :
    ~a.allowed => \E t \in Instants :
      clock - t < Window + MaxWait /\ since[IdentityOf[r]][t] >= Limit

LEMMA StepEarned ==
  ASSUME IInv, [Next]_vars
  PROVE  [Earned]_vars
<1> USE DEF IInv, Quota
<1>1. ASSUME NEW r \in Requests, Upsert(r), NEW a \in answer'[r], ~a.allowed
      PROVE  \E t \in Instants :
               clock - t < Window + MaxWait /\ since[IdentityOf[r]][t] >= Limit
  <2>1. PICK b \in Row :
          /\ Decide(r, b)
          /\ b.count = 1 \/ \E c \in BucketsOf(r) : c.exp > now[r] /\ b.count = c.count + 1
    BY <1>1, UpsertOutcome DEF Outcome
  <2>2. ~(b.count <= Limit)
    <3>1. a = [allowed |-> b.count <= Limit, at |-> clock,
               total |-> since'[IdentityOf[r]][0], exp |-> b.exp,
               remaining |-> Remaining(b.count), reset |-> ResetAfter(b.exp)]
      BY <1>1, <2>1 DEF Decide, TypeOK
    <3>2. a.allowed = (b.count <= Limit)
      BY ONLY <3>1, Zenon
    <3> QED BY <1>1, <3>2, Zenon
  <2>3. PICK c \in buckets : /\ c.id = IdentityOf[r] /\ c.exp > now[r]
                             /\ c.count >= Limit /\ c.exp \in Nat /\ c.count \in Nat
    BY <2>1, <2>2, Numbers DEF BucketsOf, TypeOK, Row
  <2> DEFINE o == c.exp - Window
  <2>4. /\ o \in 0 .. clock /\ o \in Instants
        /\ since[IdentityOf[r]][o] >= Limit \/ since[IdentityOf[r]][o] >= c.count
    <3>1. o \in 0 .. clock
          /\ (since[IdentityOf[r]][o] >= Limit \/ since[IdentityOf[r]][o] >= c.count)
      BY <2>3 DEF Counted
    <3> QED BY <3>1, Numbers DEF TypeOK, Instants
  <2>5. since[IdentityOf[r]][o] >= Limit
    <3>1. since[IdentityOf[r]][o] \in Nat
      BY <2>4, Shapes DEF TypeOK
    <3> HIDE DEF o
    <3> QED BY <2>3, <2>4, <3>1, Numbers
  <2>6. clock - o < Window + MaxWait
    <3>1. clock <= now[r] + MaxWait /\ now[r] \in Nat /\ clock \in Nat
      BY <1>1 DEF Upsert, Lateness, TypeOK, Instants
    <3> QED BY <2>3, <3>1, Numbers
  <2> QED BY <2>4, <2>5, <2>6
<1>2. ASSUME NEW r \in Requests, Upsert(r) PROVE Earned
  <2>1. \A q \in Requests : q # r => answer'[q] = answer[q]
    BY <1>2 DEF Upsert, Decide, TypeOK
  <2> QED BY <1>1, <1>2, <2>1 DEF Earned
<1>3. ASSUME answer' = answer PROVE Earned
  BY <1>3 DEF Earned
<1>4. CASE \E r \in Requests : Step(r)
  BY <1>2, <1>3, <1>4 DEF Step, Consume, CleanupDelete, CleanupEnd, Start, UpsertTimesOut
<1>5. CASE Tick
  BY <1>3, <1>5 DEF Tick
<1> QED BY <1>4, <1>5 DEF Next, Finished

-----------------------------------------------------------------------------
(***************************************************************************)
(* The truth of the delays                                                 *)
(***************************************************************************)
\* A decision knows the end of the newest window, as long as nobody else of its
\* identity was allowed.
Decided ==
  \A r \in Requests : \A a \in answer[r] :
    /\ a.total <= since[IdentityOf[r]][0]
    /\ a.reset = WholeSeconds(Until(a.exp, a.at))
    /\ a.total = since[IdentityOf[r]][0] => \A b \in BucketsOf(r) : b.exp <= a.exp

LEMMA UpsertDecided ==
  ASSUME IInv, Decided, NEW r \in Requests, Upsert(r)
  PROVE  Decided'
<1> USE DEF IInv, Quota
<1>1. PICK b \in Row :
        Outcome(r, b) /\ (b.count = 1 \/ \E c \in BucketsOf(r) : b.exp = c.exp)
  BY UpsertOutcome
<1>2. b.id = IdentityOf[r] /\ b.id \in Identities /\ 0 \in Instants /\ 0 <= clock
      /\ clock \in Nat
  <2>1. b.id = IdentityOf[r] /\ b.id \in Identities
    BY <1>1, HistoryStep DEF Outcome
  <2> QED BY <2>1, Numbers DEF TypeOK, Instants
<1>3. /\ \A i \in Identities : since[i][0] \in Nat /\ since'[i][0] \in Nat
      /\ \A i \in Identities : i # b.id => since'[i][0] = since[i][0]
      /\ since'[b.id][0] = IF b.count <= Limit THEN since[b.id][0] + 1 ELSE since[b.id][0]
  BY <1>1, <1>2, HistoryStep DEF TypeOK
<1>4. \A q \in Requests : \A d \in BucketsOf(q)' :
        \/ d \in BucketsOf(q) /\ IdentityOf[q] # b.id
        \/ d = b /\ IdentityOf[q] = b.id
  BY <1>1, <1>2 DEF Outcome, BucketsOf
<1>5. ASSUME NEW a \in answer'[r]
      PROVE  /\ a.total = since'[b.id][0] /\ a.exp = b.exp
             /\ a.reset = WholeSeconds(Until(a.exp, a.at))
  <2>1. a = [allowed |-> b.count <= Limit, at |-> clock,
             total |-> since'[IdentityOf[r]][0], exp |-> b.exp,
             remaining |-> Remaining(b.count), reset |-> ResetAfter(b.exp)]
    BY <1>1, <1>5 DEF Outcome, Decide, TypeOK
  <2>2. /\ a.total = since'[IdentityOf[r]][0] /\ a.exp = b.exp /\ a.at = clock
        /\ a.reset = ResetAfter(b.exp)
    BY ONLY <2>1, Zenon
  <2> QED BY <1>2, <2>2 DEF ResetAfter
<1>6. ASSUME NEW q \in Requests, q # r, NEW a \in answer'[q]
      PROVE  /\ a.total <= since'[IdentityOf[q]][0]
             /\ a.reset = WholeSeconds(Until(a.exp, a.at))
             /\ a.total = since'[IdentityOf[q]][0] => \A d \in BucketsOf(q)' : d.exp <= a.exp
  <2>1. /\ a \in answer[q] /\ a.total \in Nat /\ a.exp \in Nat
        /\ IdentityOf[q] \in Identities
    <3>1. answer'[q] = answer[q]
      BY <1>1, <1>6 DEF Outcome, Decide, TypeOK
    <3>2. answer[q] \subseteq Answer
      BY DEF TypeOK
    <3> QED BY <1>6, <3>1, <3>2, Shapes DEF Answer
  <2>2. CASE IdentityOf[q] # b.id
    BY <1>3, <1>4, <2>1, <2>2 DEF Decided
  <2>3. CASE IdentityOf[q] = b.id
    <3>1. CASE b.count <= Limit
      BY <1>3, <2>1, <2>3, <3>1 DEF Decided
    <3>2. CASE ~(b.count <= Limit)
      <4>1. PICK c \in BucketsOf(r) : b.exp = c.exp
        BY <1>1, <3>2, Numbers
      <4>2. c \in BucketsOf(q)
        BY <1>2, <2>3 DEF BucketsOf
      <4> QED BY <1>3, <1>4, <2>1, <2>3, <3>2, <4>1, <4>2 DEF Decided
    <3> QED BY <3>1, <3>2
  <2> QED BY <2>2, <2>3
<1>7. ASSUME NEW a \in answer'[r], NEW d \in BucketsOf(r)'
      PROVE  d.exp <= a.exp
  BY <1>2, <1>4, <1>5 DEF Row
<1> QED
  <2>1. ASSUME NEW q \in Requests, NEW a \in answer'[q]
        PROVE  /\ a.total <= since'[IdentityOf[q]][0]
               /\ a.reset = WholeSeconds(Until(a.exp, a.at))
               /\ a.total = since'[IdentityOf[q]][0] =>
                    \A d \in BucketsOf(q)' : d.exp <= a.exp
    BY <1>2, <1>3, <1>5, <1>6, <1>7
  <2> QED BY <2>1 DEF Decided

LEMMA StepDecided ==
  ASSUME IInv, Decided, [Next]_vars
  PROVE  Decided'
<1>1. ASSUME answer' = answer, since' = since, buckets' \subseteq buckets
      PROVE  Decided'
  BY <1>1 DEF Decided, BucketsOf
<1>2. ASSUME NEW r \in Requests, Step(r) PROVE Decided'
  BY <1>1, <1>2, UpsertDecided DEF Step, Consume, CleanupDelete, CleanupEnd, Start, UpsertTimesOut
<1>3. CASE Tick
  BY <1>1, <1>3 DEF Tick
<1>4. CASE UNCHANGED vars
  BY <1>1, <1>4 DEF vars
<1> QED BY <1>2, <1>3, <1>4 DEF Next, Finished

LEMMA DelaysHold == IInv /\ Decided => RetryAfterHonest
<1> SUFFICES ASSUME IInv, Decided, NEW r \in Requests, NEW a \in answer[r],
                    a.total = since[IdentityOf[r]][0], Waited(a.at, a.reset, clock),
                    NEW b \in BucketsOf(r)
             PROVE  b \in Expired
  BY DEF RetryAfterHonest
<1>1. b \in buckets /\ b.exp \in Nat /\ a.exp \in Nat /\ a.at \in Nat /\ clock \in Nat
  BY DEF IInv, TypeOK, BucketsOf, Row, Answer, Instants
<1>2. b.exp <= a.exp /\ a.reset = WholeSeconds(Until(a.exp, a.at))
  BY DEF Decided
<1>3. Until(a.exp, a.at) \in Int
  <2>1. a.exp \in Int /\ a.at \in Int
    BY <1>1
  <2> QED BY <2>1, TruncationBound, Zenon
<1>4. Until(a.exp, a.at) - 0 <= Until(a.exp, a.at)
  BY <1>3
<1>5. a.exp - 0 <= clock
  BY <1>1, <1>2, <1>3, <1>4, WaitedPast
<1> QED BY <1>1, <1>2, <1>5 DEF Expired

-----------------------------------------------------------------------------
\* Every variable has its type: in particular the decision satisfies what the
\* middleware demands of it, a quota between 0 and the limit and delays above zero.
THEOREM FixedWindowTypes == Spec => []TypeOK
<1>1. IInv => TypeOK
  BY DEF IInv
<1> QED BY <1>1, Inductive, PTL

\* No interval shorter than Window - MaxWait admits twice the limit.
THEOREM FixedWindowQuota == Spec => []WindowQuota
BY QuotaHolds, Inductive, PTL

\* A denial means that the limit was used up within Window + MaxWait.
THEOREM DenialsEarned == Spec => NoEarlyDenial
<1>1. IInv /\ [Next]_vars => [Earned]_vars
  BY StepEarned
<1>2. Spec => [][Earned]_vars
  BY <1>1, Inductive, PTL DEF Spec
<1> QED BY <1>2 DEF NoEarlyDenial, Earned

\* Whoever waits as told finds a new window.
THEOREM DelaysTrue == Spec => []RetryAfterHonest
<1>1. Init => Decided
  BY DEF Init, Decided
<1>2. IInv /\ Decided /\ [Next]_vars => Decided'
  BY StepDecided
<1>3. Spec => []Decided
  BY <1>1, <1>2, Inductive, PTL DEF Spec
<1> QED BY <1>3, Inductive, DelaysHold, PTL
=============================================================================
