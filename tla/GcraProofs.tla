----------------------------- MODULE GcraProofs -----------------------------
(***************************************************************************)
(* What holds of GcraRateLimiter for any requests, identities and policy.  *)
(***************************************************************************)
EXTENDS GcraRateLimiter, TLAPS

-----------------------------------------------------------------------------
(***************************************************************************)
(* The delays derived from database timestamps are long enough             *)
(***************************************************************************)
LEMMA DivFloor ==
  ASSUME NEW a \in Int, NEW m \in Nat \ {0}
  PROVE  /\ a \div m \in Int
         /\ (a \div m) * m <= a
         /\ a < (a \div m) * m + m
BY Z3

\* Truncating both timestamps loses less than a millisecond.
LEMMA TruncationBound ==
  ASSUME NEW t \in Int, NEW later \in Int
  PROVE  Until(t, later) \in Int /\ t - later <= Until(t, later) + Milli - 1
<1> DEFINE x == t \div Milli
           y == later \div Milli
<1>1. x \in Int /\ t < x * Milli + Milli
  BY DivFloor, Units
<1>2. y \in Int /\ y * Milli <= later
  BY DivFloor, Units
<1> HIDE DEF x, y
<1>3. (x - y) * Milli = x * Milli - y * Milli /\ x * Milli \in Int /\ y * Milli \in Int
  BY <1>1, <1>2, Units
<1>4. (x - y) * Milli \in Int /\ t - later <= (x - y) * Milli + Milli - 1
  BY <1>1, <1>2, <1>3, Units
<1> QED BY <1>4 DEF x, y, Until

\* A delay in seconds is positive and not shorter than the time it stands for.
LEMMA SecondsCover ==
  ASSUME NEW ticks \in Int
  PROVE  WholeSeconds(ticks) \in Nat \ {0} /\ ticks <= WholeSeconds(ticks) * Second
<1> DEFINE q == (ticks + Second - 1) \div Second
<1>1. q \in Int /\ ticks + Second - 1 < q * Second + Second
  BY DivFloor, Units
<1>2. WholeSeconds(ticks) = IF 1 < q THEN q ELSE 1
  BY DEF WholeSeconds, Later
<1> HIDE DEF q
<1>3. q * Second \in Int /\ ticks <= q * Second
  BY <1>1, Units
<1>4. CASE 1 < q
  BY <1>1, <1>2, <1>3, <1>4
<1>5. CASE ~(1 < q)
  <2>1. q * Second <= 1 * Second
    <3>1. (1 - q) * Second >= 0 /\ (1 - q) * Second = 1 * Second - q * Second
      BY <1>1, <1>5, Units
    <3> QED BY <1>3, <3>1, Units
  <2> QED BY <1>2, <1>3, <1>5, <2>1, Units
<1> QED BY <1>4, <1>5

\* Who has waited a delay that covers a deadline is past the deadline.
LEMMA WaitedPast ==
  ASSUME NEW t \in Int, NEW asked \in Int, NEW later \in Int, NEW early \in Int,
         NEW ticks \in Int, Until(t, asked) - early <= ticks,
         Waited(asked, WholeSeconds(ticks), later)
  PROVE  t - early <= later
<1> DEFINE d == Until(t, asked)
           s == WholeSeconds(ticks) * Second
<1>1. d \in Int /\ t - asked <= d + Milli - 1
  BY TruncationBound
<1>2. WholeSeconds(ticks) \in Nat /\ d - early <= s
  BY <1>1, SecondsCover, Units
<1>3. s \in Int
  BY <1>2, Units
<1>4. later >= asked + s + Milli - 1
  BY DEF Waited
<1> HIDE DEF d, s
<1> QED BY <1>1, <1>2, <1>3, <1>4, Units

-----------------------------------------------------------------------------
(***************************************************************************)
(* Multiples of the emission interval                                      *)
(***************************************************************************)
LEMMA OneMoreInterval ==
  ASSUME NEW n \in Nat
  PROVE  n * Interval \in Nat /\ (n + 1) * Interval = n * Interval + Interval
BY Numbers

LEMMA BurstLength ==
  /\ Tolerance \in Nat /\ Limit * Interval \in Nat
  /\ Tolerance + Interval = Limit * Interval
<1>1. Interval * (Limit - 1) = Limit * Interval - Interval
  BY Numbers
<1>2. (Limit - 1) \in Nat /\ Interval * (Limit - 1) \in Nat
  BY Numbers
<1> QED BY <1>1, <1>2, Numbers DEF Tolerance

LEMMA Excess ==
  ASSUME NEW n \in Nat
  PROVE  (n - Limit) * Interval = n * Interval - Limit * Interval
BY Numbers

LEMMA MultiplesOrdered ==
  ASSUME NEW a \in Int, NEW b \in Int, a * Interval < b * Interval
  PROVE  a < b
<1> SUFFICES ASSUME b <= a PROVE FALSE
  OBVIOUS
<1>1. (a - b) \in Nat /\ (a - b) * Interval = a * Interval - b * Interval
  BY Numbers
<1>2. (a - b) * Interval \in Nat
  BY <1>1, Numbers
<1>3. a * Interval \in Int /\ b * Interval \in Int
  BY Numbers
<1> QED BY <1>1, <1>2, <1>3

-----------------------------------------------------------------------------
(***************************************************************************)
(* Types                                                                   *)
(***************************************************************************)
LEMMA DebtType ==
  ASSUME NEW tat \in Int, clock \in Nat
  PROVE  Debt(tat) \in Nat
<1>1. Until(tat, clock) \in Int
  BY TruncationBound
<1> QED BY <1>1 DEF Debt, Later

LEMMA RemainingBounded ==
  ASSUME NEW tat \in Int, clock \in Nat
  PROVE  Remaining(tat) \in 0 .. Limit
<1> DEFINE x == Tolerance - Debt(tat)
           q == x \div Interval
<1>1. CASE Debt(tat) > Tolerance
  BY <1>1, Numbers DEF Remaining
<1>2. CASE ~(Debt(tat) > Tolerance)
  <2>1. x \in Nat /\ x <= Tolerance
    BY <1>2, DebtType, BurstLength
  <2> HIDE DEF x
  <2>2. q \in Int /\ q * Interval <= x /\ x < q * Interval + Interval
    BY <2>1, DivFloor, Numbers
  <2> HIDE DEF q
  <2>3. (q + 1) * Interval = q * Interval + Interval /\ q * Interval \in Int /\ 0 * Interval = 0
    BY <2>2, Numbers
  <2>4. 0 < q + 1
    BY <2>1, <2>2, <2>3, MultiplesOrdered, Numbers
  <2>5. q < Limit
    <3>1. q * Interval < Limit * Interval
      BY <2>1, <2>2, <2>3, BurstLength, Numbers
    <3> QED BY <2>2, <3>1, MultiplesOrdered, Numbers
  <2>6. Remaining(tat) = q + 1
    BY <1>2 DEF Remaining, q, x
  <2> QED BY <2>2, <2>4, <2>5, <2>6, Numbers
<1> QED BY <1>1, <1>2

LEMMA HistoryType ==
  ASSUME TypeOK, NEW r \in Requests, NEW tat \in Nat, NEW at \in Nat, Allow(r, tat, at)
  PROVE  /\ IdentityOf[r] \in Identities
         /\ since' \in [Identities -> [Instants -> Nat]]
         /\ \A i \in Identities, t \in Instants :
              i # IdentityOf[r] => since'[i][t] = since[i][t]
         /\ \A t \in Instants :
              since'[IdentityOf[r]][t] =
                IF t <= at THEN since[IdentityOf[r]][t] + 1 ELSE since[IdentityOf[r]][t]
<1> DEFINE i == IdentityOf[r]
           counted == [t \in Instants |-> IF t <= at THEN since[i][t] + 1 ELSE since[i][t]]
<1>1. i \in Identities
  BY Shapes
<1>2. since' = [since EXCEPT ![i] = counted]
  BY DEF Allow
<1>3. counted \in [Instants -> Nat]
  BY <1>1 DEF TypeOK
<1>4. since'[i] = counted /\ \A j \in Identities : j # i => since'[j] = since[j]
  BY <1>1, <1>2 DEF TypeOK
<1>5. since' \in [Identities -> [Instants -> Nat]]
  BY <1>1, <1>2, <1>3 DEF TypeOK
<1> QED BY <1>1, <1>4, <1>5

LEMMA AllowType ==
  ASSUME TypeOK, NEW r \in Requests, NEW tat \in Nat, NEW at \in Nat, Allow(r, tat, at)
  PROVE  /\ pc' \in [Requests -> Places]
         /\ answer' \in [Requests -> SUBSET Answer]
         /\ last' \in [Identities -> Nat]
         /\ forgiven' \in [Identities -> Nat]
<1>1. pc' \in [Requests -> Places]
  BY DEF Allow, Goto, TypeOK, Places
<1>2. /\ clock \in Nat /\ 0 \in Instants
      /\ since[IdentityOf[r]][0] \in Nat
  BY Numbers, Shapes DEF TypeOK, Instants
<1>3. WholeSeconds(Debt(tat)) \in Nat \ {0} /\ Remaining(tat) \in 0 .. Limit
  BY <1>2, DebtType, SecondsCover, RemainingBounded
<1>4. [kind |-> "allowed", at |-> clock, total |-> since[IdentityOf[r]][0] + 1,
       remaining |-> Remaining(tat), reset |-> WholeSeconds(Debt(tat))] \in Answer
  BY <1>2, <1>3 DEF Answer
<1>5. last' \in [Identities -> Nat] /\ forgiven' \in [Identities -> Nat]
  <2>1. /\ IdentityOf[r] \in Identities /\ last \in [Identities -> Nat]
        /\ forgiven \in [Identities -> Nat]
    BY Shapes DEF TypeOK
  <2>2. Later(0, Earlier(last[IdentityOf[r]], clock) + Interval - tat) \in Nat
    BY <1>2, <2>1, Numbers DEF Later, Earlier
  <2> QED BY <2>1, <2>2 DEF Allow
<1> QED BY <1>1, <1>4, <1>5 DEF Allow, TypeOK

LEMMA DenialType ==
  ASSUME TypeOK, NEW r \in Requests, NEW b \in Row
  PROVE  [kind |-> "denied", at |-> clock, total |-> since[IdentityOf[r]][0],
          retryAfter |-> WholeSeconds(Debt(b.tat) - Tolerance),
          reset |-> WholeSeconds(Debt(b.tat))] \in Answer
<1>1. /\ clock \in Nat /\ 0 \in Instants /\ b.tat \in Int
      /\ since[IdentityOf[r]][0] \in Nat
  BY Numbers, Shapes DEF TypeOK, Instants, Row
<1>2. Debt(b.tat) \in Nat /\ Debt(b.tat) - Tolerance \in Int
  BY <1>1, DebtType, BurstLength
<1>3. /\ WholeSeconds(Debt(b.tat)) \in Nat \ {0}
      /\ WholeSeconds(Debt(b.tat) - Tolerance) \in Nat \ {0}
  BY <1>2, SecondsCover
<1> QED BY <1>1, <1>3 DEF Answer

\* Every write of a row is one of two.
LEMMA RowWritten ==
  ASSUME TypeOK, NEW r \in Requests, NEW at \in Nat
  PROVE  /\ InsertRow(r, at) =>
              \E b \in Row : /\ b.id = IdentityOf[r] /\ b.tat = at + Interval
                             /\ buckets' = buckets \union {b}
                             /\ gens' \in [Identities -> Nat]
                             /\ Allow(r, b.tat, at)
         /\ \A c \in BucketsOf(r) : Advance(r, c, at) =>
              \E b \in Row : /\ b.id = IdentityOf[r] /\ b.tat = Later(c.tat, at) + Interval
                             /\ buckets' = (buckets \ {c}) \union {b}
                             /\ Allow(r, b.tat, at)
<1>1. /\ IdentityOf[r] \in Identities /\ gens[IdentityOf[r]] + 1 \in Nat
      /\ at + Interval \in Nat
  BY Shapes, Numbers DEF TypeOK
<1>2. ASSUME InsertRow(r, at)
      PROVE  \E b \in Row : /\ b.id = IdentityOf[r] /\ b.tat = at + Interval
                            /\ buckets' = buckets \union {b}
                            /\ gens' \in [Identities -> Nat]
                            /\ Allow(r, b.tat, at)
  <2> DEFINE b == [id |-> IdentityOf[r], tat |-> at + Interval, gen |-> gens[IdentityOf[r]] + 1]
  <2>1. b \in Row /\ b.id = IdentityOf[r] /\ b.tat = at + Interval
    BY <1>1 DEF Row
  <2>2. buckets' = buckets \union {b} /\ Allow(r, at + Interval, at)
    BY <1>2 DEF InsertRow
  <2>3. gens' \in [Identities -> Nat]
    BY <1>1, <1>2 DEF InsertRow, TypeOK
  <2> QED BY <2>1, <2>2, <2>3
<1>3. ASSUME NEW c \in BucketsOf(r), Advance(r, c, at)
      PROVE  \E b \in Row : /\ b.id = IdentityOf[r] /\ b.tat = Later(c.tat, at) + Interval
                            /\ buckets' = (buckets \ {c}) \union {b}
                            /\ Allow(r, b.tat, at)
  <2> DEFINE tat == Later(c.tat, at) + Interval
             b == [c EXCEPT !.tat = tat]
  <2>1. c \in Row /\ c.id = IdentityOf[r]
    BY DEF BucketsOf, TypeOK
  <2>2. tat \in Nat
    BY <2>1, Numbers DEF Later, Row
  <2> HIDE DEF tat
  <2>3. b \in Row /\ b.id = IdentityOf[r] /\ b.tat = tat
    BY <2>1, <2>2 DEF Row
  <2>4. buckets' = (buckets \ {c}) \union {b} /\ Allow(r, tat, at)
    BY <1>3 DEF Advance, tat
  <2> QED BY <2>3, <2>4 DEF tat
<1> QED BY <1>2, <1>3

LEMMA StepType ==
  ASSUME TypeOK, [Next]_vars
  PROVE  TypeOK'
<1>1. ASSUME NEW r \in Requests, Consume(r) PROVE TypeOK'
  BY <1>1 DEF Consume, history, TypeOK, Goto, Places
<1>2. ASSUME NEW r \in Requests, CleanupDelete(r) PROVE TypeOK'
  BY <1>2 DEF CleanupDelete, history, TypeOK, Goto, Places, Expired
<1>3. ASSUME NEW r \in Requests, CleanupEnd(r) PROVE TypeOK'
  BY <1>3 DEF CleanupEnd, history, TypeOK, Goto, Places
<1>4. ASSUME NEW r \in Requests, Insert(r) PROVE TypeOK'
  <2>1. clock \in Nat
    BY DEF TypeOK, Instants
  <2>2. CASE InsertRow(r, clock) /\ UNCHANGED arrived
    <3>1. PICK b \in Row : /\ buckets' = buckets \union {b} /\ gens' \in [Identities -> Nat]
                           /\ Allow(r, b.tat, clock)
      BY <2>1, <2>2, RowWritten
    <3>2. b.tat \in Nat
      BY DEF Row
    <3> QED BY <1>4, <2>1, <2>2, <3>1, <3>2, HistoryType, AllowType DEF Insert, history, TypeOK
  <2>3. CASE ~(InsertRow(r, clock) /\ UNCHANGED arrived)
    BY <1>4, <2>1, <2>3 DEF Insert, history, TypeOK, Goto, Places
  <2> QED BY <2>2, <2>3
<1>5. ASSUME NEW r \in Requests, InsertAfterWait(r) PROVE TypeOK'
  <2>1. arrived[r] \in Nat
    BY DEF TypeOK
  <2>2. CASE InsertRow(r, arrived[r])
    <3>1. PICK b \in Row : /\ buckets' = buckets \union {b} /\ gens' \in [Identities -> Nat]
                           /\ Allow(r, b.tat, arrived[r])
      BY <2>1, <2>2, RowWritten
    <3>2. b.tat \in Nat
      BY DEF Row
    <3> QED BY <1>5, <2>1, <3>1, <3>2, HistoryType, AllowType DEF InsertAfterWait, history, TypeOK
  <2>3. CASE ~InsertRow(r, arrived[r])
    BY <1>5, <2>3 DEF InsertAfterWait, history, TypeOK, Goto, Places
  <2> QED BY <2>2, <2>3
<1>6. ASSUME NEW r \in Requests, UpdateScan(r) PROVE TypeOK'
  <2>1. seen' \in [Requests -> SUBSET Row] /\ arrived' \in [Requests -> Nat]
    <3>1. CASE \E b \in BucketsOf(r) : /\ seen' = [seen EXCEPT ![r] = {b}]
                                       /\ arrived' = [arrived EXCEPT ![r] = clock]
      <4>1. PICK b \in Row : seen' = [seen EXCEPT ![r] = {b}]
        BY <3>1 DEF BucketsOf, TypeOK
      <4>2. {b} \in SUBSET Row /\ clock \in Nat
        BY DEF TypeOK, Instants
      <4> QED BY <3>1, <4>1, <4>2 DEF TypeOK
    <3>2. CASE UNCHANGED <<seen, arrived>>
      BY <3>2 DEF TypeOK
    <3> QED BY <1>6, <3>1, <3>2 DEF UpdateScan
  <2>2. pc' \in [Requests -> Places]
    BY <1>6 DEF UpdateScan, history, TypeOK, Goto, Places
  <2> QED BY <1>6, <2>1, <2>2 DEF UpdateScan, history, TypeOK
<1>7. ASSUME NEW r \in Requests, UpdateApply(r) PROVE TypeOK'
  <2>1. CASE \E c \in BucketsOf(r), at \in Nat : Advance(r, c, at)
    <3>1. PICK c \in BucketsOf(r), at \in Nat : Advance(r, c, at)
      BY <2>1
    <3>2. PICK b \in Row : buckets' = (buckets \ {c}) \union {b} /\ Allow(r, b.tat, at)
      BY <3>1, RowWritten
    <3>3. b.tat \in Nat
      BY DEF Row
    <3> QED BY <1>7, <3>2, <3>3, HistoryType, AllowType DEF UpdateApply, history, TypeOK
  <2>2. CASE ~\E c \in BucketsOf(r), at \in Nat : Advance(r, c, at)
    <3>1. clock \in Nat /\ arrived[r] \in Nat /\ NewestSeen(r) \subseteq BucketsOf(r)
      BY DEF TypeOK, Instants, NewestSeen
    <3> QED BY <1>7, <2>2, <3>1 DEF UpdateApply, history, TypeOK, Goto, Places
  <2> QED BY <2>1, <2>2
<1>8. ASSUME NEW r \in Requests, Select(r) PROVE TypeOK'
  <2>1. pc' \in [Requests -> Places]
    BY <1>8 DEF Select, TypeOK, Goto, Places
  <2>2. answer' \in [Requests -> SUBSET Answer]
    BY <1>8, DenialType DEF Select, BucketsOf, TypeOK
  <2>3. UNCHANGED <<buckets, gens, clock, cleaning, arrived, seen, since, last, forgiven>>
    BY <1>8 DEF Select, history
  <2> QED BY <2>1, <2>2, <2>3 DEF TypeOK
<1>9. ASSUME NEW r \in Requests, LockTimesOut(r) PROVE TypeOK'
  BY <1>9 DEF LockTimesOut, TypeOK, Goto, Places, history
<1>10. CASE Tick
  BY <1>10, Numbers DEF Tick, TypeOK, Instants, history
<1>11. CASE UNCHANGED vars
  BY <1>11 DEF TypeOK, vars, history
<1> QED BY <1>1, <1>2, <1>3, <1>4, <1>5, <1>6, <1>7, <1>8, <1>9, <1>10, <1>11
     DEF Next, Step, Finished

\* The requests, rows, answers and the history keep their types.
THEOREM GcraTypes == Spec => []TypeOK
<1>1. Init => TypeOK
  BY Numbers DEF Init, TypeOK, Instants, Places
<1>2. TypeOK /\ [Next]_vars => TypeOK'
  BY StepType
<1> QED BY <1>1, <1>2, PTL DEF Spec
-----------------------------------------------------------------------------
(***************************************************************************)
(* The inductive invariant                                                 *)
(*                                                                         *)
(* What an identity has been allowed is due, one request per interval, at  *)
(* its last theoretical arrival time, but for what has been forgiven.  Its *)
(* row has that time; when it has no row, that time is past.               *)
(***************************************************************************)
Due(h, bound) == \A t \in Instants : h[t] > 0 => t + h[t] * Interval <= bound

Earned(h, tat, now) == \E t \in Instants : t <= now /\ tat <= t + h[t] * Interval

NoRow(i) == \A b \in buckets : b.id # i

OneRow        == \A b, c \in buckets : b.id = c.id => b = c
LockedExpired == \A q \in Requests : \A b \in cleaning[q] : b.tat <= clock
Owed          == \A i \in Identities : Due(since[i], last[i] + forgiven[i])
Present       == \A b \in buckets : b.tat = last[b.id] /\ Earned(since[b.id], b.tat, clock)
Absent        == \A i \in Identities : NoRow(i) => last[i] <= clock
Cap           == \A i \in Identities : last[i] <= clock + Limit * Interval

Current ==
  \A r \in Requests : pc[r] \in {"wait", "apply"} =>
    arrived[r] <= clock /\ clock <= arrived[r] + MaxWait

\* What an UPDATE has found conforms at the instant it has recorded.
Examined ==
  \A r \in Requests : pc[r] = "apply" => \A b \in seen[r] :
    /\ b.id = IdentityOf[r] /\ b.tat <= arrived[r] + Tolerance
    /\ Earned(since[b.id], b.tat, arrived[r])

GcraInv ==
  /\ TypeOK /\ OneRow /\ LockedExpired /\ Owed /\ Present /\ Absent /\ Cap
  /\ Current /\ Examined

\* What writing the row b of the identity of r amounts to.
Wrote(r, b) ==
  /\ b \in Row /\ b.id = IdentityOf[r]
  /\ buckets' = {c \in buckets : c.id # b.id} \union {b}
  /\ \A i \in Identities : i # b.id =>
       since'[i] = since[i] /\ last'[i] = last[i] /\ forgiven'[i] = forgiven[i]
  /\ \A t \in Instants : since[b.id][t] <= since'[b.id][t]
  /\ last'[b.id] = b.tat
  /\ Due(since'[b.id], b.tat + forgiven'[b.id]) /\ Earned(since'[b.id], b.tat, clock)
  /\ b.tat <= clock + Limit * Interval /\ clock + Interval <= b.tat + MaxWait
  /\ pc' = [pc EXCEPT ![r] = "done"]
  /\ UNCHANGED <<clock, cleaning, arrived, seen>>

LEMMA DueLater ==
  ASSUME NEW h \in [Instants -> Nat], NEW x \in Int, NEW y \in Int, x <= y, Due(h, x)
  PROVE  Due(h, y)
<1> SUFFICES ASSUME NEW t \in Instants, h[t] > 0 PROVE t + h[t] * Interval <= y
  BY DEF Due
<1>1. t \in Int /\ h[t] * Interval \in Int /\ t + h[t] * Interval <= x
  BY OneMoreInterval, Numbers DEF Due, Instants
<1> QED BY <1>1

LEMMA EarnedMore ==
  ASSUME NEW h \in [Instants -> Nat], NEW k \in [Instants -> Nat],
         NEW x \in Int, NEW y \in Int, NEW tat \in Int, x <= y,
         \A t \in Instants : h[t] <= k[t], Earned(h, tat, x)
  PROVE  Earned(k, tat, y)
<1>1. PICK t \in Instants : t <= x /\ tat <= t + h[t] * Interval
  BY DEF Earned
<1>2. h[t] * Interval <= k[t] * Interval /\ h[t] * Interval \in Int /\ k[t] * Interval \in Int
  <2>1. (k[t] - h[t]) \in Nat
    BY <1>1
  <2>2. (k[t] - h[t]) * Interval \in Nat
    BY <2>1, Numbers
  <2>3. (k[t] - h[t]) * Interval = k[t] * Interval - h[t] * Interval
    BY Numbers
  <2>4. h[t] * Interval \in Int /\ k[t] * Interval \in Int
    BY OneMoreInterval
  <2> QED BY <2>2, <2>3, <2>4
<1>3. t \in Int
  BY Numbers DEF Instants
<1> QED BY <1>1, <1>2, <1>3 DEF Earned

\* What is recorded of an allowed request; nothing happens to other identities.
LEMMA Recorded ==
  ASSUME TypeOK, NEW r \in Requests, NEW tat \in Nat, NEW at \in Nat, Allow(r, tat, at)
  PROVE  /\ \A i \in Identities : i # IdentityOf[r] =>
              since'[i] = since[i] /\ last'[i] = last[i] /\ forgiven'[i] = forgiven[i]
         /\ last'[IdentityOf[r]] = tat
         /\ forgiven'[IdentityOf[r]] = forgiven[IdentityOf[r]]
              + Later(0, Earlier(last[IdentityOf[r]], clock) + Interval - tat)
<1>1. /\ IdentityOf[r] \in Identities /\ last \in [Identities -> Nat]
      /\ forgiven \in [Identities -> Nat] /\ since \in [Identities -> [Instants -> Nat]]
  BY Shapes DEF TypeOK
<1>2. \A i \in Identities : i # IdentityOf[r] => since'[i] = since[i]
  BY <1>1 DEF Allow
<1>3. /\ \A i \in Identities : i # IdentityOf[r] => last'[i] = last[i]
      /\ last'[IdentityOf[r]] = tat
  BY <1>1 DEF Allow
<1>4. /\ \A i \in Identities : i # IdentityOf[r] => forgiven'[i] = forgiven[i]
      /\ forgiven'[IdentityOf[r]] = forgiven[IdentityOf[r]]
           + Later(0, Earlier(last[IdentityOf[r]], clock) + Interval - tat)
  BY <1>1 DEF Allow
<1> QED BY <1>2, <1>3, <1>4

\* Allowing one request more: the row moves on by an interval from where it was,
\* and not to less than an interval after the instant that is recorded.
LEMMA AllowedDue ==
  ASSUME TypeOK, NEW r \in Requests, NEW tat \in Nat, NEW at \in Nat, Allow(r, tat, at),
         at \in Instants, NEW x \in Int, NEW f \in Nat, Due(since[IdentityOf[r]], x + f),
         tat = Later(x, at) + Interval,
         Earned(since[IdentityOf[r]], x, at) \/ x <= at
  PROVE  /\ Due(since'[IdentityOf[r]], tat + f)
         /\ Earned(since'[IdentityOf[r]], tat, at)
         /\ \A t \in Instants : since[IdentityOf[r]][t] <= since'[IdentityOf[r]][t]
<1> DEFINE h == since[IdentityOf[r]]
           k == since'[IdentityOf[r]]
<1>1. /\ h \in [Instants -> Nat] /\ k \in [Instants -> Nat]
      /\ \A t \in Instants : k[t] = IF t <= at THEN h[t] + 1 ELSE h[t]
  BY HistoryType DEF TypeOK
<1>2. Due(h, x + f) /\ (Earned(h, x, at) \/ x <= at)
  OBVIOUS
<1>3. Interval \in Nat \ {0} /\ Instants \subseteq Nat
  BY Numbers DEF Instants
<1> HIDE DEF h, k
<1>5. \A n \in Nat : n * Interval \in Nat /\ (n + 1) * Interval = n * Interval + Interval
  BY OneMoreInterval
<1>6. Due(k, tat + f)
  <2> SUFFICES ASSUME NEW t \in Instants, k[t] > 0 PROVE t + k[t] * Interval <= tat + f
    BY DEF Due
  <2>1. CASE t <= at /\ h[t] = 0
    <3>1. k[t] = 0 + 1 /\ (0 + 1) * Interval = Interval
      BY <1>1, <1>3, <2>1
    <3> QED BY <1>3, <2>1, <3>1 DEF Later
  <2>2. CASE h[t] > 0
    <3>1. t + h[t] * Interval <= x + f /\ h[t] \in Nat /\ h[t] * Interval \in Nat
      BY <1>1, <1>2, <1>5, <2>2 DEF Due
    <3>2. k[t] * Interval <= h[t] * Interval + Interval /\ k[t] * Interval \in Nat
      BY <1>1, <1>3, <1>5, <3>1
    <3> QED BY <1>3, <3>1, <3>2 DEF Later
  <2>3. CASE ~(t <= at) /\ h[t] = 0
    BY <1>1, <2>3
  <2> QED BY <1>1, <2>1, <2>2, <2>3
<1>7. Earned(k, tat, at)
  <2>1. CASE x <= at
    <3>1. k[at] = h[at] + 1 /\ h[at] \in Nat /\ tat = at + Interval
      BY <1>1, <2>1 DEF Later
    <3>2. Interval <= k[at] * Interval /\ k[at] * Interval \in Nat
      BY <1>3, <1>5, <3>1
    <3> QED BY <1>3, <3>1, <3>2 DEF Earned
  <2>2. CASE ~(x <= at)
    <3>1. PICK t \in Instants : t <= at /\ x <= t + h[t] * Interval
      BY <1>2, <2>2 DEF Earned
    <3>2. k[t] = h[t] + 1 /\ h[t] \in Nat /\ tat = x + Interval
      BY <1>1, <2>2, <3>1 DEF Later
    <3>3. k[t] * Interval = h[t] * Interval + Interval /\ h[t] * Interval \in Nat
      BY <1>5, <3>2
    <3> QED BY <1>3, <3>1, <3>2, <3>3 DEF Earned
  <2> QED BY <2>1, <2>2
<1>8. \A t \in Instants : h[t] <= k[t]
  BY <1>1
<1> QED BY <1>6, <1>7, <1>8 DEF h, k

\* An instant at which a statement computes the values it writes: now, or the
\* time a statement in progress has recorded.
RecentlyComputed(at) == at \in Instants /\ at <= clock /\ clock <= at + MaxWait

LEMMA RecordedRecent ==
  ASSUME GcraInv, NEW r \in Requests
  PROVE  /\ RecentlyComputed(clock)
         /\ pc[r] \in {"wait", "apply"} => RecentlyComputed(arrived[r])
<1>1. clock \in Instants /\ arrived[r] \in Nat
  BY DEF GcraInv, TypeOK
<1>2. pc[r] \in {"wait", "apply"} => arrived[r] <= clock /\ clock <= arrived[r] + MaxWait
  BY DEF GcraInv, Current
<1> QED BY <1>1, <1>2, Numbers DEF RecentlyComputed, Instants

\* A row that takes the place of a deleted one: what it does not know of is
\* forgiven, as the deleted one had expired.
LEMMA InsertWrote ==
  ASSUME GcraInv, NEW r \in Requests, NEW at \in Nat, RecentlyComputed(at),
         NoRow(IdentityOf[r]), InsertRow(r, at),
         UNCHANGED <<clock, cleaning, arrived, seen>>
  PROVE  /\ \E b \in Row : Wrote(r, b)
         /\ forgiven'[IdentityOf[r]] =
              forgiven[IdentityOf[r]] + Later(0, last[IdentityOf[r]] - at)
<1> DEFINE i == IdentityOf[r]
           lost == Later(0, last[i] - at)
<1>1. /\ TypeOK /\ i \in Identities /\ clock \in Nat /\ last[i] \in Nat /\ forgiven[i] \in Nat
      /\ since[i] \in [Instants -> Nat]
      /\ last[i] <= clock /\ Due(since[i], last[i] + forgiven[i])
  BY Shapes DEF GcraInv, TypeOK, Instants, Absent, Owed
<1>2. PICK b \in Row : /\ b.id = i /\ b.tat = at + Interval
                       /\ buckets' = buckets \union {b} /\ Allow(r, b.tat, at)
  BY <1>1, RowWritten
<1>3. b.tat \in Nat /\ b.tat = Later(at, at) + Interval /\ at \in Instants /\ at <= at
  BY <1>2 DEF Row, Later, RecentlyComputed
<1>4. /\ \A j \in Identities : j # i =>
           since'[j] = since[j] /\ last'[j] = last[j] /\ forgiven'[j] = forgiven[j]
      /\ last'[i] = b.tat
      /\ forgiven'[i] = forgiven[i] + Later(0, Earlier(last[i], clock) + Interval - b.tat)
  BY <1>1, <1>2, <1>3, Recorded
<1>5. forgiven'[i] = forgiven[i] + lost /\ lost \in Nat
  BY <1>1, <1>2, <1>4, Numbers DEF Later, Earlier
<1>6. Due(since[i], at + (forgiven[i] + lost)) /\ forgiven[i] + lost \in Nat
  <2>1. last[i] + forgiven[i] <= at + (forgiven[i] + lost)
    BY <1>1 DEF Later
  <2>2. last[i] + forgiven[i] \in Int /\ at + (forgiven[i] + lost) \in Int
    BY <1>1, <1>5
  <2> HIDE DEF lost
  <2> QED BY <1>1, <1>5, <2>1, <2>2, DueLater
<1> HIDE DEF lost, i
<1>7. /\ Due(since'[i], b.tat + forgiven'[i]) /\ Earned(since'[i], b.tat, at)
      /\ \A t \in Instants : since[i][t] <= since'[i][t]
  BY <1>1, <1>2, <1>3, <1>5, <1>6, AllowedDue DEF i
<1>8. since'[i] \in [Instants -> Nat]
  BY <1>1, <1>2, <1>3, HistoryType DEF i
<1>9. Earned(since'[i], b.tat, clock)
  <2>1. \A t \in Instants : since'[i][t] <= since'[i][t]
    BY <1>8
  <2> QED BY <1>1, <1>3, <1>7, <1>8, <2>1, EarnedMore DEF RecentlyComputed
<1>10. b.tat <= clock + Limit * Interval /\ clock + Interval <= b.tat + MaxWait
  BY <1>1, <1>2, BurstLength, Numbers DEF RecentlyComputed
<1>11. buckets' = {c \in buckets : c.id # b.id} \union {b}
  BY <1>2 DEF NoRow, i
<1>12. pc' = [pc EXCEPT ![r] = "done"]
  BY <1>2 DEF Allow, Goto
<1>13. Wrote(r, b)
  BY <1>2, <1>4, <1>7, <1>9, <1>10, <1>11, <1>12 DEF Wrote, i
<1> QED BY <1>5, <1>13 DEF i, lost

LEMMA AdvanceWrote ==
  ASSUME GcraInv, NEW r \in Requests, NEW at \in Nat, RecentlyComputed(at),
         NEW c \in BucketsOf(r), c.tat <= at + Tolerance,
         Earned(since[IdentityOf[r]], c.tat, at), Advance(r, c, at),
         UNCHANGED <<clock, cleaning, arrived, seen>>
  PROVE  /\ \E b \in Row : Wrote(r, b)
         /\ forgiven'[IdentityOf[r]] = forgiven[IdentityOf[r]]
<1> DEFINE i == IdentityOf[r]
<1>1. /\ TypeOK /\ i \in Identities /\ clock \in Nat /\ forgiven[i] \in Nat
      /\ c \in Row /\ c \in buckets /\ c.id = i /\ c.tat \in Nat
      /\ last[i] = c.tat /\ Due(since[i], c.tat + forgiven[i])
  <2>1. TypeOK /\ i \in Identities
    BY Shapes DEF GcraInv
  <2>2. clock \in Nat /\ forgiven[i] \in Nat /\ buckets \subseteq Row
    BY <2>1 DEF TypeOK, Instants
  <2>3. c \in Row /\ c \in buckets /\ c.id = i
    BY <2>2 DEF BucketsOf
  <2>4. c.tat \in Nat /\ last[i] = c.tat
    BY <2>3 DEF Row, GcraInv, Present
  <2>5. Due(since[i], last[i] + forgiven[i])
    BY <2>1 DEF GcraInv, Owed
  <2> QED BY <2>1, <2>2, <2>3, <2>4, <2>5
<1>2. PICK b \in Row : /\ b.id = i /\ b.tat = Later(c.tat, at) + Interval
                       /\ buckets' = (buckets \ {c}) \union {b} /\ Allow(r, b.tat, at)
  BY <1>1, RowWritten
<1>3. b.tat \in Nat /\ at \in Instants
  BY <1>2 DEF Row, RecentlyComputed
<1>4. /\ \A j \in Identities : j # i =>
           since'[j] = since[j] /\ last'[j] = last[j] /\ forgiven'[j] = forgiven[j]
      /\ last'[i] = b.tat
      /\ forgiven'[i] = forgiven[i] + Later(0, Earlier(last[i], clock) + Interval - b.tat)
  BY <1>1, <1>2, <1>3, Recorded
<1>5. forgiven'[i] = forgiven[i]
  BY <1>1, <1>2, <1>4, Numbers DEF Later, Earlier
<1> HIDE DEF i
<1>7. /\ Due(since'[i], b.tat + forgiven'[i]) /\ Earned(since'[i], b.tat, at)
      /\ \A t \in Instants : since[i][t] <= since'[i][t]
  BY <1>1, <1>2, <1>3, <1>5, AllowedDue DEF i
<1>8. since'[i] \in [Instants -> Nat]
  BY <1>1, <1>2, <1>3, HistoryType DEF i
<1>9. Earned(since'[i], b.tat, clock)
  <2>1. \A t \in Instants : since'[i][t] <= since'[i][t]
    BY <1>8
  <2> QED BY <1>1, <1>3, <1>7, <1>8, <2>1, EarnedMore DEF RecentlyComputed
<1>10. b.tat <= clock + Limit * Interval /\ clock + Interval <= b.tat + MaxWait
  BY <1>1, <1>2, BurstLength, Numbers DEF RecentlyComputed, Later
<1>11. buckets' = {d \in buckets : d.id # b.id} \union {b}
  BY <1>1, <1>2 DEF GcraInv, OneRow
<1>12. pc' = [pc EXCEPT ![r] = "done"]
  BY <1>2 DEF Allow, Goto
<1>13. Wrote(r, b)
  BY <1>2, <1>4, <1>7, <1>9, <1>10, <1>11, <1>12 DEF Wrote, i
<1> QED BY <1>5, <1>13 DEF i

-----------------------------------------------------------------------------
(***************************************************************************)
(* One lemma per kind of step                                              *)
(***************************************************************************)
LEMMA WroteKeeps ==
  ASSUME GcraInv, TypeOK', NEW r \in Requests, NEW b, Wrote(r, b)
  PROVE  GcraInv'
<1>1. /\ b \in Row /\ b.id = IdentityOf[r] /\ b.id \in Identities /\ b.tat \in Nat
      /\ buckets' = {c \in buckets : c.id # b.id} \union {b}
      /\ \A i \in Identities : i # b.id =>
           since'[i] = since[i] /\ last'[i] = last[i] /\ forgiven'[i] = forgiven[i]
      /\ last'[b.id] = b.tat
      /\ Due(since'[b.id], b.tat + forgiven'[b.id]) /\ Earned(since'[b.id], b.tat, clock)
      /\ UNCHANGED <<clock, cleaning, arrived, seen>>
      /\ pc' = [pc EXCEPT ![r] = "done"]
  BY Shapes DEF Wrote, Row
<1>2. /\ TypeOK /\ clock \in Nat /\ pc \in [Requests -> Places]
      /\ arrived \in [Requests -> Nat] /\ buckets \subseteq Row
      /\ IdentityOf \in [Requests -> Identities]
  BY Shapes DEF GcraInv, TypeOK, Instants
<1>3. OneRow'
  BY <1>1 DEF GcraInv, OneRow
<1>4. LockedExpired'
  BY <1>1 DEF GcraInv, LockedExpired
<1>5. Present'
  <2> SUFFICES ASSUME NEW c \in buckets'
               PROVE  c.tat = last'[c.id] /\ Earned(since'[c.id], c.tat, clock)
    BY <1>1 DEF Present
  <2>1. CASE c = b
    BY <1>1, <2>1
  <2>2. CASE c # b
    <3>1. c \in buckets /\ c.id # b.id /\ c.id \in Identities
      BY <1>1, <1>2, <2>2 DEF Row
    <3> QED BY <1>1, <3>1 DEF GcraInv, Present
  <2> QED BY <2>1, <2>2
<1>6. Absent'
  <2> SUFFICES ASSUME NEW i \in Identities, NoRow(i)' PROVE last'[i] <= clock
    BY <1>1 DEF Absent
  <2>1. i # b.id /\ NoRow(i)
    BY <1>1 DEF NoRow
  <2> QED BY <1>1, <2>1 DEF GcraInv, Absent
<1>7. Cap'
  BY <1>1 DEF GcraInv, Cap, Wrote
<1>8. Current'
  BY <1>1, <1>2 DEF GcraInv, Current
<1>9. Owed'
  <2> SUFFICES ASSUME NEW i \in Identities PROVE Due(since'[i], last'[i] + forgiven'[i])
    BY DEF Owed
  <2>1. CASE i = b.id
    BY <1>1, <2>1
  <2>2. CASE i # b.id
    BY <1>1, <2>2 DEF GcraInv, Owed
  <2> QED BY <2>1, <2>2
<1>10. Examined'
  <2> SUFFICES ASSUME NEW q \in Requests, pc'[q] = "apply", NEW c \in seen[q]
               PROVE  /\ c.id = IdentityOf[q] /\ c.tat <= arrived[q] + Tolerance
                      /\ Earned(since'[c.id], c.tat, arrived[q])
    BY <1>1 DEF Examined
  <2>1. pc[q] = "apply"
    BY <1>1, <1>2
  <2>2. /\ c.id = IdentityOf[q] /\ c.tat <= arrived[q] + Tolerance
        /\ Earned(since[c.id], c.tat, arrived[q])
    BY <2>1 DEF GcraInv, Examined
  <2>3. /\ c.id \in Identities /\ c.tat \in Int /\ arrived[q] \in Int
        /\ since[c.id] \in [Instants -> Nat] /\ since'[c.id] \in [Instants -> Nat]
    BY <1>2, <2>2 DEF TypeOK, Row
  <2>4. \A t \in Instants : since[c.id][t] <= since'[c.id][t]
    <3>1. CASE c.id = b.id
      BY <3>1 DEF Wrote
    <3>2. CASE c.id # b.id
      BY <1>1, <2>3, <3>2
    <3> QED BY <3>1, <3>2
  <2>5. Earned(since'[c.id], c.tat, arrived[q])
    <3> DEFINE h == since[c.id]
               k == since'[c.id]
               x == arrived[q]
               tat == c.tat
    <3>1. /\ h \in [Instants -> Nat] /\ k \in [Instants -> Nat] /\ x \in Int /\ tat \in Int
          /\ \A t \in Instants : h[t] <= k[t]
          /\ Earned(h, tat, x)
      BY <2>2, <2>3, <2>4
    <3> HIDE DEF h, k, x, tat
    <3>2. x <= x
      BY <3>1
    <3>3. Earned(k, tat, x)
      BY <3>1, <3>2, EarnedMore
    <3> QED BY <3>3 DEF k, x, tat
  <2> QED BY <2>2, <2>5
<1> QED BY <1>3, <1>4, <1>5, <1>6, <1>7, <1>8, <1>9, <1>10 DEF GcraInv

\* The rows a cleanup deletes have been due for as long as they were locked.
LEMMA CleanupEndKeeps ==
  ASSUME GcraInv, TypeOK', NEW r \in Requests, CleanupEnd(r)
  PROVE  GcraInv'
<1>1. /\ buckets' \subseteq buckets
      /\ \A b \in buckets \ buckets' : b.tat <= clock
      /\ UNCHANGED <<gens, clock, arrived, seen, since, last, forgiven>>
      /\ cleaning' = [cleaning EXCEPT ![r] = {}]
      /\ pc' = [pc EXCEPT ![r] = "insert"]
  BY DEF CleanupEnd, Goto, GcraInv, LockedExpired, history
<1>2. /\ TypeOK /\ clock \in Nat /\ pc \in [Requests -> Places]
      /\ arrived \in [Requests -> Nat]
  BY DEF GcraInv, TypeOK, Instants
<1>3. OneRow' /\ Present' /\ Cap' /\ Owed'
  BY <1>1 DEF GcraInv, OneRow, Present, Cap, Owed
<1>4. LockedExpired'
  BY <1>1, <1>2 DEF GcraInv, LockedExpired, TypeOK
<1>5. Absent'
  <2> SUFFICES ASSUME NEW i \in Identities, NoRow(i)' PROVE last[i] <= clock
    BY <1>1 DEF Absent
  <2>1. CASE NoRow(i)
    BY <2>1 DEF GcraInv, Absent
  <2>2. CASE ~NoRow(i)
    <3>1. PICK b \in buckets : b.id = i
      BY <2>2 DEF NoRow
    <3>2. b \notin buckets'
      BY <3>1 DEF NoRow
    <3> QED BY <1>1, <3>1, <3>2 DEF GcraInv, Present
  <2> QED BY <2>1, <2>2
<1>6. Current' /\ Examined'
  BY <1>1, <1>2 DEF GcraInv, Current, Examined
<1> QED BY <1>3, <1>4, <1>5, <1>6 DEF GcraInv

LEMMA TickKeeps ==
  ASSUME GcraInv, TypeOK', Tick
  PROVE  GcraInv'
<1>1. /\ clock' = clock + 1
      /\ \A r \in Requests : pc[r] \in {"wait", "apply"} => clock < arrived[r] + MaxWait
      /\ UNCHANGED <<buckets, pc, cleaning, arrived, seen, since, last, forgiven>>
  BY DEF Tick, history
<1>2. /\ TypeOK /\ clock \in Nat /\ buckets \subseteq Row
      /\ arrived \in [Requests -> Nat] /\ cleaning \in [Requests -> SUBSET Row]
      /\ since \in [Identities -> [Instants -> Nat]] /\ last \in [Identities -> Nat]
  BY DEF GcraInv, TypeOK, Instants
<1>3. OneRow' /\ Owed' /\ Examined'
  BY <1>1 DEF GcraInv, OneRow, Owed, Examined
<1>4. LockedExpired'
  <2> SUFFICES ASSUME NEW q \in Requests, NEW b \in cleaning[q] PROVE b.tat <= clock + 1
    BY <1>1 DEF LockedExpired
  <2> QED BY <1>2 DEF GcraInv, LockedExpired, Row
<1>5. Cap'
  <2> SUFFICES ASSUME NEW i \in Identities PROVE last[i] <= clock + 1 + Limit * Interval
    BY <1>1 DEF Cap
  <2>1. last[i] <= clock + Limit * Interval /\ last[i] \in Int
    BY <1>2 DEF GcraInv, Cap
  <2> QED BY <1>2, <2>1, BurstLength
<1>6. Current'
  BY <1>1, <1>2, Numbers DEF GcraInv, Current
<1>7. Present'
  <2> SUFFICES ASSUME NEW b \in buckets
               PROVE  b.tat = last[b.id] /\ Earned(since[b.id], b.tat, clock + 1)
    BY <1>1 DEF Present
  <2>1. b.tat = last[b.id] /\ Earned(since[b.id], b.tat, clock)
    BY DEF GcraInv, Present
  <2>2. b.tat \in Int /\ since[b.id] \in [Instants -> Nat]
    BY <1>2 DEF Row
  <2>3. \A t \in Instants : since[b.id][t] <= since[b.id][t]
    BY <2>2
  <2> QED BY <1>2, <2>1, <2>2, <2>3, EarnedMore
<1>8. Absent'
  <2> SUFFICES ASSUME NEW i \in Identities, NoRow(i) PROVE last[i] <= clock + 1
    BY <1>1 DEF Absent, NoRow
  <2>1. last[i] <= clock /\ last[i] \in Int
    BY <1>2 DEF GcraInv, Absent
  <2> QED BY <1>2, <2>1
<1> QED BY <1>3, <1>4, <1>5, <1>6, <1>7, <1>8 DEF GcraInv

\* A step that neither writes nor deletes a row.
LEMMA QuietKeeps ==
  ASSUME GcraInv, TypeOK', UNCHANGED <<buckets, clock, since, last, forgiven>>,
         LockedExpired', Current', Examined'
  PROVE  GcraInv'
BY DEF GcraInv, OneRow, Owed, Present, Absent, Cap, NoRow

LEMMA StepKeeps ==
  ASSUME GcraInv, TypeOK', NEW r \in Requests, Step(r)
  PROVE  GcraInv'
<1>1. /\ TypeOK /\ clock \in Nat /\ pc \in [Requests -> Places]
      /\ arrived \in [Requests -> Nat] /\ seen \in [Requests -> SUBSET Row]
      /\ cleaning \in [Requests -> SUBSET Row]
      /\ buckets \subseteq Row /\ IdentityOf[r] \in Identities
  BY Shapes DEF GcraInv, TypeOK, Instants
<1> DEFINE Moved(place) ==
      /\ pc' = [pc EXCEPT ![r] = place] /\ place \notin {"wait", "apply"}
      /\ UNCHANGED <<buckets, clock, since, last, forgiven, arrived, seen>>
<1>2. ASSUME NEW place \in Places, Moved(place) PROVE Current' /\ Examined'
  BY <1>1, <1>2 DEF GcraInv, Current, Examined
<1>3. ASSUME NEW place \in Places, Moved(place), UNCHANGED cleaning PROVE GcraInv'
  <2>1. LockedExpired'
    BY <1>3 DEF GcraInv, LockedExpired
  <2> QED BY <1>2, <1>3, <2>1, QuietKeeps DEF Moved
<1> HIDE DEF Moved
<1>4. CASE Consume(r)
  <2>1. PICK place \in Places : Moved(place)
    BY <1>4 DEF Consume, Goto, Moved, Places, history
  <2> QED BY <1>3, <1>4, <2>1 DEF Consume
<1>5. CASE CleanupDelete(r)
  <2>1. Moved("clean") /\ "clean" \in Places
    BY <1>5 DEF CleanupDelete, Goto, Moved, Places, history
  <2>2. LockedExpired'
    BY <1>1, <1>5 DEF CleanupDelete, Expired, GcraInv, LockedExpired
  <2>3. UNCHANGED <<buckets, clock, since, last, forgiven>>
    BY <1>5 DEF CleanupDelete, history
  <2> QED BY <1>2, <2>1, <2>2, <2>3, QuietKeeps
<1>6. CASE CleanupEnd(r)
  BY <1>6, CleanupEndKeeps
<1>7. CASE Insert(r)
  <2>1. CASE BucketsOf(r) = {} /\ InsertRow(r, clock) /\ UNCHANGED arrived
    <3>1. NoRow(IdentityOf[r])
      BY <2>1 DEF NoRow, BucketsOf
    <3>2. PICK b \in Row : Wrote(r, b)
      BY <1>1, <1>7, <2>1, <3>1, InsertWrote, RecordedRecent DEF Insert
    <3> QED BY <3>2, WroteKeeps
  <2>2. CASE Goto(r, "update") /\ UNCHANGED <<buckets, arrived, history>>
    <3>1. Moved("update") /\ "update" \in Places /\ UNCHANGED cleaning
      BY <1>7, <2>2 DEF Insert, Goto, Moved, Places, history
    <3> QED BY <1>3, <3>1
  <2>3. CASE /\ BucketsOf(r) \intersect Locked # {} /\ Goto(r, "wait")
             /\ arrived' = [arrived EXCEPT ![r] = clock]
             /\ UNCHANGED <<buckets, history>>
    <3>1. UNCHANGED <<buckets, clock, since, last, forgiven, cleaning, seen>>
      BY <1>7, <2>3 DEF Insert, history
    <3>5. /\ pc'[r] = "wait" /\ arrived'[r] = clock
          /\ \A q \in Requests : q # r => pc'[q] = pc[q] /\ arrived'[q] = arrived[q]
      BY <1>1, <2>3 DEF Goto
    <3>6. Current'
      BY <1>1, <3>1, <3>5, Numbers DEF GcraInv, Current
    <3>8. Examined'
      BY <1>1, <3>1, <3>5 DEF GcraInv, Examined
    <3>9. LockedExpired'
      BY <3>1 DEF GcraInv, LockedExpired
    <3> QED BY <3>1, <3>6, <3>8, <3>9, QuietKeeps
  <2> QED BY <1>7, <2>1, <2>2, <2>3 DEF Insert
<1>8. CASE InsertAfterWait(r)
  <2>1. CASE BucketsOf(r) = {} /\ InsertRow(r, arrived[r])
    <3>1. pc[r] = "wait" /\ arrived[r] \in Nat
      BY <1>1, <1>8 DEF InsertAfterWait
    <3>2. NoRow(IdentityOf[r])
      BY <2>1 DEF NoRow, BucketsOf
    <3>3. PICK b \in Row : Wrote(r, b)
      BY <1>8, <2>1, <3>1, <3>2, InsertWrote, RecordedRecent DEF InsertAfterWait
    <3> QED BY <3>3, WroteKeeps
  <2>2. CASE Goto(r, "update") /\ UNCHANGED <<buckets, history>>
    <3>1. Moved("update") /\ "update" \in Places /\ UNCHANGED cleaning
      BY <1>8, <2>2 DEF InsertAfterWait, Goto, Moved, Places, history
    <3> QED BY <1>3, <3>1
  <2> QED BY <1>8, <2>1, <2>2 DEF InsertAfterWait
<1>9. CASE UpdateScan(r)
  <2>1. ASSUME NEW b \in BucketsOf(r), Conforming(b), Goto(r, "apply"),
               seen' = [seen EXCEPT ![r] = {b}], arrived' = [arrived EXCEPT ![r] = clock]
        PROVE  GcraInv'
    <3>1. UNCHANGED <<buckets, clock, since, last, forgiven, cleaning>>
      BY <1>9 DEF UpdateScan, history
    <3>2. b.id = IdentityOf[r] /\ b.tat <= clock + Tolerance /\ Earned(since[b.id], b.tat, clock)
      BY <2>1 DEF BucketsOf, Conforming, GcraInv, Present
    <3>3. /\ pc'[r] = "apply" /\ arrived'[r] = clock /\ seen'[r] = {b}
          /\ \A q \in Requests : q # r =>
               pc'[q] = pc[q] /\ arrived'[q] = arrived[q] /\ seen'[q] = seen[q]
      BY <1>1, <2>1 DEF Goto
    <3>4. Current'
      BY <1>1, <3>1, <3>3, Numbers DEF GcraInv, Current
    <3>6. Examined'
      BY <1>1, <3>1, <3>2, <3>3 DEF GcraInv, Examined
    <3>7. LockedExpired'
      BY <3>1 DEF GcraInv, LockedExpired
    <3> QED BY <3>1, <3>4, <3>6, <3>7, QuietKeeps
  <2>2. CASE Goto(r, "select") /\ UNCHANGED <<seen, arrived>>
    <3>1. Moved("select") /\ "select" \in Places /\ UNCHANGED cleaning
      BY <1>9, <2>2 DEF UpdateScan, Goto, Moved, Places, history
    <3> QED BY <1>3, <3>1
  <2> QED BY <1>9, <2>1, <2>2 DEF UpdateScan
<1>10. CASE UpdateApply(r)
  <2>1. pc[r] = "apply" /\ NewestSeen(r) \subseteq BucketsOf(r) /\ arrived[r] \in Nat
    BY <1>1, <1>10 DEF UpdateApply, NewestSeen
  <2>2. ASSUME NEW b \in NewestSeen(r), b \in seen[r], Advance(r, b, arrived[r]) PROVE GcraInv'
    <3>1. b \in BucketsOf(r) /\ b.id = IdentityOf[r]
      BY <2>1, <2>2 DEF BucketsOf
    <3>2. b.tat <= arrived[r] + Tolerance /\ Earned(since[IdentityOf[r]], b.tat, arrived[r])
      BY <2>1, <2>2, <3>1 DEF GcraInv, Examined
    <3>3. PICK c \in Row : Wrote(r, c)
      BY <1>10, <2>1, <2>2, <3>1, <3>2, AdvanceWrote, RecordedRecent DEF UpdateApply
    <3> QED BY <3>3, WroteKeeps
  <2>3. ASSUME NEW b \in NewestSeen(r), Conforming(b), Advance(r, b, clock) PROVE GcraInv'
    <3>1. b \in BucketsOf(r) /\ b \in buckets /\ b.id = IdentityOf[r]
      BY <2>1, <2>3 DEF BucketsOf
    <3>2. b.tat <= clock + Tolerance /\ Earned(since[IdentityOf[r]], b.tat, clock)
      BY <2>3, <3>1 DEF Conforming, GcraInv, Present
    <3>3. PICK c \in Row : Wrote(r, c)
      BY <1>1, <1>10, <2>3, <3>1, <3>2, AdvanceWrote, RecordedRecent DEF UpdateApply
    <3> QED BY <3>3, WroteKeeps
  <2>4. CASE Goto(r, "select") /\ UNCHANGED <<buckets, history>>
    <3>1. Moved("select") /\ "select" \in Places /\ UNCHANGED cleaning
      BY <1>10, <2>4 DEF UpdateApply, Goto, Moved, Places, history
    <3> QED BY <1>3, <3>1
  <2> QED BY <1>10, <2>2, <2>3, <2>4 DEF UpdateApply
<1>11. CASE Select(r)
  <2>1. PICK place \in Places : Moved(place)
    BY <1>11 DEF Select, Goto, Moved, Places, history
  <2> QED BY <1>3, <1>11, <2>1 DEF Select
<1>12. CASE LockTimesOut(r)
  <2>1. Moved("failed") /\ "failed" \in Places /\ UNCHANGED cleaning
    BY <1>12 DEF LockTimesOut, Goto, Moved, Places, history
  <2> QED BY <1>3, <2>1
<1> QED BY <1>4, <1>5, <1>6, <1>7, <1>8, <1>9, <1>10, <1>11, <1>12 DEF Step
-----------------------------------------------------------------------------
(***************************************************************************)
(* Theorems                                                                *)
(***************************************************************************)
LEMMA Initially ==
  ASSUME Init
  PROVE  GcraInv
<1>1. TypeOK
  BY Numbers DEF Init, TypeOK, Instants, Places
<1>2. \A i \in Identities : Due(since[i], last[i] + forgiven[i])
  BY DEF Init, Due
<1>3. Limit * Interval \in Nat
  BY BurstLength
<1> QED BY <1>1, <1>2, <1>3 DEF GcraInv, Init, OneRow, LockedExpired, Owed, Present, Absent,
          Cap, Current, Examined

LEMMA NextKeeps ==
  ASSUME GcraInv, [Next]_vars
  PROVE  GcraInv'
<1>1. TypeOK'
  BY StepType DEF GcraInv
<1>2. ASSUME UNCHANGED vars PROVE GcraInv'
  BY <1>1, <1>2 DEF vars, history, GcraInv, OneRow, LockedExpired, Owed, Present, Absent,
     Cap, Current, Examined, NoRow
<1> QED BY <1>1, <1>2, StepKeeps, TickKeeps DEF Next, Finished

\* No identity gets ahead of its policy by more than one burst, from any instant
\* on, however the autocommitted statements and the cleanups of the replicas
\* interleave and however long they wait, but for the debt that is forgiven.
THEOREM GcraConforms == Spec => []Conformance
<1>1. GcraInv => Conformance
  <2> SUFFICES ASSUME GcraInv, NEW i \in Identities, NEW t \in 0 .. clock, since[i][t] > 0
               PROVE  (since[i][t] - Limit) * Interval <= clock - t + forgiven[i]
    BY DEF Conformance
  <2>1. /\ clock \in Nat /\ t \in Instants /\ t \in Nat /\ since[i][t] \in Nat
        /\ last[i] \in Nat /\ forgiven[i] \in Nat
    BY Numbers DEF GcraInv, TypeOK, Instants
  <2>2. /\ (since[i][t] - Limit) * Interval = since[i][t] * Interval - Limit * Interval
        /\ since[i][t] * Interval \in Nat /\ Limit * Interval \in Nat
    BY <2>1, Excess, OneMoreInterval, BurstLength
  <2>3. t + since[i][t] * Interval <= last[i] + forgiven[i]
    BY <2>1 DEF GcraInv, Owed, Due
  <2>4. last[i] <= clock + Limit * Interval
    BY DEF GcraInv, Cap
  <2> QED BY <2>1, <2>2, <2>3, <2>4
<1> QED BY <1>1, Initially, NextKeeps, PTL DEF Spec

\* A request is refused only if, counted from some instant, its identity has used
\* its share, or if a cleanup has just taken its row away.
THEOREM GcraRefusesLate == Spec => NoEarlyRefusal
<1>1. ASSUME GcraInv, NEW r \in Requests, NEW b \in BucketsOf(r), ~Conforming(b)
      PROVE  \E t \in 0 .. clock :
               (since[IdentityOf[r]][t] + 1 - Limit) * Interval > clock - t
  <2>1. /\ b \in buckets /\ b.id = IdentityOf[r] /\ b.tat \in Nat /\ clock \in Nat
        /\ since[b.id] \in [Instants -> Nat]
    BY <1>1, Shapes DEF BucketsOf, GcraInv, TypeOK, Row, Instants
  <2>2. PICK t \in Instants : t <= clock /\ b.tat <= t + since[b.id][t] * Interval
    BY <1>1, <2>1 DEF GcraInv, Present, Earned
  <2> DEFINE n == since[b.id][t]
  <2>3. n \in Nat /\ t \in 0 .. clock
    BY <2>1, <2>2, Numbers DEF Instants
  <2>4. b.tat > clock + Tolerance
    BY <1>1, <2>1, BurstLength DEF Conforming
  <2> HIDE DEF n
  <2>5. (n + 1) * Interval = n * Interval + Interval /\ n * Interval \in Nat
    BY <2>3, OneMoreInterval
  <2>6. n + 1 \in Nat /\ (n + 1 - Limit) * Interval = (n + 1) * Interval - Limit * Interval
    <3> DEFINE m == n + 1
    <3>1. m \in Nat
      BY <2>3
    <3> HIDE DEF m
    <3>2. (m - Limit) * Interval = m * Interval - Limit * Interval
      BY <3>1, Excess
    <3> QED BY <2>3, <3>1, <3>2, Numbers DEF m
  <2>7. b.tat <= t + n * Interval /\ t \in Nat
    BY <2>2, <2>3 DEF n
  <2>8. (n + 1 - Limit) * Interval > clock - t
    BY <2>1, <2>4, <2>5, <2>6, <2>7, BurstLength, Numbers
  <2> QED BY <2>1, <2>3, <2>8 DEF n
<1> DEFINE Late(r) ==
      pc[r] # "select" /\ pc'[r] = "select" =>
        \/ (IF pc[r] = "apply" THEN NewestSeen(r) ELSE BucketsOf(r)) = {}
        \/ \E t \in 0 .. clock :
             (since[IdentityOf[r]][t] + 1 - Limit) * Interval > clock - t
<1>2. ASSUME GcraInv, [Next]_vars, NEW r \in Requests PROVE Late(r)
  <2> SUFFICES ASSUME pc[r] # "select", pc'[r] = "select",
                      (IF pc[r] = "apply" THEN NewestSeen(r) ELSE BucketsOf(r)) # {}
               PROVE  \E t \in 0 .. clock :
                        (since[IdentityOf[r]][t] + 1 - Limit) * Interval > clock - t
    OBVIOUS
  <2>1. pc \in [Requests -> Places]
    BY <1>2 DEF GcraInv, TypeOK
  <2>2. PICK q \in Requests : Step(q)
    BY <1>2 DEF Next, Tick, Finished, vars
  <2>3. pc'[r] # pc[r]
    OBVIOUS
  <2>4. q = r
    <3>1. \E place : pc' = [pc EXCEPT ![q] = place]
      BY <2>2 DEF Step, Consume, CleanupDelete, CleanupEnd, Insert, InsertRow, InsertAfterWait,
         UpdateScan, UpdateApply, Advance, Select, LockTimesOut, Allow, Goto
    <3> QED BY <2>1, <2>3, <3>1
  <2>5. UpdateScan(r) \/ UpdateApply(r)
    BY <2>1, <2>2, <2>4 DEF Step, Consume, CleanupDelete, CleanupEnd, Insert, InsertRow,
       InsertAfterWait, Select, LockTimesOut, Allow, Goto
  <2>6. CASE UpdateScan(r)
    <3>1. pc[r] = "update" /\ \A b \in BucketsOf(r) : ~Conforming(b)
      BY <2>1, <2>6 DEF UpdateScan, Goto
    <3> QED BY <1>1, <1>2, <3>1
  <2>7. CASE UpdateApply(r)
    <3>1. pc[r] = "apply" /\ NewestSeen(r) \subseteq BucketsOf(r)
      BY <2>7 DEF UpdateApply, NewestSeen
    <3>2. \A b \in NewestSeen(r) : ~Conforming(b)
      BY <2>1, <2>7 DEF UpdateApply, Advance, Allow, Goto
    <3> QED BY <1>1, <1>2, <3>1, <3>2
  <2> QED BY <2>5, <2>6, <2>7
<1>3. ASSUME GcraInv, [Next]_vars
      PROVE  [\A r \in Requests :
                pc[r] # "select" /\ pc'[r] = "select" =>
                  \/ (IF pc[r] = "apply" THEN NewestSeen(r) ELSE BucketsOf(r)) = {}
                  \/ \E t \in 0 .. clock :
                       (since[IdentityOf[r]][t] + 1 - Limit) * Interval > clock - t]_vars
  BY <1>2, <1>3
<1> QED BY <1>3, Initially, NextKeeps, PTL DEF Spec, NoEarlyRefusal
-----------------------------------------------------------------------------
(***************************************************************************)
(* The debt that is forgiven                                               *)
(***************************************************************************)
\* The INSERT of r waits, and by now the row of its identity has been renewed and
\* deleted again, with a theoretical arrival time after the instant r recorded.
Overtaken(r) ==
  /\ pc[r] = "wait" /\ NoRow(IdentityOf[r])
  /\ arrived[r] < last[IdentityOf[r]] /\ last[IdentityOf[r]] <= arrived[r] + MaxWait

\* A time that is written is an interval after an instant of the recent past.
LEMMA LastMoves ==
  ASSUME GcraInv, [Next]_vars, NEW i \in Identities
  PROVE  /\ UNCHANGED last[i] \/ clock + Interval <= last'[i] + MaxWait
         /\ \/ UNCHANGED forgiven[i]
            \/ \E r \in Requests :
                 /\ IdentityOf[r] = i /\ Overtaken(r)
                 /\ forgiven'[i] = forgiven[i] + last[i] - arrived[r]
<1> DEFINE Moves ==
      /\ UNCHANGED last[i] \/ clock + Interval <= last'[i] + MaxWait
      /\ \/ UNCHANGED forgiven[i]
         \/ \E r \in Requests :
              /\ IdentityOf[r] = i /\ Overtaken(r)
              /\ forgiven'[i] = forgiven[i] + last[i] - arrived[r]
<1>1. ASSUME UNCHANGED history PROVE Moves
  BY <1>1 DEF history
<1>2. /\ clock \in Nat /\ arrived \in [Requests -> Nat] /\ IdentityOf \in [Requests -> Identities]
      /\ last \in [Identities -> Nat] /\ forgiven \in [Identities -> Nat]
      /\ \A j \in Identities : NoRow(j) => last[j] <= clock
  BY Shapes DEF GcraInv, TypeOK, Instants, Absent
<1>3. ASSUME NEW r \in Requests, NEW b \in Row, Wrote(r, b) PROVE
        /\ UNCHANGED last[i] \/ clock + Interval <= last'[i] + MaxWait
        /\ i # IdentityOf[r] => UNCHANGED forgiven[i]
  BY <1>3 DEF Wrote
<1>4. ASSUME NEW r \in Requests, Insert(r) PROVE Moves
  <2>1. CASE BucketsOf(r) = {} /\ InsertRow(r, clock)
    <3>1. NoRow(IdentityOf[r])
      BY <2>1 DEF NoRow, BucketsOf
    <3>2. /\ \E b \in Row : Wrote(r, b)
          /\ forgiven'[IdentityOf[r]] =
               forgiven[IdentityOf[r]] + Later(0, last[IdentityOf[r]] - clock)
      BY <1>2, <1>4, <2>1, <3>1, InsertWrote, RecordedRecent DEF Insert
    <3>3. UNCHANGED forgiven[IdentityOf[r]]
      <4>1. /\ last[IdentityOf[r]] <= clock /\ last[IdentityOf[r]] \in Nat
            /\ forgiven[IdentityOf[r]] \in Nat
        BY <1>2, <3>1
      <4> QED BY <1>2, <3>2, <4>1 DEF Later
    <3> QED BY <1>3, <3>2, <3>3
  <2> QED BY <1>1, <1>4, <2>1 DEF Insert
<1>5. ASSUME NEW r \in Requests, InsertAfterWait(r) PROVE Moves
  <2>1. CASE BucketsOf(r) = {} /\ InsertRow(r, arrived[r])
    <3>1. NoRow(IdentityOf[r]) /\ pc[r] = "wait" /\ arrived[r] \in Nat
      BY <1>2, <1>5, <2>1 DEF NoRow, BucketsOf, InsertAfterWait
    <3>2. /\ \E b \in Row : Wrote(r, b)
          /\ forgiven'[IdentityOf[r]] =
               forgiven[IdentityOf[r]] + Later(0, last[IdentityOf[r]] - arrived[r])
      BY <1>5, <2>1, <3>1, InsertWrote, RecordedRecent DEF InsertAfterWait
    <3>3. /\ last[IdentityOf[r]] <= clock /\ last[IdentityOf[r]] \in Nat
          /\ forgiven[IdentityOf[r]] \in Nat /\ clock <= arrived[r] + MaxWait
      BY <1>2, <3>1, RecordedRecent DEF RecentlyComputed
    <3>4. \/ UNCHANGED forgiven[IdentityOf[r]]
          \/ /\ Overtaken(r)
             /\ forgiven'[IdentityOf[r]] =
                  forgiven[IdentityOf[r]] + last[IdentityOf[r]] - arrived[r]
      BY <1>2, <3>1, <3>2, <3>3, Numbers DEF Later, Overtaken
    <3> QED BY <1>3, <3>2, <3>4
  <2> QED BY <1>1, <1>5, <2>1 DEF InsertAfterWait
<1>6. ASSUME NEW r \in Requests, UpdateApply(r) PROVE Moves
  <2>1. ASSUME UNCHANGED forgiven[IdentityOf[r]], \E b \in Row : Wrote(r, b) PROVE Moves
    BY <1>3, <2>1
  <2>2. pc[r] = "apply" /\ NewestSeen(r) \subseteq BucketsOf(r) /\ arrived[r] \in Nat
    BY <1>2, <1>6 DEF UpdateApply, NewestSeen
  <2>3. ASSUME NEW b \in NewestSeen(r), b \in seen[r], Advance(r, b, arrived[r]) PROVE Moves
    <3>1. b \in BucketsOf(r) /\ b.id = IdentityOf[r]
      BY <2>2, <2>3 DEF BucketsOf
    <3>2. b.tat <= arrived[r] + Tolerance /\ Earned(since[IdentityOf[r]], b.tat, arrived[r])
      BY <2>2, <2>3, <3>1 DEF GcraInv, Examined
    <3> QED BY <1>6, <2>1, <2>2, <2>3, <3>1, <3>2, AdvanceWrote, RecordedRecent
            DEF UpdateApply
  <2>4. ASSUME NEW b \in NewestSeen(r), Conforming(b), Advance(r, b, clock) PROVE Moves
    <3>1. b \in BucketsOf(r) /\ b \in buckets /\ b.id = IdentityOf[r]
      BY <2>2, <2>4 DEF BucketsOf
    <3>2. b.tat <= clock + Tolerance /\ Earned(since[IdentityOf[r]], b.tat, clock)
      BY <2>4, <3>1 DEF Conforming, GcraInv, Present
    <3> QED BY <1>2, <1>6, <2>1, <2>4, <3>1, <3>2, AdvanceWrote, RecordedRecent
            DEF UpdateApply
  <2> QED BY <1>1, <1>6, <2>3, <2>4 DEF UpdateApply
<1>7. ASSUME NEW r \in Requests, Step(r) PROVE Moves
  <2> HIDE DEF Moves
  <2> QED BY <1>1, <1>4, <1>5, <1>6, <1>7
          DEF Step, Consume, CleanupDelete, CleanupEnd, UpdateScan, Select, LockTimesOut
<1>8. CASE Tick \/ UNCHANGED vars
  BY <1>1, <1>8 DEF Tick, vars
<1> QED BY <1>7, <1>8 DEF Next, Finished

\* Debt is lost in one way only: to an INSERT that waited while the row of its
\* identity was deleted, inserted again, paid off and deleted once more, and then
\* what fell due during the wait, which lock_timeout bounds.
THEOREM GcraForgivesTheOvertaken ==
  Spec => [][\A i \in Identities :
               \/ forgiven'[i] = forgiven[i]
               \/ /\ forgiven'[i] \in forgiven[i] .. forgiven[i] + MaxWait
                  /\ \E r \in Requests : IdentityOf[r] = i /\ Overtaken(r)]_vars
<1>1. ASSUME GcraInv, [Next]_vars, NEW i \in Identities, forgiven'[i] # forgiven[i]
      PROVE  /\ forgiven'[i] \in forgiven[i] .. forgiven[i] + MaxWait
             /\ \E r \in Requests : IdentityOf[r] = i /\ Overtaken(r)
  <2>1. PICK r \in Requests : /\ IdentityOf[r] = i /\ Overtaken(r)
                              /\ forgiven'[i] = forgiven[i] + last[i] - arrived[r]
    BY <1>1, LastMoves
  <2>2. forgiven[i] \in Nat /\ last[i] \in Nat /\ arrived[r] \in Nat
    BY <1>1 DEF GcraInv, TypeOK
  <2> QED BY <2>1, <2>2, Numbers DEF Overtaken
<1>2. ASSUME GcraInv, [Next]_vars
      PROVE  [\A i \in Identities :
                \/ forgiven'[i] = forgiven[i]
                \/ /\ forgiven'[i] \in forgiven[i] .. forgiven[i] + MaxWait
                   /\ \E r \in Requests : IdentityOf[r] = i /\ Overtaken(r)]_vars
  BY <1>1, <1>2
<1> QED BY <1>2, Initially, NextKeeps, PTL DEF Spec

\* An INSERT that waits has either recorded an instant at which all is due, or its
\* identity has a row again which outlives the wait.
Outlived ==
  \A r \in Requests : pc[r] = "wait" =>
    \/ last[IdentityOf[r]] <= arrived[r]
    \/ arrived[r] + MaxWait < last[IdentityOf[r]]

LEMMA OutlivedKept ==
  ASSUME GcraInv, GcraInv', Outlived, [Next]_vars, 2 * MaxWait < Interval
  PROVE  Outlived'
<1>1. /\ clock \in Nat /\ arrived \in [Requests -> Nat] /\ pc \in [Requests -> Places]
      /\ IdentityOf \in [Requests -> Identities] /\ last \in [Identities -> Nat]
  BY Shapes DEF GcraInv, TypeOK, Instants
<1> SUFFICES ASSUME NEW r \in Requests, pc'[r] = "wait"
             PROVE  \/ last'[IdentityOf[r]] <= arrived'[r]
                    \/ arrived'[r] + MaxWait < last'[IdentityOf[r]]
  BY DEF Outlived
<1>2. CASE pc[r] = "wait"
  <2>1. arrived'[r] = arrived[r] /\ arrived[r] <= clock /\ arrived[r] \in Nat
    <3>1. arrived[r] <= clock /\ arrived[r] \in Nat
      BY <1>1, <1>2 DEF GcraInv, Current
    <3>2. ASSUME NEW q \in Requests, Step(q), q # r PROVE arrived'[r] = arrived[r]
      BY <1>1, <3>2 DEF Step, Consume, CleanupDelete, CleanupEnd, Insert, InsertAfterWait,
         UpdateScan, UpdateApply, Select, LockTimesOut
    <3>3. ASSUME Step(r) PROVE arrived'[r] = arrived[r]
      BY <1>2, <3>3 DEF Step, Consume, CleanupDelete, CleanupEnd, Insert, InsertAfterWait,
         UpdateScan, UpdateApply, Select, LockTimesOut
    <3>4. ASSUME Tick \/ UNCHANGED vars PROVE arrived'[r] = arrived[r]
      BY <3>4 DEF Tick, vars
    <3> QED BY <3>1, <3>2, <3>3, <3>4 DEF Next, Finished
  <2>2. /\ UNCHANGED last[IdentityOf[r]] \/ clock + Interval <= last'[IdentityOf[r]] + MaxWait
        /\ last[IdentityOf[r]] \in Nat /\ last'[IdentityOf[r]] \in Nat
    BY <1>1, LastMoves DEF GcraInv, TypeOK
  <2> QED BY <1>1, <1>2, <2>1, <2>2, Numbers DEF Outlived
<1>3. CASE pc[r] # "wait"
  <2>1. /\ BucketsOf(r) \intersect Locked # {} /\ arrived'[r] = clock
        /\ UNCHANGED history
    <3>1. PICK q \in Requests : Step(q)
      BY <1>3 DEF Next, Finished, Tick, vars
    <3>2. \E place \in Places : pc' = [pc EXCEPT ![q] = place]
      BY <3>1 DEF Step, Consume, CleanupDelete, CleanupEnd, Insert, InsertRow, InsertAfterWait,
         UpdateScan, UpdateApply, Advance, Select, LockTimesOut, Allow, Goto, Places
    <3>3. q = r
      BY <1>1, <1>3, <3>2
    <3>4. Insert(r)
      BY <1>1, <1>3, <3>1, <3>3 DEF Step, Consume, CleanupDelete, CleanupEnd, InsertRow,
         InsertAfterWait, UpdateScan, UpdateApply, Advance, Select, LockTimesOut, Allow, Goto
    <3>5. arrived'[r] = clock /\ UNCHANGED history
      BY <1>1, <1>3, <3>4 DEF Insert, InsertRow, Allow, Goto
    <3>6. BucketsOf(r) \intersect Locked # {}
      BY <1>1, <1>3, <3>4 DEF Insert, InsertRow, Allow, Goto
    <3> QED BY <3>5, <3>6
  <2>2. PICK b \in buckets : b.id = IdentityOf[r] /\ b.tat <= clock
    BY <2>1 DEF BucketsOf, Locked, GcraInv, LockedExpired
  <2> QED BY <2>1, <2>2 DEF GcraInv, Present, history
<1> QED BY <1>2, <1>3

\* If no INSERT waits for half an emission interval, no debt is ever forgiven:
\* what GcraConforms says of such a deployment is the policy itself.
THEOREM GcraKeepsDebt ==
  ASSUME 2 * MaxWait < Interval
  PROVE  Spec => [](\A i \in Identities : forgiven[i] = 0)
<1> DEFINE Kept == Outlived /\ \A i \in Identities : forgiven[i] = 0
<1>1. Init => Kept
  BY DEF Init, Outlived
<1>2. GcraInv /\ GcraInv' /\ Kept /\ [Next]_vars => Kept'
  <2> SUFFICES ASSUME GcraInv, GcraInv', Kept, [Next]_vars,
                      NEW i \in Identities, ~UNCHANGED forgiven[i]
               PROVE  FALSE
    BY OutlivedKept
  <2>1. PICK r \in Requests : IdentityOf[r] = i /\ Overtaken(r)
    BY LastMoves
  <2>2. last[i] \in Nat /\ arrived[r] \in Nat
    BY DEF GcraInv, TypeOK
  <2> QED BY <2>1, <2>2, Numbers DEF Overtaken, Outlived
<1> QED BY <1>1, <1>2, Initially, NextKeeps, PTL DEF Spec
-----------------------------------------------------------------------------
(***************************************************************************)
(* The delays in the answers                                               *)
(***************************************************************************)
\* The delays of the answer a cover the row b.
Covers(a, b) ==
  \E debt \in Int :
    /\ Until(b.tat, a.at) <= debt
    /\ a.reset = WholeSeconds(debt)
    /\ a.kind = "denied" => a.retryAfter = WholeSeconds(debt - Tolerance)

\* As long as nobody of the identity is allowed, its row stays what the answer covers.
Told ==
  \A r \in Requests : \A a \in answer[r] :
    /\ a.total <= since[IdentityOf[r]][0]
    /\ a.total = since[IdentityOf[r]][0] => \A b \in BucketsOf(r) : Covers(a, b)

LEMMA DebtCovers ==
  ASSUME NEW tat \in Int, clock \in Nat
  PROVE  Debt(tat) \in Int /\ Until(tat, clock) <= Debt(tat)
<1>1. Until(tat, clock) \in Int
  BY TruncationBound
<1> QED BY <1>1 DEF Debt, Later

LEMMA AllowTold ==
  ASSUME GcraInv, GcraInv', Told, NEW r \in Requests, NEW at \in Nat, NEW b \in Row,
         b.id = IdentityOf[r], Allow(r, b.tat, at),
         \A c \in buckets' : c.id = b.id => c = b,
         \A c \in buckets' : c.id # b.id => c \in buckets
  PROVE  Told'
<1>1. /\ TypeOK /\ clock \in Nat /\ b.tat \in Nat /\ 0 \in Instants
      /\ IdentityOf \in [Requests -> Identities]
      /\ answer \in [Requests -> SUBSET Answer]
  <2>1. TypeOK /\ IdentityOf \in [Requests -> Identities]
    BY Shapes DEF GcraInv
  <2>2. answer \in [Requests -> SUBSET Answer] /\ clock \in Instants
    BY <2>1 DEF TypeOK
  <2>3. 0 \in Instants /\ Instants \subseteq Nat
    BY Numbers DEF Instants
  <2>4. b.tat \in Nat
    BY DEF Row
  <2> QED BY <2>1, <2>2, <2>3, <2>4
<1>2. /\ \A i \in Identities : i # IdentityOf[r] => since'[i][0] = since[i][0]
      /\ since'[IdentityOf[r]][0] = since[IdentityOf[r]][0] + 1
      /\ \A i \in Identities : since[i][0] \in Nat
  <2>1. /\ \A i \in Identities, t \in Instants :
             i # IdentityOf[r] => since'[i][t] = since[i][t]
        /\ \A t \in Instants : since'[IdentityOf[r]][t] =
             IF t <= at THEN since[IdentityOf[r]][t] + 1 ELSE since[IdentityOf[r]][t]
    BY <1>1, HistoryType
  <2>2. \A i \in Identities : since[i][0] \in Nat
    BY <1>1 DEF TypeOK
  <2> QED BY <1>1, <2>1, <2>2
<1> DEFINE new == [kind |-> "allowed", at |-> clock, total |-> since[IdentityOf[r]][0] + 1,
                   remaining |-> Remaining(b.tat), reset |-> WholeSeconds(Debt(b.tat))]
<1>3. answer' = [answer EXCEPT ![r] = {new}]
  BY DEF Allow
<1>4. Covers(new, b)
  <2>1. Debt(b.tat) \in Int /\ Until(b.tat, clock) <= Debt(b.tat)
    BY <1>1, DebtCovers
  <2> QED BY <2>1 DEF Covers
<1>5. new.total = since[IdentityOf[r]][0] + 1
  OBVIOUS
<1> HIDE DEF new
<1> SUFFICES ASSUME NEW q \in Requests, NEW a \in answer'[q]
             PROVE  /\ a.total <= since'[IdentityOf[q]][0]
                    /\ a.total = since'[IdentityOf[q]][0] =>
                         \A c \in BucketsOf(q)' : Covers(a, c)
  BY DEF Told
<1>6. CASE q = r
  <2>1. a = new
    BY <1>1, <1>3, <1>6
  <2>2. a.total <= since'[IdentityOf[q]][0]
    BY <1>1, <1>2, <1>5, <1>6, <2>1
  <2>3. \A c \in BucketsOf(q)' : Covers(a, c)
    BY <1>4, <1>6, <2>1 DEF BucketsOf
  <2> QED BY <2>2, <2>3
<1>7. CASE q # r
  <2>1. a \in answer[q] /\ a.total \in Nat
    BY <1>1, <1>3, <1>7 DEF Answer
  <2>2. /\ a.total <= since[IdentityOf[q]][0]
        /\ a.total = since[IdentityOf[q]][0] => \A c \in BucketsOf(q) : Covers(a, c)
    BY <2>1 DEF Told
  <2>3. CASE IdentityOf[q] = IdentityOf[r]
    BY <1>1, <1>2, <2>1, <2>2, <2>3
  <2>4. CASE IdentityOf[q] # IdentityOf[r]
    <3>1. BucketsOf(q)' \subseteq BucketsOf(q)
      BY <2>4 DEF BucketsOf
    <3>2. since'[IdentityOf[q]][0] = since[IdentityOf[q]][0]
      BY <1>1, <1>2, <2>4
    <3> QED BY <2>2, <3>1, <3>2
  <2> QED BY <2>3, <2>4
<1> QED BY <1>6, <1>7

LEMMA WriteTold ==
  ASSUME GcraInv, GcraInv', Told, NEW r \in Requests, NEW at \in Nat,
         \/ BucketsOf(r) = {} /\ InsertRow(r, at)
         \/ \E c \in BucketsOf(r) : Advance(r, c, at)
  PROVE  Told'
<1>1. TypeOK /\ OneRow
  BY DEF GcraInv
<1>2. CASE BucketsOf(r) = {} /\ InsertRow(r, at)
  <2>1. PICK b \in Row : /\ b.id = IdentityOf[r] /\ buckets' = buckets \union {b}
                         /\ Allow(r, b.tat, at)
    BY <1>1, <1>2, RowWritten
  <2>2. /\ \A c \in buckets' : c.id = b.id => c = b
        /\ \A c \in buckets' : c.id # b.id => c \in buckets
    BY <1>2, <2>1 DEF BucketsOf
  <2> QED BY <2>1, <2>2, AllowTold
<1>3. CASE \E c \in BucketsOf(r) : Advance(r, c, at)
  <2>1. PICK c \in BucketsOf(r) : Advance(r, c, at)
    BY <1>3
  <2>2. PICK b \in Row : /\ b.id = IdentityOf[r] /\ buckets' = (buckets \ {c}) \union {b}
                         /\ Allow(r, b.tat, at)
    BY <1>1, <2>1, RowWritten
  <2>3. /\ \A d \in buckets' : d.id = b.id => d = b
        /\ \A d \in buckets' : d.id # b.id => d \in buckets
    BY <1>1, <2>2 DEF OneRow, BucketsOf
  <2> QED BY <2>2, <2>3, AllowTold
<1> QED BY <1>2, <1>3

LEMMA SelectTold ==
  ASSUME GcraInv, Told, NEW r \in Requests, Select(r)
  PROVE  Told'
<1>1. /\ clock \in Nat /\ answer \in [Requests -> SUBSET Answer]
      /\ UNCHANGED <<buckets, since>> /\ OneRow /\ buckets \subseteq Row
      /\ since[IdentityOf[r]][0] \in Nat
  BY Shapes, Numbers DEF GcraInv, TypeOK, Instants, Select, history
<1>2. CASE UNCHANGED answer
  BY <1>1, <1>2 DEF Told, BucketsOf
<1>3. CASE ~UNCHANGED answer
  <2>1. PICK b \in BucketsOf(r) : answer' = [answer EXCEPT ![r] =
               {[kind |-> "denied", at |-> clock, total |-> since[IdentityOf[r]][0],
                 retryAfter |-> WholeSeconds(Debt(b.tat) - Tolerance),
                 reset |-> WholeSeconds(Debt(b.tat))]}]
    BY <1>3 DEF Select
  <2> DEFINE new == [kind |-> "denied", at |-> clock, total |-> since[IdentityOf[r]][0],
                     retryAfter |-> WholeSeconds(Debt(b.tat) - Tolerance),
                     reset |-> WholeSeconds(Debt(b.tat))]
  <2>2. b.tat \in Int /\ \A c \in BucketsOf(r) : c = b
    BY <1>1 DEF BucketsOf, OneRow, Row
  <2>3. Covers(new, b)
    <3>1. Debt(b.tat) \in Int /\ Until(b.tat, clock) <= Debt(b.tat)
      BY <1>1, <2>2, DebtCovers
    <3> QED BY <3>1 DEF Covers
  <2>4. new.total = since[IdentityOf[r]][0]
    OBVIOUS
  <2> HIDE DEF new
  <2>5. answer'[r] = {new} /\ \A q \in Requests : q # r => answer'[q] = answer[q]
    BY <1>1, <2>1 DEF new
  <2>6. ASSUME NEW q \in Requests, NEW a \in answer'[q]
        PROVE  /\ a.total <= since[IdentityOf[q]][0]
               /\ a.total = since[IdentityOf[q]][0] => \A c \in BucketsOf(q) : Covers(a, c)
    BY <1>1, <2>2, <2>3, <2>4, <2>5, <2>6 DEF Told
  <2> QED BY <1>1, <2>6 DEF Told, BucketsOf
<1> QED BY <1>2, <1>3

LEMMA StepTold ==
  ASSUME GcraInv, GcraInv', Told, [Next]_vars
  PROVE  Told'
<1>1. ASSUME UNCHANGED <<answer, since>>, buckets' \subseteq buckets PROVE Told'
  BY <1>1 DEF Told, BucketsOf
<1>2. clock \in Nat /\ arrived \in [Requests -> Nat]
  BY DEF GcraInv, TypeOK, Instants
<1>3. ASSUME NEW r \in Requests, Insert(r) PROVE Told'
  BY <1>1, <1>2, <1>3, WriteTold DEF Insert, history
<1>4. ASSUME NEW r \in Requests, InsertAfterWait(r) PROVE Told'
  <2>1. arrived[r] \in Nat
    BY <1>2
  <2> QED BY <1>1, <1>4, <2>1, WriteTold DEF InsertAfterWait, history
<1>5. ASSUME NEW r \in Requests, UpdateApply(r) PROVE Told'
  <2>1. NewestSeen(r) \subseteq BucketsOf(r) /\ arrived[r] \in Nat
    BY <1>2 DEF NewestSeen
  <2> QED BY <1>1, <1>2, <1>5, <2>1, WriteTold DEF UpdateApply, history
<1>6. ASSUME NEW r \in Requests, Step(r) PROVE Told'
  BY <1>1, <1>3, <1>4, <1>5, <1>6, SelectTold
     DEF Step, Consume, CleanupDelete, CleanupEnd, UpdateScan, LockTimesOut, history
<1>7. CASE Tick
  BY <1>1, <1>7 DEF Tick, history
<1>8. CASE UNCHANGED vars
  BY <1>1, <1>8 DEF vars, history
<1> QED BY <1>6, <1>7, <1>8 DEF Next, Finished

LEMMA DelaysHold ==
  ASSUME GcraInv, Told
  PROVE  RetryAfterHonest
<1> SUFFICES ASSUME NEW r \in Requests, NEW a \in answer[r],
                    a.total = since[IdentityOf[r]][0], NEW b \in BucketsOf(r)
             PROVE  /\ a.kind = "denied" /\ Waited(a.at, a.retryAfter, clock) => Conforming(b)
                    /\ Waited(a.at, a.reset, clock) => b \in Expired
  BY DEF RetryAfterHonest
<1>1. b \in buckets /\ b.tat \in Nat /\ a.at \in Nat /\ clock \in Nat /\ Tolerance \in Nat
  BY BurstLength DEF GcraInv, TypeOK, BucketsOf, Row, Answer, Instants
<1>2. PICK debt \in Int :
        /\ Until(b.tat, a.at) <= debt
        /\ a.reset = WholeSeconds(debt)
        /\ a.kind = "denied" => a.retryAfter = WholeSeconds(debt - Tolerance)
  BY DEF Told, Covers
<1>3. Until(b.tat, a.at) \in Int
  <2>1. b.tat \in Int /\ a.at \in Int
    BY <1>1
  <2> QED BY <2>1, TruncationBound, Zenon
<1>4. /\ Until(b.tat, a.at) - 0 <= debt
      /\ Until(b.tat, a.at) - Tolerance <= debt - Tolerance
      /\ debt - Tolerance \in Int
  BY <1>1, <1>2, <1>3
<1>5. ASSUME a.kind = "denied", Waited(a.at, a.retryAfter, clock) PROVE Conforming(b)
  <2>1. b.tat - Tolerance <= clock
    BY <1>1, <1>2, <1>4, <1>5, WaitedPast
  <2> QED BY <1>1, <2>1 DEF Conforming
<1>6. ASSUME Waited(a.at, a.reset, clock) PROVE b \in Expired
  <2>1. b.tat - 0 <= clock
    BY <1>1, <1>2, <1>4, <1>6, WaitedPast
  <2> QED BY <1>1, <2>1 DEF Expired
<1> QED BY <1>5, <1>6

\* Who waits as long as Retry-After says, and a millisecond at most, conforms again
\* if nobody of the identity was allowed meanwhile; likewise for the reset time.
THEOREM GcraDelaysTrue == Spec => []RetryAfterHonest
<1>1. Init => Told
  BY DEF Init, Told
<1>2. GcraInv /\ GcraInv' /\ Told /\ [Next]_vars => Told'
  BY StepTold
<1>3. GcraInv /\ Told => RetryAfterHonest
  BY DelaysHold
<1> QED BY <1>1, <1>2, <1>3, Initially, NextKeeps, PTL DEF Spec
=============================================================================
