--------------------------- MODULE OutboundProofs ---------------------------
(***************************************************************************)
(* What holds of OutboundRequest for any budgets, retries and delays.      *)
(***************************************************************************)
EXTENDS OutboundRequest, Integers, TLAPS

\* A wait ends before the deadline, an attempt less than a millisecond after it,
\* and neither is overdue.
InTime ==
  /\ pc # "done" => clock <= dueAt + MaxLate
  /\ pc = "waiting" => dueAt < Timeout
  /\ pc \in {"fetching", "reading"} => dueAt < Timeout + Milli

\* A second attempt is waited for, or made, within what the policy allows.
Allowed ==
  /\ pc \in {"fetching", "reading"} => attempt > 0
  /\ pc = "waiting" => attempt <= MaxRetries
  /\ attempt > 1 \/ (attempt = 1 /\ pc = "waiting") => CanRetryMethod

\* A 2xx response was the last one, and only the body can follow it.
Settled == accepted # 0 => attempt = accepted /\ pc \in {"reading", "done"}

\* Who waits, waits until the upstream allows it; who fetches, has waited.
Paced ==
  /\ pc = "waiting" => notBefore <= dueAt
  /\ pc = "fetching" => notBefore <= clock

IInv == /\ TypeOK
        /\ InTime /\ Allowed /\ Settled /\ Paced
        /\ BodiesReleased

-----------------------------------------------------------------------------
(***************************************************************************)
(* Arithmetic.                                                             *)
(***************************************************************************)
LEMMA DivFloor ==
  ASSUME NEW a \in Int, NEW m \in Nat \ {0}
  PROVE  /\ a \div m \in Int
         /\ (a \div m) * m <= a
         /\ a < (a \div m) * m + m
BY Z3

\* Rounding up to milliseconds adds less than one.
LEMMA RoundedUp ==
  ASSUME NEW t \in Nat
  PROVE  WholeMillis(t) \in Nat /\ WholeMillis(t) < t + Milli
<1> DEFINE q == (t + Milli - 1) \div Milli
<1>1. t + Milli - 1 \in Nat
  BY Numbers
<1>2. q \in Int /\ q * Milli <= t + Milli - 1 /\ t + Milli - 1 < q * Milli + Milli
  BY <1>1, DivFloor, Numbers
<1>3. WholeMillis(t) = Milli * q
  BY DEF WholeMillis
<1> HIDE DEF q
<1>4. Milli * q = q * Milli /\ q * Milli \in Int
  BY <1>2, Numbers
<1> QED BY <1>2, <1>3, <1>4, Numbers

\* An attempt that begins within the deadline ends with it, but for that rounding.
LEMMA BudgetFits ==
  ASSUME TypeOK, Remaining > 0
  PROVE  AttemptBudget \in Nat /\ clock + AttemptBudget < Timeout + Milli
<1> DEFINE t == IF AttemptTimeout < Remaining THEN AttemptTimeout ELSE Remaining
<1>1. clock < Timeout /\ Remaining = Timeout - clock
  BY Numbers DEF TypeOK, Remaining
<1>2. t \in Nat /\ t <= Timeout - clock
  BY <1>1, Numbers DEF TypeOK
<1>3. AttemptBudget = WholeMillis(t)
  BY DEF AttemptBudget
<1> HIDE DEF t
<1>4. WholeMillis(t) \in Nat /\ WholeMillis(t) < t + Milli
  BY <1>2, RoundedUp
<1> QED BY <1>2, <1>3, <1>4, Numbers DEF TypeOK

-----------------------------------------------------------------------------
(***************************************************************************)
(* The retry policy.                                                       *)
(***************************************************************************)
\* A delay is granted to a method that may be retried while retries are left, and
\* it is the one that the upstream asked for.
LEMMA DelayGranted ==
  ASSUME TypeOK, NEW failure, NEW retryAfter \in RetryAfters \cup {NoHeader},
         NEW d \in NextDelay(failure, retryAfter)
  PROVE  /\ d \in Nat
         /\ attempt <= MaxRetries /\ CanRetryMethod /\ failure # "final"
         /\ failure = "transient" /\ retryAfter # NoHeader => d = retryAfter
<1>1. attempt <= MaxRetries /\ CanRetryMethod /\ failure # "final"
  BY Numbers DEF NextDelay, TypeOK
<1>2. CASE failure = "transient" /\ retryAfter # NoHeader
  BY <1>1, <1>2, Headers DEF NextDelay
<1>3. CASE ~(failure = "transient" /\ retryAfter # NoHeader)
  <2>1. d \in Backoff
    BY <1>1, <1>3 DEF NextDelay
  <2> QED BY <1>1, <1>3, <2>1, Numbers DEF Backoff
<1> QED BY <1>2, <1>3

\* After a failure either a retry is due within the deadline or the call is over.
LEMMA RetryOutcome ==
  ASSUME TypeOK, pc = "fetching", NEW failure,
         NEW retryAfter \in RetryAfters \cup {NoHeader}, NEW code \in Answers,
         RetryOrFail(failure, retryAfter, code)
  PROVE  \/ /\ pc' = "waiting" /\ answer' = answer
            /\ dueAt' \in Nat /\ clock <= dueAt' /\ dueAt' < Timeout
            /\ attempt <= MaxRetries /\ CanRetryMethod
            /\ failure = "transient" /\ retryAfter # NoHeader =>
                 dueAt' = clock + retryAfter * Milli
            /\ failure # "final"
         \/ pc' = "done" /\ answer' = code /\ dueAt' = dueAt
<1>1. CASE \E d \in NextDelay(failure, retryAfter) :
             /\ d * Milli < Remaining
             /\ pc' = "waiting" /\ dueAt' = clock + d * Milli /\ UNCHANGED answer
  <2>1. PICK d \in NextDelay(failure, retryAfter) :
          /\ d * Milli < Remaining
          /\ pc' = "waiting" /\ dueAt' = clock + d * Milli /\ UNCHANGED answer
    BY <1>1
  <2>2. /\ d \in Nat
        /\ attempt <= MaxRetries /\ CanRetryMethod /\ failure # "final"
        /\ failure = "transient" /\ retryAfter # NoHeader => d = retryAfter
    BY DelayGranted
  <2>3. d * Milli \in Nat
    BY <2>2, Numbers
  <2>4. clock < Timeout /\ Remaining = Timeout - clock
    BY <2>1, <2>3, Numbers DEF TypeOK, Remaining
  <2>5. dueAt' \in Nat /\ clock <= dueAt' /\ dueAt' < Timeout
    BY <2>1, <2>3, <2>4, Numbers DEF TypeOK
  <2> QED BY <2>1, <2>2, <2>5
<1>2. CASE Answer(code)
  BY <1>2 DEF Answer
<1> QED BY <1>1, <1>2 DEF RetryOrFail

-----------------------------------------------------------------------------
(***************************************************************************)
(* The invariant.                                                          *)
(***************************************************************************)
LEMMA InitOK == Init => IInv
BY Numbers DEF Init, IInv, TypeOK, InTime, Allowed, Settled, Paced,
               BodiesReleased, Answers

\* A failure that is retried or answered keeps the invariant, whatever becomes of
\* the response's body as long as it is not left open.
LEMMA FailureOK ==
  ASSUME IInv, pc = "fetching", NEW failure,
         NEW retryAfter \in RetryAfters \cup {NoHeader}, NEW code \in Answers,
         RetryOrFail(failure, retryAfter, code),
         UNCHANGED <<request, clock, attempt, accepted>>,
         body' \in {"none", "closed"} \/ UNCHANGED body,
         notBefore' \in Nat,
         pc' = "waiting" => notBefore' <= dueAt'
  PROVE  IInv'
<1> USE DEF IInv
<1>1. \/ /\ pc' = "waiting" /\ answer' = answer
         /\ dueAt' \in Nat /\ clock <= dueAt' /\ dueAt' < Timeout
         /\ attempt <= MaxRetries /\ CanRetryMethod
      \/ pc' = "done" /\ answer' = code /\ dueAt' = dueAt
  BY RetryOutcome
<1>2. TypeOK'
  BY <1>1 DEF TypeOK
<1>3. InTime'
  BY <1>1, Numbers DEF TypeOK, InTime
<1>4. Allowed'
  BY <1>1 DEF TypeOK, Allowed, CanRetryMethod
<1>5. accepted = 0 /\ Settled'
  BY <1>1 DEF TypeOK, Settled
<1>6. Paced'
  BY <1>1 DEF TypeOK, Paced
<1>7. BodiesReleased'
  BY <1>1 DEF BodiesReleased
<1> QED BY <1>2, <1>3, <1>4, <1>5, <1>6, <1>7

LEMMA StepOK == IInv /\ [Next]_vars => IInv'
<1> SUFFICES ASSUME IInv, [Next]_vars PROVE IInv'
  OBVIOUS
<1> USE DEF IInv
<1>1. CASE Attempt
  <2> USE DEF Attempt
  <2>1. AttemptBudget \in Nat /\ clock + AttemptBudget < Timeout + Milli
    BY <1>1, BudgetFits
  <2>2. attempt <= MaxRetries /\ accepted = 0
    BY <1>1 DEF Allowed, Settled
  <2>3. TypeOK'
    BY <1>1, <2>1, <2>2, Numbers DEF TypeOK
  <2>4. InTime'
    BY <1>1, <2>1, Numbers DEF TypeOK, InTime
  <2>5. Allowed'
    BY <1>1, <2>2, Numbers DEF TypeOK, Allowed, CanRetryMethod
  <2>6. Settled' /\ Paced' /\ BodiesReleased'
    BY <1>1, <2>2 DEF TypeOK, Settled, Paced, BodiesReleased
  <2> QED BY <2>3, <2>4, <2>5, <2>6
<1>2. CASE OutOfTime
  BY <1>2 DEF OutOfTime, Answer, TypeOK, InTime, Allowed, Settled, Paced,
              BodiesReleased, CanRetryMethod, Answers
<1>3. CASE FetchRejects
  <2>1. pc' = "waiting" => notBefore <= dueAt'
    BY <1>3, RetryOutcome DEF FetchRejects, Paced, TypeOK, Answers
  <2> QED BY <1>3, <2>1, FailureOK DEF FetchRejects, TypeOK, Answers
<1>4. CASE FetchAborts
  <2>1. pc' = "waiting" => notBefore <= dueAt'
    BY <1>4, RetryOutcome DEF FetchAborts, Paced, TypeOK, Answers
  <2> QED BY <1>4, <2>1, FailureOK DEF FetchAborts, TypeOK, Answers
<1>5. ASSUME NEW failure \in {"transient", "final"},
             NEW retryAfter \in RetryAfters \cup {NoHeader},
             Refused(failure, retryAfter)
      PROVE  IInv'
  <2> USE DEF Refused
  <2>1. retryAfter = NoHeader \/ retryAfter * Milli \in Nat
    BY Headers, Numbers
  <2>2. notBefore' \in Nat
    BY <1>5, <2>1 DEF TypeOK
  <2>3. pc' = "waiting" => notBefore' <= dueAt'
    BY <1>5, <2>1, RetryOutcome DEF TypeOK, Answers
  <2> QED BY <1>5, <2>2, <2>3, FailureOK DEF Answers
<1>6. CASE Accepted
  <2> USE DEF Accepted
  <2>1. /\ pc = "fetching" /\ accepted' = attempt
        /\ UNCHANGED <<request, clock, attempt, notBefore, dueAt>>
        /\ \/ pc' = "done" /\ body' \in {"none", "closed"} /\ answer' \in Answers
           \/ pc' = "reading" /\ body' = "open" /\ UNCHANGED answer
    BY <1>6 DEF Answer, Answers
  <2>2. TypeOK' /\ InTime' /\ Settled' /\ Paced' /\ BodiesReleased'
    BY <2>1 DEF TypeOK, InTime, Settled, Paced, BodiesReleased
  <2>3. Allowed'
    BY <2>1 DEF Allowed, CanRetryMethod
  <2> QED BY <2>2, <2>3
<1>7. CASE ReadEnds \/ ReadAborts
  <2>1. /\ pc = "reading" /\ pc' = "done" /\ body' = "closed" /\ answer' \in Answers
        /\ UNCHANGED <<request, clock, attempt, accepted, notBefore, dueAt>>
    BY <1>7 DEF ReadEnds, ReadAborts, Answer, Answers
  <2>2. TypeOK' /\ InTime' /\ Settled' /\ Paced' /\ BodiesReleased'
    BY <2>1 DEF TypeOK, InTime, Settled, Paced, BodiesReleased
  <2>3. Allowed'
    BY <2>1 DEF Allowed, CanRetryMethod
  <2> QED BY <2>2, <2>3
<1>8. CASE Tick
  <2>1. /\ pc # "done" /\ clock < dueAt + MaxLate /\ clock' = clock + 1
        /\ UNCHANGED <<request, pc, attempt, dueAt, body, answer, accepted, notBefore>>
    BY <1>8 DEF Tick
  <2>2. TypeOK' /\ InTime' /\ Settled' /\ Paced' /\ BodiesReleased'
    BY <2>1, Numbers DEF TypeOK, InTime, Settled, Paced, BodiesReleased
  <2>3. Allowed'
    BY <2>1 DEF Allowed, CanRetryMethod
  <2> QED BY <2>2, <2>3
<1>9. CASE UNCHANGED vars
  BY <1>9 DEF vars, TypeOK, InTime, Allowed, Settled, Paced, BodiesReleased,
              CanRetryMethod
<1> QED BY <1>1, <1>2, <1>3, <1>4, <1>5, <1>6, <1>7, <1>8, <1>9 DEF Next

LEMMA SpecHasIInv == Spec => []IInv
BY InitOK, StepOK, PTL DEF Spec

-----------------------------------------------------------------------------
\* Every variable of executeRequest keeps its type, the attempts among them: the
\* policy never lets a call exceed MaxRetries + 1 attempts.
THEOREM AttemptsAreBounded == Spec => []TypeOK
<1>1. IInv => TypeOK
  BY DEF IInv
<1> QED BY <1>1, SpecHasIInv, PTL

\* A call that has no answer yet is within its total deadline, for every timeout,
\* retry count and delay: the loop of executeRequest cannot multiply its budget.
THEOREM DeadlineIsKept == Spec => []DeadlineKept
<1>1. IInv => DeadlineKept
  BY Numbers DEF IInv, TypeOK, InTime, DeadlineKept
<1> QED BY <1>1, SpecHasIInv, PTL

\* canRetryMethod keeps a request that must not be replayed to one attempt, and a
\* 2xx response is the last that executeRequest asks for.
THEOREM NothingUnsafeIsSentAgain == Spec => []SentAgainSafely
<1>1. IInv => NotReplayed
  BY DEF IInv, TypeOK, Request, Allowed, CanRetryMethod, NotReplayed
<1>2. IInv => SuccessFinal
  BY DEF IInv, Settled, SuccessFinal
<1>3. IInv => SentAgainSafely
  BY <1>1, <1>2 DEF SentAgainSafely
<1> QED BY <1>3, SpecHasIInv, PTL

\* No body of a response outlives the attempt that asked for it.
THEOREM BodiesAreReleased == Spec => []BodiesReleased
<1>1. IInv => BodiesReleased
  BY DEF IInv
<1> QED BY <1>1, SpecHasIInv, PTL

\* waitBeforeRetry waits out every Retry-After that nextDelay accepted.
THEOREM RetryAfterIsKept == Spec => RetryAfterKept
<1>1. IInv /\ [Next]_vars => [attempt' # attempt => clock >= notBefore]_vars
  <2> SUFFICES ASSUME IInv, Next, attempt' # attempt
               PROVE  clock >= notBefore
    BY DEF vars
  <2>1. Attempt
    BY DEF Next, OutOfTime, FetchRejects, FetchAborts, Refused, Accepted,
           ReadEnds, ReadAborts, Tick
  <2> QED BY <2>1 DEF IInv, TypeOK, Paced, Attempt
<1> QED BY <1>1, SpecHasIInv, PTL DEF Spec, RetryAfterKept

-----------------------------------------------------------------------------
(***************************************************************************)
(* Every call comes to an end.                                             *)
(***************************************************************************)
\* The ticks that are left of the deadline, two for each attempt that is, and
\* what the pending one may still do.
StepsLeft ==
  IF pc = "done" THEN 0
  ELSE (Timeout + Milli + MaxLate - clock) + 2 * (MaxRetries + 1 - attempt)
         + (IF pc = "fetching" THEN 2 ELSE 1)

MostSteps == Timeout + Milli + MaxLate + 2 * MaxRetries + 3

LEMMA StepsAreLeft ==
  ASSUME IInv
  PROVE  StepsLeft \in 0 .. MostSteps /\ (pc # "done" => StepsLeft > 0)
<1>1. pc # "done" => clock < Timeout + Milli + MaxLate
  BY Numbers DEF IInv, TypeOK, InTime
<1> QED BY <1>1, Numbers DEF IInv, TypeOK, Allowed, StepsLeft, MostSteps

\* A failure costs a step whether it is retried or not.
LEMMA FailureCounts ==
  ASSUME IInv, pc = "fetching", NEW failure,
         NEW retryAfter \in RetryAfters \cup {NoHeader}, NEW code \in Answers,
         RetryOrFail(failure, retryAfter, code), UNCHANGED <<clock, attempt>>
  PROVE  StepsLeft' < StepsLeft
<1>1. pc' \in {"waiting", "done"}
  BY RetryOutcome DEF IInv
<1>2. CASE pc' = "waiting"
  BY <1>2, Numbers DEF IInv, TypeOK, StepsLeft
<1>3. CASE pc' = "done"
  BY <1>3, StepsAreLeft DEF StepsLeft, MostSteps
<1> QED BY <1>1, <1>2, <1>3

\* Whatever the upstream does, each step of executeRequest and each tick uses up one
\* of the steps that timeoutMs and maxRetries allow, and an answered call takes none:
\* attempts, waits and reading cannot go round for ever, for any budgets.
THEOREM EveryStepCounts ==
  Spec => [](StepsLeft \in 0 .. MostSteps) /\ [][StepsLeft' < StepsLeft]_vars
<1>1. IInv => StepsLeft \in 0 .. MostSteps
  BY StepsAreLeft
<1>2. IInv /\ [Next]_vars => [StepsLeft' < StepsLeft]_vars
  <2> SUFFICES ASSUME IInv, Next PROVE StepsLeft' < StepsLeft
    OBVIOUS
  <2> USE DEF IInv
  <2>1. CASE Attempt
    BY <2>1, Numbers DEF Attempt, TypeOK, Allowed, StepsLeft
  <2>2. CASE OutOfTime \/ ReadEnds \/ ReadAborts
    <3>1. pc # "done" /\ pc' = "done"
      BY <2>2 DEF OutOfTime, ReadEnds, ReadAborts, Answer
    <3> QED BY <3>1, StepsAreLeft DEF StepsLeft, MostSteps
  <2>3. CASE FetchRejects
    BY <2>3, FailureCounts DEF FetchRejects, Answers
  <2>4. CASE FetchAborts
    BY <2>4, FailureCounts DEF FetchAborts, Answers
  <2>5. ASSUME NEW failure \in {"transient", "final"},
               NEW retryAfter \in RetryAfters \cup {NoHeader},
               Refused(failure, retryAfter)
        PROVE  StepsLeft' < StepsLeft
    BY <2>5, FailureCounts DEF Refused, Answers
  <2>6. CASE Accepted
    <3>1. CASE pc' = "done"
      BY <2>6, <3>1, StepsAreLeft DEF Accepted, StepsLeft, MostSteps
    <3>2. CASE pc' = "reading"
      BY <2>6, <3>2, Numbers DEF Accepted, TypeOK, StepsLeft
    <3> QED BY <2>6, <3>1, <3>2 DEF Accepted, Answer
  <2>7. CASE Tick
    BY <2>7, Numbers DEF Tick, TypeOK, StepsLeft
  <2> QED BY <2>1, <2>2, <2>3, <2>4, <2>5, <2>6, <2>7 DEF Next
<1> QED BY <1>1, <1>2, SpecHasIInv, PTL DEF Spec
=============================================================================
