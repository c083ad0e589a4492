-------------------------- MODULE OutboundRequest --------------------------
(***************************************************************************)
(* One call of FetchHttpClient.request from its first look at the clock to *)
(* its answer: the loop of executeRequest with DefaultRetryPolicy, against *)
(* an upstream that may answer, refuse, hang or break off at any time.     *)
(*                                                                         *)
(* Time passes in ticks, Milli to a millisecond, from startedAt = 0.  What *)
(* is due is done at most MaxLate ticks late.  The signal of an attempt    *)
(* aborts its fetch and the reading of its body.  What is checked before   *)
(* the first attempt has passed, and hooks are the built-in ones.          *)
(***************************************************************************)
EXTENDS Naturals

CONSTANTS
  Milli,                 \* ticks in a millisecond
  Timeout,               \* timeoutMs, in ticks
  AttemptTimeout,        \* attemptTimeoutMs, in ticks
  MaxRetries,
  BaseDelay, MaxDelay,   \* of the backoff, in milliseconds
  RetryAfters,           \* delays that an upstream asks for, in milliseconds
  NoHeader,              \* no Retry-After, or none that can be parsed
  MaxLate

ASSUME Numbers ==
  /\ Milli \in Nat \ {0} /\ Timeout \in Nat \ {0} /\ AttemptTimeout \in Nat \ {0}
  /\ MaxRetries \in Nat /\ BaseDelay \in Nat /\ MaxDelay \in Nat /\ MaxLate \in Nat
ASSUME Headers == RetryAfters \subseteq Nat /\ NoHeader \notin Nat

VARIABLES
  request,
  clock,
  pc,
  attempt,
  dueAt,      \* the retry that is waited for, or the attempt's signal
  body,       \* the body of the last response
  answer,
  accepted,   \* history: the attempt that a 2xx response answered, or 0
  notBefore   \* history: the instant that the last Retry-After asked for

vars == <<request, clock, pc, attempt, dueAt, body, answer, accepted, notBefore>>

\* "GET" stands for OPTIONS too, "POST" for the methods that are not retried.
Request == [method : {"GET", "HEAD", "POST"},
            retry : {"default", "never", "idempotent"}]

Answers == {"none", "ok", "UPSTREAM_TIMEOUT", "UPSTREAM_REQUEST_FAILED",
            "UPSTREAM_RESPONSE_INVALID"}

\* Every variable has its type.
TypeOK ==
  /\ request \in Request
  /\ clock \in Nat
  /\ pc \in {"waiting", "fetching", "reading", "done"}
  /\ attempt \in 0 .. MaxRetries + 1
  /\ dueAt \in Nat
  /\ body \in {"none", "open", "closed"}
  /\ answer \in Answers
  /\ accepted \in 0 .. attempt
  /\ notBefore \in Nat

Init ==
  /\ request \in Request
  /\ clock = 0 /\ pc = "waiting" /\ attempt = 0 /\ dueAt = 0
  /\ body = "none" /\ answer = "none"
  /\ accepted = 0 /\ notBefore = 0

-----------------------------------------------------------------------------
(***************************************************************************)
(* DefaultRetryPolicy.                                                     *)
(***************************************************************************)
CanRetryMethod ==
  /\ request.retry # "never"
  /\ request.retry = "idempotent" \/ request.method \in {"GET", "HEAD"}

\* Math.floor(cap * jitter) for any jitter.
Backoff == {d \in 0 .. MaxDelay : d <= BaseDelay * 2 ^ (attempt - 1)}

\* Mutant: Retry-After is clipped to the cap of the backoff.
NextDelayClipped(failure, retryAfter) ==
  IF attempt > MaxRetries \/ ~CanRetryMethod \/ failure = "final" THEN {}
  ELSE IF failure = "transient" /\ retryAfter # NoHeader
    THEN {IF retryAfter > MaxDelay THEN MaxDelay ELSE retryAfter}
  ELSE Backoff

\* The delays that nextDelay may return, none for null.  A failure is "network",
\* or a response whose status is "transient" (408, 429, 502-504) or "final".
NextDelay(failure, retryAfter) ==
  IF attempt > MaxRetries \/ ~CanRetryMethod \/ failure = "final" THEN {}
  ELSE IF failure = "transient" /\ retryAfter # NoHeader THEN {retryAfter}
  ELSE Backoff

-----------------------------------------------------------------------------
(***************************************************************************)
(* executeRequest.                                                         *)
(***************************************************************************)
Remaining == IF clock < Timeout THEN Timeout - clock ELSE 0

\* Math.ceil to milliseconds, in ticks.
WholeMillis(t) == Milli * ((t + Milli - 1) \div Milli)

\* Mutant: an attempt may take its time whatever is left.
AttemptBudgetUncapped == WholeMillis(AttemptTimeout)

AttemptBudget ==
  WholeMillis(IF AttemptTimeout < Remaining THEN AttemptTimeout ELSE Remaining)

Answer(code) == pc' = "done" /\ answer' = code /\ UNCHANGED dueAt

Attempt ==
  /\ pc = "waiting" /\ clock >= dueAt
  /\ Remaining > 0
  /\ pc' = "fetching"
  /\ attempt' = attempt + 1
  /\ dueAt' = clock + AttemptBudget
  /\ UNCHANGED <<request, clock, body, answer, accepted, notBefore>>

OutOfTime ==
  /\ pc = "waiting" /\ clock >= dueAt
  /\ Remaining = 0
  /\ Answer("UPSTREAM_TIMEOUT")
  /\ UNCHANGED <<request, clock, attempt, body, accepted, notBefore>>

\* A delay that does not fit into what remains is not waited for.
RetryOrFail(failure, retryAfter, code) ==
  \/ \E d \in NextDelay(failure, retryAfter) :
       /\ d * Milli < Remaining
       /\ pc' = "waiting"
       /\ dueAt' = clock + d * Milli
       /\ UNCHANGED answer
  \/ /\ \/ NextDelay(failure, retryAfter) = {}
        \/ \E d \in NextDelay(failure, retryAfter) : d * Milli >= Remaining
     /\ Answer(code)

FetchRejects ==
  /\ pc = "fetching"
  /\ RetryOrFail("network", NoHeader, "UPSTREAM_REQUEST_FAILED")
  /\ UNCHANGED <<request, clock, attempt, body, accepted, notBefore>>

FetchAborts ==
  /\ pc = "fetching" /\ clock >= dueAt
  /\ RetryOrFail("network", NoHeader, "UPSTREAM_TIMEOUT")
  /\ UNCHANGED <<request, clock, attempt, body, accepted, notBefore>>

\* A response that is not ok: its body is discarded whatever comes next.
Refused(failure, retryAfter) ==
  /\ pc = "fetching"
  /\ RetryOrFail(failure, retryAfter, "UPSTREAM_REQUEST_FAILED")
  /\ body' = "closed"
  /\ notBefore' = IF retryAfter = NoHeader THEN 0 ELSE clock + retryAfter * Milli
  /\ UNCHANGED <<request, clock, attempt, accepted>>

\* A 2xx response: one to HEAD, or 204 or 205, is parsed without a body, one of
\* another media type is discarded unread.
Accepted ==
  /\ pc = "fetching"
  /\ accepted' = attempt
  /\ \/ body' = "none" /\ \E code \in {"ok", "UPSTREAM_RESPONSE_INVALID"} : Answer(code)
     \/ /\ request.method # "HEAD"
        /\ body' = "closed" /\ Answer("UPSTREAM_RESPONSE_INVALID")
     \/ /\ request.method # "HEAD"
        /\ body' = "open" /\ pc' = "reading" /\ UNCHANGED <<answer, dueAt>>
  /\ UNCHANGED <<request, clock, attempt, notBefore>>

\* The body ended, broke off or grew too large; it is JSON of the schema or not.
ReadEnds ==
  /\ pc = "reading"
  /\ body' = "closed"
  /\ \E code \in {"ok", "UPSTREAM_RESPONSE_INVALID"} : Answer(code)
  /\ UNCHANGED <<request, clock, attempt, accepted, notBefore>>

\* Mutant: a timeout is retried wherever it strikes.
ReadAbortsRetried ==
  /\ pc = "reading" /\ clock >= dueAt
  /\ body' = "closed"
  /\ RetryOrFail("network", NoHeader, "UPSTREAM_TIMEOUT")
  /\ UNCHANGED <<request, clock, attempt, accepted, notBefore>>

\* Mutant: the timer is cleared once the headers are there.
ReadAbortsCleared == FALSE /\ UNCHANGED vars

\* The TimeoutError of reader.read() is no AppError, so it is taken for bad JSON.
ReadAborts ==
  /\ pc = "reading" /\ clock >= dueAt
  /\ body' = "closed"
  /\ Answer("UPSTREAM_RESPONSE_INVALID")
  /\ UNCHANGED <<request, clock, attempt, accepted, notBefore>>

Tick ==
  /\ pc # "done" /\ clock < dueAt + MaxLate
  /\ clock' = clock + 1
  /\ UNCHANGED <<request, pc, attempt, dueAt, body, answer, accepted, notBefore>>

Next ==
  \/ Attempt \/ OutOfTime
  \/ FetchRejects \/ FetchAborts
  \/ \E failure \in {"transient", "final"}, retryAfter \in RetryAfters \cup {NoHeader} :
       Refused(failure, retryAfter)
  \/ Accepted \/ ReadEnds \/ ReadAborts
  \/ Tick

Spec == Init /\ [][Next]_vars

\* Timers fire and callbacks run; the upstream owes nothing.
FairSpec ==
  /\ Spec
  /\ WF_vars(Attempt) /\ WF_vars(OutOfTime)
  /\ WF_vars(FetchAborts) /\ WF_vars(ReadAborts)
  /\ WF_vars(Tick)

-----------------------------------------------------------------------------
(***************************************************************************)
(* However the upstream behaves and however often it is tried, the caller  *)
(* has its answer by the total deadline, to the millisecond that an        *)
(* attempt is rounded up by and to the lateness of timers: attempts,       *)
(* delays and the reading of the body together.                            *)
(* fetch-http-client.ts:439-457, core/http/http-client.ts:17.              *)
(***************************************************************************)
DeadlineKept == pc # "done" => clock < Timeout + Milli + MaxLate

\* A request that may not be replayed is sent once at most, whatever fails:
\* fetch-http-client.ts:477-511, 570-595, retry-policy.ts:270-331.
NotReplayed ==
  request.retry = "never" \/ (request.method = "POST" /\ request.retry = "default")
    => attempt <= 1

\* After a 2xx response nothing is sent, whatever becomes of its body: a success
\* that cannot be read is not replayed.  fetch-http-client.ts:523-546.
SuccessFinal == accepted # 0 => attempt = accepted

\* What is sent again is safe to send again: neither a request that may not be
\* replayed nor one that has succeeded, in any sequence of failures.
SentAgainSafely == NotReplayed /\ SuccessFinal

\* A response body is open only while it is read: each is read to its end,
\* cancelled or broken off before the next attempt, a wait or the answer.
\* fetch-http-client.ts:491-513, 1106-1201.
BodiesReleased == body = "open" => pc = "reading"

\* No attempt comes earlier than the upstream asked for, although the delay may
\* exceed the cap of the backoff: retry-policy.ts:287-292.
RetryAfterKept == [][attempt' # attempt => clock >= notBefore]_vars

\* The caller is answered even if the upstream never says a word, or stalls in
\* the middle of a body: fetch-http-client.ts:459-466, 535-546, 570-610.
Answered == <>(pc = "done")
=============================================================================
