---------------------------- MODULE DatabaseTime ----------------------------
(***************************************************************************)
(* Timestamps of the database as JavaScript sees them, and the delays in   *)
(* whole seconds that the rate limiters derive from two of them.           *)
(*                                                                         *)
(* Time is counted in ticks, of which a millisecond has several: a Date    *)
(* loses what is below a millisecond.                                      *)
(***************************************************************************)
EXTENDS Integers

CONSTANTS Milli, Second    \* ticks of a millisecond and of a second

ASSUME Units ==
  Milli \in Nat \ {0} /\ Second \in Nat \ {0} /\ Second % Milli = 0

Later(a, b) == IF a < b THEN b ELSE a

\* expiresAt.getTime() - databaseTimestampMs(observedAt): both are truncated first
Until(t, now) == (t \div Milli - now \div Milli) * Milli

\* Mutant: the quotient is rounded down.
SecondsDown(ticks) == Later(1, ticks \div Second)

\* Math.max(1, Math.ceil(ms / 1_000))
WholeSeconds(ticks) == Later(1, (ticks + Second - 1) \div Second)

\* At "now", the delay that was given at "at" is over, with what truncation loses.
Waited(at, seconds, now) == now >= at + seconds * Second + Milli - 1
=============================================================================
