---------------------------- MODULE ConnectionPool ----------------------------
(***************************************************************************)
(* The connection pool every request shares, and the instrumentation the   *)
(* program puts around it.                                                 *)
(*                                                                         *)
(* The pool itself is node-postgres': a caller is handed an idle           *)
(* connection through a queue, or a new one is opened for it, as long as   *)
(* there are fewer than `size` of them.  A caller that comes while there   *)
(* are idle connections queues like one that comes while there is no room. *)
(* ObservedPostgresPool wraps connect() and release(); it decides before   *)
(* the acquisition whether it is about to create a connection, and records *)
(* create_time after it if that was the guess.                             *)
(***************************************************************************)
EXTENDS Naturals, Sequences, FiniteSets, SequencesExt

CONSTANTS
    Callers,     \* who asks for connections
    PoolSizes    \* the values DATABASE_POOL_MAX may have

ASSUME PoolSizesAssumption == PoolSizes \subseteq Nat \ {0}

VARIABLES
    size,       \* DATABASE_POOL_MAX
    idle,       \* connections nobody holds
    pending,    \* acquisitions waiting for one, first come first served
    opening,    \* acquisitions a connection is being opened for
    abandoned,  \* connections being opened for callers that gave up
    held        \* connections that are out: [caller, creating, source]

poolVars == <<size, idle, pending, opening, abandoned, held>>

\* `creating` is creatingNewConnection, the guess taken at connect().
Acquisition == [caller : Callers, creating : BOOLEAN]

Loan == [caller : Callers, creating : BOOLEAN, source : {"idle", "new"}]

totalCount == idle + abandoned + Cardinality(opening) + Cardinality(held)

HasRoom == totalCount < size

WithPool(c) == \E a \in opening \cup held \cup Range(pending) : a.caller = c

Holds(c) == \E l \in held : l.caller = c

PoolTypeOK ==
    /\ size \in PoolSizes
    /\ idle \in Nat
    /\ pending \in Seq(Acquisition)
    /\ opening \in SUBSET Acquisition
    /\ abandoned \in Nat
    /\ held \in SUBSET Loan

PoolInit ==
    /\ size \in PoolSizes
    /\ idle \in 0 .. size
    /\ pending = <<>>
    /\ opening = {}
    /\ abandoned = 0
    /\ held = {}

\* Mutant: an empty pool is taken for one with room.
CreatingWhenNoneIdle == idle = 0

CreatingNewConnection == idle = 0 /\ HasRoom

Connect(c) ==
    /\ LET a == [caller |-> c, creating |-> CreatingNewConnection]
       IN  IF idle > 0 \/ ~HasRoom
           THEN pending' = Append(pending, a) /\ UNCHANGED opening
           ELSE opening' = opening \cup {a} /\ UNCHANGED pending
    /\ UNCHANGED <<size, idle, abandoned, held>>

\* observeSuccessfulAcquisition: the caller has a connection, and create_time
\* is recorded if the guess was that it is a new one.
Acquired(a, source) ==
    held' = held \cup {[caller |-> a.caller, creating |-> a.creating, source |-> source]}

CreateTimeRecorded(l) == l.creating

\* The head of the queue gets an idle connection, or one is opened for it.
PulseQueue ==
    /\ pending # <<>>
    /\ pending' = Tail(pending)
    /\ \/ /\ idle > 0
          /\ idle' = idle - 1
          /\ Acquired(Head(pending), "idle")
          /\ UNCHANGED opening
       \/ /\ idle = 0 /\ HasRoom
          /\ opening' = opening \cup {Head(pending)}
          /\ UNCHANGED <<idle, held>>
    /\ UNCHANGED <<size, abandoned>>

Opened(c) ==
    \E a \in opening :
        /\ a.caller = c
        /\ opening' = opening \ {a}
        /\ Acquired(a, "new")
        /\ UNCHANGED <<size, idle, pending, abandoned>>

\* The connection cannot be opened; the caller is told.
OpenFails(c) ==
    \E a \in opening :
        /\ a.caller = c
        /\ opening' = opening \ {a}
        /\ UNCHANGED <<size, idle, pending, abandoned, held>>

\* connectionTimeoutMillis: a caller that queued gives up, in the queue or
\* after it; the connection it was waiting for is still being opened.
GivesUp(c) ==
    \/ \E i \in DOMAIN pending :
           /\ pending[i].caller = c
           /\ pending' = RemoveAt(pending, i)
           /\ UNCHANGED <<opening, abandoned>>
    \/ \E a \in opening :
           /\ a.caller = c /\ ~a.creating
           /\ opening' = opening \ {a}
           /\ abandoned' = abandoned + 1
           /\ UNCHANGED pending

AcquireTimesOut(c) == GivesUp(c) /\ UNCHANGED <<size, idle, held>>

\* A connection nobody waits for any more joins the idle ones, or fails.
AbandonedOpened ==
    /\ abandoned > 0
    /\ abandoned' = abandoned - 1
    /\ idle' \in {idle, idle + 1}
    /\ UNCHANGED <<size, pending, opening, held>>

\* release(): a broken connection leaves the pool.
Release(c, broken) ==
    \E l \in held :
        /\ l.caller = c
        /\ held' = held \ {l}
        /\ idle' = IF broken THEN idle ELSE idle + 1
        /\ UNCHANGED <<size, pending, opening, abandoned>>

\* An idle connection times out or is cut off.
IdleLost ==
    /\ idle > 0
    /\ idle' = idle - 1
    /\ UNCHANGED <<size, pending, opening, abandoned, held>>

(***************************************************************************)
(* The gauges DatabasePoolObserver reports at any moment.                  *)
(***************************************************************************)
Gauges == [idle    |-> idle,
           used    |-> IF totalCount > idle THEN totalCount - idle ELSE 0,
           pending |-> Len(pending),
           max     |-> size]

===============================================================================
