------------------------ MODULE DatabaseHealthCheck ------------------------
(***************************************************************************)
(* A readiness probe: ReadinessChecker.check runs the lifecycle gate and   *)
(* DatabaseHealthCheck.check side by side and is "ready" if both are up.   *)
(* Concurrent probes share one "select 1", each with a timer of its own.   *)
(*                                                                         *)
(* The promises of one event settle before the next event: a query that    *)
(* settles forgets itself and answers every probe still waiting for it in  *)
(* one step.  The actions are composed with the server's by                *)
(* GracefulShutdown, which says when the pool is open.                     *)
(***************************************************************************)
EXTENDS Naturals, Sequences

CONSTANT Probes    \* calls of ReadinessChecker.check, each made once

VARIABLES
  ready,      \* ReadinessGate.ready
  inFlight,   \* DatabaseHealthCheck.inFlight: a query's position, 0 for none
  queries,    \* the "select 1" of every startCheck, in order
  probe       \* what each probe knows of its two checks

healthVars == <<ready, inFlight, queries, probe>>

\* "refused": the pool had ended and the query is about to reject.
QueryStates == {"sent", "refused", "ok", "failed"}

Probe == [lifecycle : {"unknown", "up", "down"}, query : Nat,
          database : {"idle", "waiting", "up", "down"}]

HealthTypeOK ==
  /\ ready \in BOOLEAN
  /\ inFlight \in Nat
  /\ queries \in Seq(QueryStates)
  /\ probe \in [Probes -> Probe]

HealthInit ==
  /\ ready = TRUE
  /\ inFlight = 0
  /\ queries = <<>>
  /\ probe = [p \in Probes |->
                [lifecycle |-> "unknown", query |-> 0, database |-> "idle"]]

Waiting(p) == probe[p].database = "waiting"

\* ReadinessChecker.check answers { status: "ready" }.
Ready(p) == probe[p].lifecycle = "up" /\ probe[p].database = "up"

GateCheck == IF ready THEN "up" ELSE "down"

StartCheck(poolOpen) ==
  /\ queries' = Append(queries, IF poolOpen THEN "sent" ELSE "refused")
  /\ inFlight' = Len(queries) + 1

\* Both checks start in one turn: the gate is read then and never again.
Check(p, poolOpen) ==
  /\ probe[p].database = "idle"
  /\ IF inFlight = 0 THEN StartCheck(poolOpen)
                     ELSE UNCHANGED <<inFlight, queries>>
  /\ probe' = [probe EXCEPT ![p] = [lifecycle |-> GateCheck,
                                    query |-> inFlight',
                                    database |-> "waiting"]]
  /\ UNCHANGED ready

QuerySettles(q, result) ==
  /\ q \in DOMAIN queries
  /\ \/ queries[q] = "sent" /\ result \in {"ok", "failed"}
     \/ queries[q] = "refused" /\ result = "failed"
  /\ queries' = [queries EXCEPT ![q] = result]
  /\ inFlight' = IF inFlight = q THEN 0 ELSE inFlight
  /\ probe' = [p \in Probes |->
                 IF Waiting(p) /\ probe[p].query = q
                   THEN [probe[p] EXCEPT !.database =
                           IF result = "ok" THEN "up" ELSE "down"]
                   ELSE probe[p]]
  /\ UNCHANGED ready

\* Mutant: a caller that gives up forgets the query.
TimesOutClearing(p) ==
  /\ Waiting(p)
  /\ probe' = [probe EXCEPT ![p].database = "down"]
  /\ inFlight' = 0
  /\ UNCHANGED <<ready, queries>>

\* Mutant: one timer serves all the callers of a query, the first clears it.
TimesOutOnce(p) ==
  /\ Waiting(p)
  /\ \A o \in Probes :
       probe[o].query = probe[p].query => probe[o].database # "down"
  /\ probe' = [probe EXCEPT ![p].database = "down"]
  /\ UNCHANGED <<ready, inFlight, queries>>

\* A caller gives up; the query stays in flight for the callers to come.
TimesOut(p) ==
  /\ Waiting(p)
  /\ probe' = [probe EXCEPT ![p].database = "down"]
  /\ UNCHANGED <<ready, inFlight, queries>>

MarkNotReady ==
  /\ ready' = FALSE
  /\ UNCHANGED <<inFlight, queries, probe>>

(***************************************************************************)
(* However many probes come while the database is slow, one "select 1" is  *)
(* unsettled at most, and it is the one that the next probe joins: nobody  *)
(* is answered by a query that had settled before it asked.                *)
(* database-health-check.ts:52-85.                                         *)
(***************************************************************************)
OneLiveQuery ==
  {q \in DOMAIN queries : queries[q] \in {"sent", "refused"}} = {inFlight} \ {0}
=============================================================================
