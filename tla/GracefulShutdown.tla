-------------------------- MODULE GracefulShutdown --------------------------
(***************************************************************************)
(* The process from its first signal to its exit code: the signal handlers *)
(* of server.ts, GracefulShutdownCoordinator, ApplicationLifecycle and the *)
(* readiness probes, with the Bun server and the pg pool as they use them. *)
(*                                                                         *)
(* JavaScript runs one callback at a time: an action is a callback and all *)
(* it calls before its next await.  A zero drain delay is a sleep that     *)
(* ends at once.  Whether stop() works, and when a request needs the pool, *)
(* is left open.                                                           *)
(***************************************************************************)
EXTENDS DatabaseHealthCheck

CONSTANTS
  Signals,      \* deliveries of SIGINT or SIGTERM
  NoSignal,
  Requests,     \* requests for the users API
  Resources,    \* how many resources are registered
  Database      \* the position of the pool among them

ASSUME NoSuchSignal == NoSignal \notin Signals
ASSUME Registration == Resources \in Nat /\ Database \in 1 .. Resources

VARIABLES
  shutdownPromise,  \* the signal whose run of performShutdown is shared
  awaits,           \* the run that the handler of a signal awaits
  run,              \* performShutdown, by the signal that started it
  resource,         \* the lifecycle's resources in registration order
  sweep,            \* the one being closed; Resources + 1 before close()
  exit,             \* the exit code: "0" set on the process, "1" exited with
  server,           \* the Bun server
  request,
  early             \* history: the probes that came before a signal

shutdownVars == <<shutdownPromise, awaits, run>>
closeVars == <<resource, sweep>>
serverVars == <<server, request>>
vars == <<shutdownVars, closeVars, exit, serverVars, early, healthVars>>

Run == [pc : {"none", "draining", "stopping", "forcing", "reforcing", "closing",
              "resolved", "rejected"},
        late : BOOLEAN,      \* the deadline of stop(false) passed
        failed : BOOLEAN]    \* a call of stop threw or rejected

\* "querying" holds a client of the pool; "failed" was refused one.
Request == [pc : {"idle", "running", "querying", "answered", "failed"},
            cut : BOOLEAN]

\* Every variable has its type.
TypeOK ==
  /\ HealthTypeOK
  /\ shutdownPromise \in Signals \cup {NoSignal}
  /\ awaits \in [Signals -> Signals \cup {NoSignal}]
  /\ run \in [Signals -> Run]
  /\ resource \in [1 .. Resources -> {"open", "closing", "closed", "failed"}]
  /\ sweep \in 0 .. Resources + 1
  /\ exit \in {"no", "0", "1"}
  /\ server \in {"accepting", "stopping", "stopped"}
  /\ request \in [Requests -> Request]
  /\ early \subseteq Probes

Init ==
  /\ HealthInit
  /\ shutdownPromise = NoSignal
  /\ awaits = [s \in Signals |-> NoSignal]
  /\ run = [s \in Signals |-> [pc |-> "none", late |-> FALSE, failed |-> FALSE]]
  /\ resource = [r \in 1 .. Resources |-> "open"]
  /\ sweep = Resources + 1
  /\ exit = "no"
  /\ server = "accepting"
  /\ request = [h \in Requests |-> [pc |-> "idle", cut |-> FALSE]]
  /\ early = {}

(***************************************************************************)
(* Traffic.                                                                *)
(***************************************************************************)
PoolOpen == resource[Database] = "open"

ClientsHeld ==
  \/ \E h \in Requests : request[h].pc = "querying"
  \/ \E q \in DOMAIN queries : queries[q] = "sent"

Active(h) == request[h].pc \in {"running", "querying"}

NoneActive ==
  /\ \A h \in Requests : ~Active(h)
  /\ \A p \in Probes : ~Waiting(p)

ReceiveProbe(p) ==
  /\ server = "accepting"
  /\ Check(p, PoolOpen)
  /\ early' = IF shutdownPromise = NoSignal THEN early \cup {p} ELSE early
  /\ UNCHANGED <<shutdownVars, closeVars, exit, serverVars>>

ProbeProceeds ==
  /\ \/ \E q \in DOMAIN queries, result \in {"ok", "failed"} :
          QuerySettles(q, result)
     \/ \E p \in Probes : TimesOut(p)
  /\ UNCHANGED <<shutdownVars, closeVars, exit, serverVars, early>>

RequestAt(h, from, to) ==
  /\ request[h].pc = from
  /\ request' = [request EXCEPT ![h].pc = to]
  /\ UNCHANGED <<shutdownVars, closeVars, exit, server, early, healthVars>>

ReceiveRequest(h) == server = "accepting" /\ RequestAt(h, "idle", "running")

\* Pool.connect rejects once Pool.end has been called.
UseClient(h) == RequestAt(h, "running", IF PoolOpen THEN "querying" ELSE "failed")

ReleaseClient(h) == RequestAt(h, "querying", "running")

Respond(h) == RequestAt(h, "running", "answered")

Traffic ==
  \/ \E p \in Probes : ReceiveProbe(p)
  \/ ProbeProceeds
  \/ \E h \in Requests :
       ReceiveRequest(h) \/ UseClient(h) \/ ReleaseClient(h) \/ Respond(h)

(***************************************************************************)
(* performShutdown and what it calls.                                      *)
(***************************************************************************)
StopAccepting ==
  /\ server' = IF server = "accepting" THEN "stopping" ELSE server
  /\ UNCHANGED request

CutConnections ==
  /\ server' = "stopped"
  /\ request' = [h \in Requests |->
                   [request[h] EXCEPT !.cut = @ \/ Active(h)]]

\* A call that is going to fail may have done nothing.
StopServer(closeActiveConnections) ==
  \/ IF closeActiveConnections THEN CutConnections ELSE StopAccepting
  \/ UNCHANGED serverVars

\* Mutant: the resources are closed side by side.
CloseLifecycleAtOnce ==
  IF sweep = Resources + 1
    THEN /\ sweep' = Resources
         /\ resource' = [r \in 1 .. Resources |-> "closing"]
    ELSE UNCHANGED closeVars

\* ApplicationLifecycle.close: the first call closes the last resource first.
CloseLifecycle ==
  IF sweep = Resources + 1
    THEN /\ sweep' = Resources
         /\ resource' = [resource EXCEPT ![Resources] = "closing"]
    ELSE UNCHANGED closeVars

\* Mutant: traffic drains without the gate.
BeginDrainReady(s) ==
  /\ shutdownPromise' = s
  /\ awaits' = [awaits EXCEPT ![s] = s]
  /\ run' = [run EXCEPT ![s].pc = "draining"]
  /\ UNCHANGED healthVars

BeginDrain(s) ==
  /\ shutdownPromise' = s
  /\ awaits' = [awaits EXCEPT ![s] = s]
  /\ run' = [run EXCEPT ![s].pc = "draining"]
  /\ MarkNotReady

\* Mutant: every signal starts a run of its own.
ReceiveSignalEach(s) ==
  /\ awaits[s] = NoSignal
  /\ BeginDrain(s)
  /\ UNCHANGED <<closeVars, exit, serverVars, early>>

\* handleSignal: shutdown() starts performShutdown once.
ReceiveSignal(s) ==
  /\ awaits[s] = NoSignal
  /\ \/ shutdownPromise = NoSignal /\ BeginDrain(s)
     \/ /\ shutdownPromise # NoSignal
        /\ awaits' = [awaits EXCEPT ![s] = shutdownPromise]
        /\ UNCHANGED <<shutdownPromise, run, healthVars>>
  /\ UNCHANGED <<closeVars, exit, serverVars, early>>

Proceeds(s, from, to) ==
  /\ run[s].pc = from
  /\ run' = [run EXCEPT ![s].pc = to]
  /\ UNCHANGED <<shutdownPromise, awaits, exit, early, healthVars>>

FailsAt(s, from, to) ==
  /\ run[s].pc = from
  /\ run' = [run EXCEPT ![s].pc = to, ![s].failed = TRUE]
  /\ UNCHANGED <<shutdownPromise, awaits, exit, early, healthVars>>

EndDrain(s) ==
  /\ Proceeds(s, "draining", "stopping")
  /\ StopServer(FALSE)
  /\ UNCHANGED closeVars

\* Mutant: stop(false) is called and not awaited.
StopSettlesUnawaited(s) ==
  /\ Proceeds(s, "stopping", "closing")
  /\ server # "accepting"
  /\ CloseLifecycle
  /\ UNCHANGED serverVars

StopSettles(s) ==
  /\ Proceeds(s, "stopping", "closing")
  /\ server # "accepting" /\ NoneActive
  /\ CloseLifecycle
  /\ UNCHANGED serverVars

StopRejects(s) ==
  /\ FailsAt(s, "stopping", "reforcing")
  /\ StopServer(TRUE)
  /\ UNCHANGED closeVars

\* Mutant: no timer bounds stop(false).
StopDeadlineNever(s) == FALSE /\ UNCHANGED vars

StopDeadline(s) ==
  /\ run[s].pc = "stopping"
  /\ run' = [run EXCEPT ![s].pc = "forcing", ![s].late = TRUE]
  /\ StopServer(TRUE)
  /\ UNCHANGED <<shutdownPromise, awaits, closeVars, exit, early, healthVars>>

ForceSettles(s) ==
  /\ \E from \in {"forcing", "reforcing"} : Proceeds(s, from, "closing")
  /\ server = "stopped"
  /\ CloseLifecycle
  /\ UNCHANGED serverVars

\* The catch clause of the deadline's stop(true) is the one of stop(false):
\* it tries once more, and then goes on to close the resources.
ForceRejects(s) ==
  \/ /\ FailsAt(s, "forcing", "reforcing")
     /\ StopServer(TRUE)
     /\ UNCHANGED closeVars
  \/ /\ FailsAt(s, "reforcing", "closing")
     /\ CloseLifecycle
     /\ UNCHANGED serverVars

\* closeResources goes on whatever the outcome.  Pool.end waits for the
\* clients that are checked out.
ResourceSettles(result) ==
  /\ sweep \in 1 .. Resources
  /\ sweep = Database => ~ClientsHeld
  /\ sweep' = sweep - 1
  /\ resource' = [r \in 1 .. Resources |->
                    IF r = sweep THEN result
                    ELSE IF r = sweep - 1 THEN "closing" ELSE resource[r]]
  /\ UNCHANGED <<shutdownVars, exit, serverVars, early, healthVars>>

Outcome(s) ==
  IF run[s].failed \/ \E r \in 1 .. Resources : resource[r] = "failed"
    THEN "rejected" ELSE "resolved"

EndShutdown(s) ==
  /\ Proceeds(s, "closing", Outcome(s))
  /\ sweep = 0
  /\ UNCHANGED <<closeVars, serverVars>>

\* handleSignal's then and catch: process.exitCode = 0, or process.exit(1).
SetExit(s) ==
  /\ awaits[s] # NoSignal
  /\ \/ run[awaits[s]].pc = "resolved" /\ exit' = "0"
     \/ run[awaits[s]].pc = "rejected" /\ exit' = "1"
  /\ UNCHANGED <<shutdownVars, closeVars, serverVars, early, healthVars>>

Shutdown ==
  \/ \E s \in Signals :
       \/ ReceiveSignal(s) \/ EndDrain(s)
       \/ StopSettles(s) \/ StopRejects(s) \/ StopDeadline(s)
       \/ ForceSettles(s) \/ ForceRejects(s)
       \/ EndShutdown(s) \/ SetExit(s)
  \/ \E result \in {"closed", "failed"} : ResourceSettles(result)

Next == exit # "1" /\ (Traffic \/ Shutdown)

Spec == Init /\ [][Next]_vars

(***************************************************************************)
(* The timers fire, stop(true) and the resources settle one way or the     *)
(* other, and a callback that is due is run.  Nothing obliges a request to *)
(* end, a query to settle or stop(false) to do either.                     *)
(***************************************************************************)
Settling(s) ==
  \/ EndDrain(s) \/ StopDeadline(s) \/ ForceSettles(s) \/ ForceRejects(s)
  \/ EndShutdown(s)

Fairness ==
  /\ \A s \in Signals : WF_vars(exit # "1" /\ Settling(s))
  /\ \A s \in Signals : WF_vars(exit # "1" /\ SetExit(s))
  /\ WF_vars(exit # "1" /\ \E result \in {"closed", "failed"} : ResourceSettles(result))
  /\ \A p \in Probes :
       WF_vars(/\ exit # "1" /\ TimesOut(p)
               /\ UNCHANGED <<shutdownVars, closeVars, exit, serverVars, early>>)

FairSpec == Spec /\ Fairness

(***************************************************************************)
(* A request that the server had accepted is neither cut off, nor refused  *)
(* a client by a pool that has ended, nor killed by process.exit, unless   *)
(* it outlived the deadline or the server could not be stopped:            *)
(* graceful-shutdown.ts:197-219, docs/architecture.md:249-254.             *)
(***************************************************************************)
Harmed(h) ==
  \/ request[h].cut \/ request[h].pc = "failed"
  \/ Active(h) /\ exit = "1"

RequestsSpared ==
  (\E h \in Requests : Harmed(h)) => \E s \in Signals : run[s].late \/ run[s].failed

(***************************************************************************)
(* Whatever fails and however many signals come, a resource is closed only *)
(* when all that were registered after it have settled, so that the end of *)
(* the pool is still exported: application-lifecycle.ts:37-55,             *)
(* docs/architecture.md:258.                                               *)
(***************************************************************************)
ClosedInReverse ==
  \A r \in 1 .. Resources :
    resource[r] # "open" =>
      \A later \in r + 1 .. Resources : resource[later] \in {"closed", "failed"}

(***************************************************************************)
(* The exit code tells how the shutdown ended, the whole of it: 0 with all *)
(* resources closed, no call of stop failed and no run still under way; 1  *)
(* only if something failed, and after the last resource has settled.      *)
(* server.ts:35-45, graceful-shutdown.ts:161-226.                          *)
(***************************************************************************)
AnyFailure ==
  \/ \E s \in Signals : run[s].failed
  \/ \E r \in 1 .. Resources : resource[r] = "failed"

ExitHonest ==
  exit # "no" =>
    /\ exit = "0" <=> ~AnyFailure
    /\ \A r \in 1 .. Resources : resource[r] \in {"closed", "failed"}
    /\ \A s \in Signals : run[s].pc \in {"none", "resolved", "rejected"}

\* A probe that is received after a signal is not answered "ready", so that the
\* load balancer can see the drain while the server still accepts requests:
\* graceful-shutdown.ts:184-192, docs/architecture.md:249-250.
NotReadyOnceSignalled == \A p \in Probes : Ready(p) => p \in early

(***************************************************************************)
(* A signal ends in an exit code, although requests may never end and      *)
(* stop(false) may never settle, provided that the clients of the pool are *)
(* given back in the end: nothing else bounds Pool.end.                    *)
(* graceful-shutdown.ts:197-219.                                           *)
(***************************************************************************)
SignalExits ==
  <>[]~ClientsHeld => \A s \in Signals : awaits[s] # NoSignal ~> exit # "no"

\* A probe is answered although its query may hang, while the process is up:
\* database-health-check.ts:52-71.
ProbeAnswered == \A p \in Probes : Waiting(p) ~> ~Waiting(p) \/ exit = "1"
=============================================================================
