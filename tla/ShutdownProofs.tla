--------------------------- MODULE ShutdownProofs ---------------------------
(***************************************************************************)
(* What holds of GracefulShutdown for any signals, requests and probes and *)
(* any number of registered resources.                                     *)
(***************************************************************************)
EXTENDS GracefulShutdown, SequenceTheorems, TLAPS

\* performShutdown runs once, every handler awaits that run, and a run that did
\* not start has nothing to report.
Memoised ==
  \A s \in Signals :
    /\ run[s].pc # "none" => s = shutdownPromise
    /\ run[s].pc = "none" => ~run[s].failed /\ ~run[s].late
    /\ awaits[s] \in {NoSignal, shutdownPromise}

\* closeResources has settled what is behind it and not begun what is ahead.
Swept ==
  \A r \in 1 .. Resources :
    /\ r < sweep => resource[r] = "open"
    /\ r = sweep => resource[r] = "closing"
    /\ r > sweep => resource[r] \in {"closed", "failed"}

Closing(s) == run[s].pc \in {"closing", "resolved", "rejected"}

\* Resources are closed by a run that has come to it, and only then.
Entered == (sweep # Resources + 1) <=> \E s \in Signals : Closing(s)

\* A run that is over has swept everything and tells whether something failed.
Concluded ==
  \A s \in Signals :
    /\ run[s].pc \in {"resolved", "rejected"} => sweep = 0
    /\ run[s].pc = "resolved" => ~AnyFailure
    /\ run[s].pc = "rejected" => AnyFailure

\* The exit code is the outcome of a run.
Reported ==
  /\ exit = "0" => \E s \in Signals : run[s].pc = "resolved"
  /\ exit = "1" => \E s \in Signals : run[s].pc = "rejected"

\* The deadline passed or a call of stop failed.
Excused == \E s \in Signals : run[s].late \/ run[s].failed

\* Without an excuse, resources are closed under a server that refuses requests
\* and has none; with one only are connections cut and clients refused.
Quiet ==
  /\ ~Excused /\ (\E s \in Signals : Closing(s)) =>
       server # "accepting" /\ \A h \in Requests : ~Active(h)
  /\ server = "stopped" => Excused
  /\ \A h \in Requests : request[h].cut \/ request[h].pc = "failed" => Excused

\* The gate is open until the first signal.
GateShut ==
  /\ ready => shutdownPromise = NoSignal
  /\ \A p \in Probes : probe[p].lifecycle = "up" => p \in early

IInv == /\ TypeOK
        /\ Memoised /\ Swept /\ Entered /\ Concluded /\ Reported /\ Quiet
        /\ GateShut /\ OneLiveQuery

-----------------------------------------------------------------------------
LEMMA InitInvariant == Init => IInv
<1> SUFFICES ASSUME Init PROVE IInv
  OBVIOUS
<1> USE NoSuchSignal, Registration DEF Init, HealthInit
<1>1. TypeOK
  BY DEF TypeOK, HealthTypeOK, QueryStates, Probe, Run, Request
<1>2. Memoised /\ Swept
  BY DEF Memoised, Swept
<1>3. Entered /\ Concluded /\ Reported
  BY DEF Entered, Closing, Concluded, Reported
<1>4. Quiet
  BY DEF Quiet, Closing, Active
<1>5. GateShut /\ OneLiveQuery
  BY DEF GateShut, OneLiveQuery
<1> QED BY <1>1, <1>2, <1>3, <1>4, <1>5 DEF IInv

-----------------------------------------------------------------------------
(***************************************************************************)
(* What a step leaves alone.                                               *)
(***************************************************************************)
LEMMA TrafficFrame == Traffic => UNCHANGED <<shutdownVars, closeVars, exit>>
BY DEF Traffic, ReceiveProbe, ProbeProceeds, ReceiveRequest, UseClient,
  ReleaseClient, Respond, RequestAt

\* A step of the shutdown leaves the queries, the probes and the history alone.
LEMMA ShutdownFrame ==
  Shutdown => /\ UNCHANGED <<inFlight, queries, probe, early>>
              /\ \/ UNCHANGED <<ready, shutdownPromise>>
                 \/ \E s \in Signals : ready' = FALSE /\ shutdownPromise' = s
BY DEF Shutdown, ReceiveSignal, BeginDrain, MarkNotReady, EndDrain, Proceeds,
  FailsAt, StopSettles, StopRejects, StopDeadline, ForceSettles, ForceRejects,
  EndShutdown, SetExit, ResourceSettles, healthVars, shutdownVars

-----------------------------------------------------------------------------
LEMMA CheckTypes ==
  ASSUME TypeOK, NEW p \in Probes, NEW open \in BOOLEAN, Check(p, open)
  PROVE  HealthTypeOK'
<1> USE DEF TypeOK, HealthTypeOK
<1>1. ready' \in BOOLEAN
  BY DEF Check
<1>2. inFlight' \in Nat /\ queries' \in Seq(QueryStates)
  <2>1. CASE StartCheck(open)
    <3>1. Len(queries) \in Nat
      BY LenProperties
    <3>2. \A state \in QueryStates : Append(queries, state) \in Seq(QueryStates)
      BY AppendProperties
    <3> QED BY <2>1, <3>1, <3>2 DEF StartCheck, QueryStates
  <2>2. CASE UNCHANGED <<inFlight, queries>>
    BY <2>2
  <2> QED BY <2>1, <2>2 DEF Check
<1>3. GateCheck \in {"up", "down"}
  BY DEF GateCheck
<1>4. probe' \in [Probes -> Probe]
  BY <1>2, <1>3 DEF Check, Probe
<1> QED BY <1>1, <1>2, <1>4

LEMMA QueryTypes ==
  ASSUME TypeOK, NEW q \in DOMAIN queries, NEW result, QuerySettles(q, result)
  PROVE  /\ HealthTypeOK'
         /\ DOMAIN queries' = DOMAIN queries
         /\ \A o \in DOMAIN queries :
              queries'[o] = IF o = q THEN result ELSE queries[o]
<1> USE DEF TypeOK, HealthTypeOK
<1>1. result \in QueryStates
  BY DEF QuerySettles, QueryStates
<1>2. q \in 1 .. Len(queries) /\ DOMAIN queries = 1 .. Len(queries)
  BY LenProperties
<1>3. /\ queries' \in Seq(QueryStates)
      /\ Len(queries') = Len(queries)
      /\ \A o \in 1 .. Len(queries) :
           queries'[o] = IF o = q THEN result ELSE queries[o]
  BY <1>1, <1>2, ExceptSeq DEF QuerySettles
<1>4. inFlight' \in Nat /\ ready' \in BOOLEAN
  BY DEF QuerySettles
<1>5. probe' \in [Probes -> Probe]
  BY DEF QuerySettles, Probe
<1> QED BY <1>2, <1>3, <1>4, <1>5, LenProperties

LEMMA TimerTypes ==
  ASSUME TypeOK, NEW p \in Probes, TimesOut(p)
  PROVE  HealthTypeOK'
BY DEF TypeOK, HealthTypeOK, TimesOut, Probe

LEMMA TrafficTypes ==
  ASSUME TypeOK, Traffic
  PROVE  TypeOK'
<1>1. ASSUME NEW p \in Probes, ReceiveProbe(p) PROVE TypeOK'
  <2>1. HealthTypeOK'
    BY <1>1, CheckTypes DEF ReceiveProbe, PoolOpen
  <2>2. early' \subseteq Probes
    BY <1>1 DEF ReceiveProbe, TypeOK
  <2> QED BY <1>1, <2>1, <2>2 DEF ReceiveProbe, TypeOK, shutdownVars, closeVars, serverVars
<1>2. ASSUME ProbeProceeds PROVE TypeOK'
  <2>1. HealthTypeOK'
    BY <1>2, QueryTypes, TimerTypes DEF ProbeProceeds
  <2> QED BY <1>2, <2>1 DEF ProbeProceeds, TypeOK, shutdownVars, closeVars, serverVars
<1>3. ASSUME NEW h \in Requests, NEW from,
             NEW to \in {"running", "querying", "answered", "failed"},
             RequestAt(h, from, to)
      PROVE  TypeOK'
  <2>1. request' \in [Requests -> Request]
    BY <1>3 DEF RequestAt, TypeOK, Request
  <2> QED BY <1>3, <2>1 DEF RequestAt, TypeOK, HealthTypeOK, healthVars,
        shutdownVars, closeVars
<1>4. ASSUME NEW h \in Requests,
             ReceiveRequest(h) \/ UseClient(h) \/ ReleaseClient(h) \/ Respond(h)
      PROVE  TypeOK'
  BY <1>3, <1>4 DEF ReceiveRequest, UseClient, ReleaseClient, Respond
<1> QED BY <1>1, <1>2, <1>4 DEF Traffic

LEMMA CloseTypes ==
  ASSUME TypeOK, CloseLifecycle
  PROVE  /\ sweep' \in 0 .. Resources + 1
         /\ resource' \in [1 .. Resources -> {"open", "closing", "closed", "failed"}]
BY Registration DEF TypeOK, CloseLifecycle, closeVars

LEMMA StopTypes ==
  ASSUME TypeOK, NEW force \in BOOLEAN, StopServer(force)
  PROVE  /\ server' \in {"accepting", "stopping", "stopped"}
         /\ request' \in [Requests -> Request]
<1>1. CASE CutConnections
  BY <1>1 DEF TypeOK, CutConnections, Request
<1>2. CASE StopAccepting
  BY <1>2 DEF TypeOK, StopAccepting
<1>3. CASE UNCHANGED serverVars
  BY <1>3 DEF TypeOK, serverVars
<1> QED BY <1>1, <1>2, <1>3 DEF StopServer

LEMMA ShutdownTypes ==
  ASSUME TypeOK, Shutdown
  PROVE  TypeOK'
<1> USE DEF TypeOK, shutdownVars
<1>1. HealthTypeOK' /\ early' \subseteq Probes
  BY ShutdownFrame DEF HealthTypeOK
<1>2. ASSUME NEW s \in Signals, ReceiveSignal(s) PROVE TypeOK'
  BY <1>1, <1>2 DEF ReceiveSignal, BeginDrain, Run, closeVars, serverVars
<1>3. ASSUME NEW s \in Signals, EndDrain(s) PROVE TypeOK'
  BY <1>1, <1>3, StopTypes DEF EndDrain, Proceeds, Run, closeVars
<1>4. ASSUME NEW s \in Signals, StopSettles(s) PROVE TypeOK'
  BY <1>1, <1>4, CloseTypes DEF StopSettles, Proceeds, Run, serverVars
<1>5. ASSUME NEW s \in Signals, StopRejects(s) PROVE TypeOK'
  BY <1>1, <1>5, StopTypes DEF StopRejects, FailsAt, Run, closeVars
<1>6. ASSUME NEW s \in Signals, StopDeadline(s) PROVE TypeOK'
  BY <1>1, <1>6, StopTypes DEF StopDeadline, Run, closeVars
<1>7. ASSUME NEW s \in Signals, ForceSettles(s) PROVE TypeOK'
  BY <1>1, <1>7, CloseTypes DEF ForceSettles, Proceeds, Run, serverVars
<1>8. ASSUME NEW s \in Signals, ForceRejects(s) PROVE TypeOK'
  <2>1. CASE FailsAt(s, "forcing", "reforcing") /\ StopServer(TRUE) /\ UNCHANGED closeVars
    BY <1>1, <2>1, StopTypes DEF FailsAt, Run, closeVars
  <2>2. CASE FailsAt(s, "reforcing", "closing") /\ CloseLifecycle /\ UNCHANGED serverVars
    BY <1>1, <2>2, CloseTypes DEF FailsAt, Run, serverVars
  <2> QED BY <1>8, <2>1, <2>2 DEF ForceRejects
<1>9. ASSUME NEW s \in Signals, EndShutdown(s) PROVE TypeOK'
  BY <1>1, <1>9 DEF EndShutdown, Proceeds, Outcome, Run, serverVars, closeVars
<1>10. ASSUME NEW s \in Signals, SetExit(s) PROVE TypeOK'
  BY <1>1, <1>10 DEF SetExit, serverVars, closeVars
<1>11. ASSUME NEW result \in {"closed", "failed"}, ResourceSettles(result) PROVE TypeOK'
  BY <1>1, <1>11, Registration DEF ResourceSettles, serverVars
<1> QED
  BY <1>2, <1>3, <1>4, <1>5, <1>6, <1>7, <1>8, <1>9, <1>10, <1>11 DEF Shutdown

LEMMA TypesPreserved ==
  ASSUME TypeOK, [Next]_vars
  PROVE  TypeOK'
<1>1. CASE UNCHANGED vars
  BY <1>1 DEF vars, shutdownVars, closeVars, serverVars, healthVars, TypeOK, HealthTypeOK
<1> QED BY <1>1, TrafficTypes, ShutdownTypes DEF Next

\* The variables have their types, for any signals, requests, probes and resources.
THEOREM ShutdownHasTypes == Spec => []TypeOK
<1>1. Init => TypeOK
  BY InitInvariant DEF IInv
<1>2. TypeOK /\ [Next]_vars => TypeOK'
  BY TypesPreserved
<1> QED BY <1>1, <1>2, PTL DEF Spec

-----------------------------------------------------------------------------
(***************************************************************************)
(* The steps of a run.                                                     *)
(***************************************************************************)
\* The step of the shutdown that the run of s takes.
RunStep(s) ==
  \/ EndDrain(s) \/ StopSettles(s) \/ StopRejects(s) \/ StopDeadline(s)
  \/ ForceSettles(s) \/ ForceRejects(s) \/ EndShutdown(s)

\* What every step of a run has in common: it is under way, only its own record
\* changes, and its failures are not forgotten.
LEMMA RunFrame ==
  ASSUME TypeOK, NEW s \in Signals, RunStep(s)
  PROVE  /\ UNCHANGED <<shutdownPromise, awaits, exit, early, healthVars>>
         /\ run[s].pc \notin {"none", "resolved", "rejected"}
         /\ run' \in [Signals -> Run]
         /\ run'[s].pc \notin {"none", "draining"}
         /\ run[s].late => run'[s].late
         /\ run[s].failed => run'[s].failed
         /\ \A o \in Signals \ {s} : run'[o] = run[o]
<1> USE DEF TypeOK
<1>1. CASE EndDrain(s)
  BY <1>1 DEF EndDrain, Proceeds, Run
<1>2. CASE StopSettles(s)
  BY <1>2 DEF StopSettles, Proceeds, Run
<1>3. CASE StopRejects(s)
  BY <1>3 DEF StopRejects, FailsAt, Run
<1>4. CASE StopDeadline(s)
  BY <1>4 DEF StopDeadline, Run
<1>5. CASE ForceSettles(s)
  BY <1>5 DEF ForceSettles, Proceeds, Run
<1>6. CASE ForceRejects(s)
  <2>1. ASSUME NEW from \in {"forcing", "reforcing"}, NEW to \in {"reforcing", "closing"},
               FailsAt(s, from, to)
        PROVE  /\ UNCHANGED <<shutdownPromise, awaits, exit, early, healthVars>>
               /\ run[s].pc = from
               /\ run' = [run EXCEPT ![s].pc = to, ![s].failed = TRUE]
    BY <2>1 DEF FailsAt
  <2>2. \E from \in {"forcing", "reforcing"}, to \in {"reforcing", "closing"} :
          FailsAt(s, from, to)
    BY <1>6 DEF ForceRejects
  <2> QED BY <2>1, <2>2 DEF Run
<1>7. CASE EndShutdown(s)
  <2>1. Outcome(s) \in {"resolved", "rejected"}
    BY DEF Outcome
  <2> QED BY <1>7, <2>1 DEF EndShutdown, Proceeds, Run
<1> QED BY <1>1, <1>2, <1>3, <1>4, <1>5, <1>6, <1>7 DEF RunStep

\* A run begins to close the resources in one step with closeLifecycle, and is
\* over in a step that changes none of them.
LEMMA RunCloses ==
  ASSUME TypeOK, NEW s \in Signals, RunStep(s)
  PROVE  \/ ~Closing(s) /\ ~Closing(s)' /\ UNCHANGED closeVars
         \/ ~Closing(s) /\ run'[s].pc = "closing" /\ CloseLifecycle
         \/ /\ run[s].pc = "closing" /\ run'[s].pc = Outcome(s) /\ sweep = 0
            /\ run'[s].failed = run[s].failed /\ UNCHANGED closeVars
<1> USE DEF TypeOK, Closing
<1>1. CASE EndDrain(s)
  BY <1>1 DEF EndDrain, Proceeds, Run
<1>2. CASE StopSettles(s)
  BY <1>2 DEF StopSettles, Proceeds, Run
<1>3. CASE StopRejects(s)
  BY <1>3 DEF StopRejects, FailsAt, Run
<1>4. CASE StopDeadline(s)
  BY <1>4 DEF StopDeadline, Run
<1>5. CASE ForceSettles(s)
  BY <1>5 DEF ForceSettles, Proceeds, Run
<1>6. CASE ForceRejects(s)
  BY <1>6 DEF ForceRejects, FailsAt, Run
<1>7. CASE EndShutdown(s)
  BY <1>7 DEF EndShutdown, Proceeds, Run
<1> QED BY <1>1, <1>2, <1>3, <1>4, <1>5, <1>6, <1>7 DEF RunStep

LEMMA SignalFrame ==
  ASSUME TypeOK, NEW s \in Signals, ReceiveSignal(s)
  PROVE  /\ UNCHANGED <<closeVars, exit, serverVars, early, inFlight, queries, probe>>
         /\ \/ UNCHANGED <<shutdownPromise, run, ready>>
               /\ awaits' = [awaits EXCEPT ![s] = shutdownPromise]
            \/ /\ shutdownPromise = NoSignal /\ shutdownPromise' = s
               /\ awaits' = [awaits EXCEPT ![s] = s]
               /\ run' = [run EXCEPT ![s].pc = "draining"]
               /\ ready' = FALSE
BY DEF ReceiveSignal, BeginDrain, MarkNotReady, healthVars

\* A step of Shutdown is one of these.
LEMMA ShutdownCases ==
  ASSUME Shutdown
  PROVE  \/ \E s \in Signals : ReceiveSignal(s) \/ RunStep(s) \/ SetExit(s)
         \/ \E result \in {"closed", "failed"} : ResourceSettles(result)
BY DEF Shutdown, RunStep

-----------------------------------------------------------------------------
LEMMA MemoisedPreserved ==
  ASSUME TypeOK, Memoised, Shutdown
  PROVE  Memoised'
<1> USE NoSuchSignal DEF Memoised, TypeOK
<1>1. ASSUME NEW s \in Signals, ReceiveSignal(s) PROVE Memoised'
  <2>1. CASE UNCHANGED <<shutdownPromise, run>> /\ awaits' = [awaits EXCEPT ![s] = shutdownPromise]
    BY <2>1
  <2>2. CASE /\ shutdownPromise = NoSignal /\ shutdownPromise' = s
             /\ awaits' = [awaits EXCEPT ![s] = s]
             /\ run' = [run EXCEPT ![s].pc = "draining"]
    <3>1. \A o \in Signals : run[o].pc = "none" /\ awaits[o] = NoSignal
      BY <2>2
    <3>2. \A o \in Signals \ {s} : run'[o] = run[o]
      BY <2>2
    <3>3. run'[s].pc = "draining"
      BY <2>2 DEF Run
    <3>4. \A o \in Signals : awaits'[o] \in {NoSignal, s}
      BY <2>2, <3>1
    <3> QED BY <2>2, <3>1, <3>2, <3>3, <3>4
  <2> QED BY <1>1, <2>1, <2>2, SignalFrame
<1>2. ASSUME NEW s \in Signals, RunStep(s) PROVE Memoised'
  BY <1>2, RunFrame
<1>3. ASSUME NEW s \in Signals, SetExit(s) PROVE Memoised'
  BY <1>3 DEF SetExit, shutdownVars
<1>4. ASSUME NEW result, ResourceSettles(result) PROVE Memoised'
  BY <1>4 DEF ResourceSettles, shutdownVars
<1> QED BY <1>1, <1>2, <1>3, <1>4, ShutdownCases

LEMMA CloseSweeps ==
  ASSUME TypeOK, Swept, CloseLifecycle
  PROVE  Swept' /\ sweep' # Resources + 1
BY Registration DEF TypeOK, Swept, CloseLifecycle, closeVars

LEMMA SweptPreserved ==
  ASSUME TypeOK, Swept, Shutdown
  PROVE  Swept'
<1>1. ASSUME UNCHANGED closeVars PROVE Swept'
  BY <1>1 DEF Swept, closeVars
<1>2. ASSUME NEW s \in Signals, RunStep(s) PROVE Swept'
  BY <1>1, <1>2, RunCloses, CloseSweeps DEF closeVars
<1>3. ASSUME NEW result \in {"closed", "failed"}, ResourceSettles(result) PROVE Swept'
  BY <1>3, Registration DEF ResourceSettles, Swept, TypeOK
<1> QED BY <1>1, <1>2, <1>3, ShutdownCases, SignalFrame DEF SetExit

\* A signal starts a run where there was none, and nothing else.
LEMMA SignalStarts ==
  ASSUME TypeOK, Memoised, NEW s \in Signals, ReceiveSignal(s)
  PROVE  \A o \in Signals : \/ run'[o] = run[o]
                           \/ /\ run[o].pc = "none" /\ run'[o].pc = "draining"
                              /\ run'[o].late <=> run[o].late
                              /\ run'[o].failed <=> run[o].failed
<1>1. CASE UNCHANGED run
  BY <1>1
<1>2. CASE shutdownPromise = NoSignal /\ run' = [run EXCEPT ![s].pc = "draining"]
  <2>1. run[s].pc = "none"
    BY <1>2, NoSuchSignal DEF Memoised
  <2> QED BY <1>2, <2>1 DEF TypeOK, Run
<1> QED BY <1>1, <1>2, SignalFrame

LEMMA EnteredPreserved ==
  ASSUME TypeOK, Memoised, Swept, Entered, Shutdown
  PROVE  Entered'
<1>1. ASSUME NEW s \in Signals, ReceiveSignal(s) PROVE Entered'
  <2>1. \A o \in Signals : Closing(o)' <=> Closing(o)
    BY <1>1, SignalStarts DEF Closing
  <2> QED BY <1>1, <2>1, SignalFrame DEF Entered, closeVars
<1>2. ASSUME NEW s \in Signals, RunStep(s) PROVE Entered'
  <2>1. \A o \in Signals \ {s} : Closing(o)' <=> Closing(o)
    BY <1>2, RunFrame DEF Closing
  <2>2. CASE ~Closing(s) /\ ~Closing(s)' /\ UNCHANGED closeVars
    BY <2>1, <2>2 DEF Entered, closeVars
  <2>3. CASE run'[s].pc = "closing" /\ CloseLifecycle
    BY <2>3, CloseSweeps DEF Entered, Closing
  <2>4. CASE run[s].pc = "closing" /\ run'[s].pc = Outcome(s) /\ UNCHANGED closeVars
    BY <2>1, <2>4 DEF Entered, Closing, Outcome, closeVars
  <2> QED BY <1>2, <2>2, <2>3, <2>4, RunCloses
<1>3. ASSUME NEW s \in Signals, SetExit(s) PROVE Entered'
  BY <1>3 DEF SetExit, Entered, Closing, shutdownVars, closeVars
<1>4. ASSUME NEW result, ResourceSettles(result) PROVE Entered'
  BY <1>4, Registration DEF ResourceSettles, Entered, Closing, TypeOK, shutdownVars
<1> QED BY <1>1, <1>2, <1>3, <1>4, ShutdownCases

LEMMA ConcludedPreserved ==
  ASSUME TypeOK, Memoised, Entered, Concluded, Shutdown
  PROVE  Concluded'
<1>1. ASSUME NEW s \in Signals, ReceiveSignal(s) PROVE Concluded'
  <2>1. UNCHANGED <<resource, sweep>>
    BY <1>1, SignalFrame DEF closeVars
  <2>2. \A o \in Signals : run'[o].failed <=> run[o].failed
    BY <1>1, SignalStarts
  <2>3. AnyFailure' <=> AnyFailure
    BY <2>1, <2>2 DEF AnyFailure
  <2>4. \A o \in Signals : run'[o].pc \in {"resolved", "rejected"} => run'[o].pc = run[o].pc
    BY <1>1, SignalStarts
  <2> QED BY <2>1, <2>3, <2>4 DEF Concluded
<1>2. ASSUME NEW s \in Signals, RunStep(s) PROVE Concluded'
  <2>1. \A o \in Signals \ {s} : run'[o] = run[o] /\ run'[o].pc = "none" /\ ~run'[o].failed
    BY <1>2, RunFrame DEF Memoised
  <2>2. CASE run'[s].pc \notin {"resolved", "rejected"}
    BY <2>1, <2>2 DEF Concluded
  <2>3. CASE /\ run'[s].pc = Outcome(s) /\ sweep = 0
             /\ run'[s].failed = run[s].failed /\ UNCHANGED closeVars
    <3>1. AnyFailure' <=> run[s].failed \/ \E r \in 1 .. Resources : resource[r] = "failed"
      BY <2>1, <2>3 DEF AnyFailure, closeVars
    <3> QED BY <2>1, <2>3, <3>1 DEF Concluded, Outcome, closeVars
  <2> QED BY <1>2, <2>2, <2>3, RunCloses DEF Closing
<1>3. ASSUME NEW s \in Signals, SetExit(s) PROVE Concluded'
  BY <1>3 DEF SetExit, Concluded, AnyFailure, shutdownVars, closeVars
<1>4. ASSUME NEW result, ResourceSettles(result) PROVE Concluded'
  <2>1. \A s \in Signals : run'[s].pc \notin {"resolved", "rejected"}
    BY <1>4 DEF ResourceSettles, Concluded, shutdownVars
  <2> QED BY <2>1 DEF Concluded
<1> QED BY <1>1, <1>2, <1>3, <1>4, ShutdownCases

LEMMA ReportedPreserved ==
  ASSUME TypeOK, Memoised, Reported, Shutdown
  PROVE  Reported'
<1>1. ASSUME UNCHANGED exit,
             \A s \in Signals : run[s].pc \in {"resolved", "rejected"} => run'[s] = run[s]
      PROVE  Reported'
  BY <1>1 DEF Reported
<1>2. ASSUME NEW s \in Signals, ReceiveSignal(s) PROVE Reported'
  BY <1>1, <1>2, SignalStarts, SignalFrame
<1>3. ASSUME NEW s \in Signals, RunStep(s) PROVE Reported'
  BY <1>1, <1>3, RunFrame
<1>4. ASSUME NEW s \in Signals, SetExit(s) PROVE Reported'
  <2>1. awaits[s] \in Signals
    BY <1>4 DEF SetExit, TypeOK
  <2> QED BY <1>4, <2>1 DEF SetExit, Reported, shutdownVars
<1>5. ASSUME NEW result, ResourceSettles(result) PROVE Reported'
  BY <1>1, <1>5 DEF ResourceSettles, shutdownVars
<1> QED BY <1>2, <1>3, <1>4, <1>5, ShutdownCases

\* What the lifecycle knows is not changed by traffic.
LEMMA TrafficKeeps ==
  ASSUME Traffic, Memoised, Swept, Entered, Concluded, Reported
  PROVE  Memoised' /\ Swept' /\ Entered' /\ Concluded' /\ Reported'
<1>1. UNCHANGED <<shutdownPromise, awaits, run, resource, sweep, exit>>
  BY TrafficFrame DEF shutdownVars, closeVars
<1> QED BY <1>1 DEF Memoised, Swept, Entered, Closing, Concluded, AnyFailure, Reported

-----------------------------------------------------------------------------
\* An excuse is never withdrawn.
LEMMA ExcuseStays ==
  ASSUME TypeOK, Memoised, Traffic \/ Shutdown, Excused
  PROVE  Excused'
<1>1. PICK e \in Signals : run[e].late \/ run[e].failed
  BY DEF Excused
<1>2. SUFFICES run'[e].late \/ run'[e].failed
  BY DEF Excused
<1>3. CASE Traffic
  BY <1>1, <1>3, TrafficFrame DEF shutdownVars
<1>4. ASSUME NEW s \in Signals, ReceiveSignal(s) PROVE run'[e].late \/ run'[e].failed
  BY <1>1, <1>4, SignalStarts
<1>5. ASSUME NEW s \in Signals, RunStep(s) PROVE run'[e].late \/ run'[e].failed
  BY <1>1, <1>5, RunFrame
<1>6. ASSUME NEW s \in Signals, SetExit(s) PROVE run'[e].late \/ run'[e].failed
  BY <1>1, <1>6 DEF SetExit, shutdownVars
<1>7. ASSUME NEW result, ResourceSettles(result) PROVE run'[e].late \/ run'[e].failed
  BY <1>1, <1>7 DEF ResourceSettles, shutdownVars
<1> QED BY <1>3, <1>4, <1>5, <1>6, <1>7, ShutdownCases

\* The pool has ended only if a run has come to close it.
LEMMA PoolEndsLate ==
  ASSUME TypeOK, Swept, Entered, ~PoolOpen
  PROVE  \E s \in Signals : Closing(s)
<1>1. ~(Database < sweep)
  BY Registration DEF Swept, PoolOpen
<1>2. sweep # Resources + 1
  BY <1>1, Registration DEF TypeOK
<1> QED BY <1>2 DEF Entered

LEMMA TrafficQuiet ==
  ASSUME TypeOK, Swept, Entered, Quiet, Traffic
  PROVE  Quiet'
<1>1. /\ Excused' <=> Excused
      /\ (\E s \in Signals : Closing(s))' <=> \E s \in Signals : Closing(s)
  BY TrafficFrame DEF Excused, Closing, shutdownVars
<1>2. ASSUME UNCHANGED serverVars PROVE Quiet'
  BY <1>1, <1>2 DEF Quiet, Active, serverVars
<1>3. ASSUME NEW h \in Requests, Excused PROVE Quiet'
  BY <1>1, <1>3 DEF Quiet
<1>4. ASSUME NEW h \in Requests, ReceiveRequest(h), ~Excused PROVE Quiet'
  <2>1. ~\E s \in Signals : Closing(s)
    BY <1>4 DEF Quiet, ReceiveRequest
  <2>2. /\ server' = server
        /\ \A o \in Requests : /\ request'[o].cut = request[o].cut
                               /\ request'[o].pc = request[o].pc \/ request'[o].pc = "running"
    BY <1>4 DEF ReceiveRequest, RequestAt, TypeOK, Request
  <2> QED BY <1>1, <1>4, <2>1, <2>2 DEF Quiet
<1>5. ASSUME NEW h \in Requests, ~Excused, NEW from \in {"running", "querying"},
             NEW to \in {"running", "querying", "answered"}, RequestAt(h, from, to)
      PROVE  Quiet'
  <2>1. ~\E s \in Signals : Closing(s)
    BY <1>5 DEF Quiet, Active, RequestAt
  <2>2. /\ server' = server
        /\ \A o \in Requests : /\ request'[o].cut = request[o].cut
                               /\ request'[o].pc = request[o].pc \/ request'[o].pc = to
    BY <1>5 DEF RequestAt, TypeOK, Request
  <2> QED BY <1>1, <1>5, <2>1, <2>2 DEF Quiet
<1>6. ASSUME NEW h \in Requests, UseClient(h), ~Excused PROVE Quiet'
  <2>1. PoolOpen
    BY <1>6, PoolEndsLate DEF Quiet, Active, UseClient, RequestAt
  <2> QED BY <1>5, <1>6, <2>1 DEF UseClient
<1>7. ASSUME NEW h \in Requests, ReleaseClient(h) \/ Respond(h), ~Excused PROVE Quiet'
  BY <1>5, <1>7 DEF ReleaseClient, Respond
<1> QED BY <1>2, <1>3, <1>4, <1>6, <1>7 DEF Traffic, ReceiveProbe, ProbeProceeds

LEMMA ShutdownQuiet ==
  ASSUME TypeOK, Memoised, Quiet, Shutdown
  PROVE  Quiet'
<1>1. Excused' => Quiet'
  BY DEF Quiet
<1>2. Excused => Quiet'
  BY <1>1, ExcuseStays
<1>3. ASSUME UNCHANGED serverVars,
             \A s \in Signals : Closing(s)' => Closing(s)
      PROVE  Quiet'
  BY <1>1, <1>2, <1>3 DEF Quiet, Active, serverVars
<1>4. ASSUME NEW s \in Signals, ReceiveSignal(s) PROVE Quiet'
  BY <1>3, <1>4, SignalStarts, SignalFrame DEF Closing
<1>5. ASSUME NEW s \in Signals, RunStep(s) PROVE Quiet'
  <2>1. \A o \in Signals \ {s} : ~Closing(o)'
    BY <1>5, RunFrame DEF Memoised, Closing
  <2>2. CASE EndDrain(s)
    <3>1. run'[s].pc = "stopping"
      BY <2>2 DEF EndDrain, Proceeds, TypeOK, Run
    <3>2. ~\E o \in Signals : Closing(o)'
      BY <2>1, <3>1 DEF Closing
    <3>3. request' = request /\ (server' = "stopped" => server = "stopped")
      BY <2>2 DEF EndDrain, StopServer, StopAccepting, serverVars
    <3> QED BY <1>2, <3>2, <3>3 DEF Quiet
  <2>3. CASE StopSettles(s)
    BY <1>2, <2>3 DEF Quiet, StopSettles, NoneActive, Active, serverVars
  <2>4. CASE StopRejects(s)
    <3>1. run'[s].failed
      BY <2>4 DEF StopRejects, FailsAt, TypeOK, Run
    <3> QED BY <1>1, <3>1 DEF Excused
  <2>5. CASE StopDeadline(s)
    <3>1. run'[s].late
      BY <2>5 DEF StopDeadline, TypeOK, Run
    <3> QED BY <1>1, <3>1 DEF Excused
  <2>6. CASE ForceSettles(s)
    BY <1>2, <2>6 DEF ForceSettles, Quiet
  <2>7. CASE ForceRejects(s)
    <3>1. run'[s].failed
      BY <2>7 DEF ForceRejects, FailsAt, TypeOK, Run
    <3> QED BY <1>1, <3>1 DEF Excused
  <2>8. CASE EndShutdown(s)
    BY <1>3, <2>1, <2>8 DEF EndShutdown, Proceeds, Closing
  <2> QED BY <1>5, <2>2, <2>3, <2>4, <2>5, <2>6, <2>7, <2>8 DEF RunStep
<1>6. ASSUME NEW s \in Signals, SetExit(s) PROVE Quiet'
  BY <1>3, <1>6 DEF SetExit, Closing, shutdownVars
<1>7. ASSUME NEW result, ResourceSettles(result) PROVE Quiet'
  BY <1>3, <1>7 DEF ResourceSettles, Closing, shutdownVars
<1> QED BY <1>4, <1>5, <1>6, <1>7, ShutdownCases

-----------------------------------------------------------------------------
LEMMA GatePreserved ==
  ASSUME TypeOK, GateShut, Traffic \/ Shutdown
  PROVE  GateShut'
<1>1. CASE Shutdown
  BY <1>1, ShutdownFrame, NoSuchSignal DEF GateShut
<1>2. ASSUME NEW p \in Probes, ReceiveProbe(p) PROVE GateShut'
  <2>1. /\ ready' = ready /\ shutdownPromise' = shutdownPromise
        /\ \A o \in Probes \ {p} : probe'[o] = probe[o]
        /\ probe'[p].lifecycle = GateCheck
    BY <1>2 DEF ReceiveProbe, Check, TypeOK, HealthTypeOK, shutdownVars
  <2>2. early \subseteq early'
    BY <1>2 DEF ReceiveProbe
  <2>3. ready => p \in early'
    BY <1>2 DEF ReceiveProbe, GateShut
  <2> QED BY <2>1, <2>2, <2>3 DEF GateShut, GateCheck
<1>3. ASSUME ProbeProceeds PROVE GateShut'
  <2>1. UNCHANGED <<ready, shutdownPromise, early>>
    BY <1>3 DEF ProbeProceeds, QuerySettles, TimesOut, shutdownVars
  <2>2. \A p \in Probes : probe'[p].lifecycle = probe[p].lifecycle
    <3>1. ASSUME NEW q, NEW result, QuerySettles(q, result)
          PROVE  \A p \in Probes : probe'[p].lifecycle = probe[p].lifecycle
      BY <3>1 DEF QuerySettles, TypeOK, HealthTypeOK, Probe
    <3>2. ASSUME NEW o \in Probes, TimesOut(o)
          PROVE  \A p \in Probes : probe'[p].lifecycle = probe[p].lifecycle
      BY <3>2 DEF TimesOut, TypeOK, HealthTypeOK, Probe
    <3> QED BY <1>3, <3>1, <3>2 DEF ProbeProceeds
  <2> QED BY <2>1, <2>2 DEF GateShut
<1>4. ASSUME UNCHANGED <<shutdownVars, early, healthVars>> PROVE GateShut'
  BY <1>4 DEF GateShut, shutdownVars, healthVars
<1> QED BY <1>1, <1>2, <1>3, <1>4 DEF Traffic, ReceiveRequest, UseClient,
      ReleaseClient, Respond, RequestAt

LEMMA QueryPreserved ==
  ASSUME TypeOK, OneLiveQuery, Traffic \/ Shutdown
  PROVE  OneLiveQuery'
<1> DEFINE Live(q) == queries[q] \in {"sent", "refused"}
<1>1. ASSUME UNCHANGED <<inFlight, queries>> PROVE OneLiveQuery'
  BY <1>1 DEF OneLiveQuery
<1>2. ASSUME NEW open \in BOOLEAN, inFlight = 0, StartCheck(open) PROVE OneLiveQuery'
  <2>1. PICK state \in {"sent", "refused"} : queries' = Append(queries, state)
    BY <1>2 DEF StartCheck
  <2>2. /\ Len(queries) \in Nat
        /\ DOMAIN queries = 1 .. Len(queries)
        /\ DOMAIN queries' = 1 .. Len(queries) + 1
        /\ \A q \in 1 .. Len(queries) : queries'[q] = queries[q]
        /\ queries'[Len(queries) + 1] = state
    BY <2>1 DEF TypeOK, HealthTypeOK, QueryStates
  <2>3. \A q \in 1 .. Len(queries) : ~Live(q)
    BY <1>2, <2>2 DEF OneLiveQuery
  <2>4. \A q \in DOMAIN queries' : Live(q)' <=> q = Len(queries) + 1
    BY <2>2, <2>3
  <2> QED BY <1>2, <2>2, <2>4 DEF OneLiveQuery, StartCheck
<1>3. ASSUME NEW q \in DOMAIN queries, NEW result, QuerySettles(q, result)
      PROVE  OneLiveQuery'
  <2>1. q = inFlight /\ \A o \in DOMAIN queries : Live(o) => o = q
    BY <1>3 DEF QuerySettles, OneLiveQuery
  <2>2. ~Live(q)'
    BY <1>3, QueryTypes DEF QuerySettles
  <2>3. \A o \in DOMAIN queries' : ~Live(o)'
    BY <1>3, <2>1, <2>2, QueryTypes
  <2>4. inFlight' = 0
    BY <1>3, <2>1 DEF QuerySettles
  <2> QED BY <2>3, <2>4 DEF OneLiveQuery
<1>4. CASE Shutdown
  BY <1>1, <1>4, ShutdownFrame
<1>5. ASSUME NEW p \in Probes, ReceiveProbe(p) PROVE OneLiveQuery'
  BY <1>1, <1>2, <1>5 DEF ReceiveProbe, Check, PoolOpen
<1>6. ASSUME ProbeProceeds PROVE OneLiveQuery'
  BY <1>1, <1>3, <1>6 DEF ProbeProceeds, TimesOut
<1> QED BY <1>1, <1>4, <1>5, <1>6 DEF Traffic, ReceiveRequest, UseClient,
      ReleaseClient, Respond, RequestAt, healthVars

-----------------------------------------------------------------------------
LEMMA InvariantPreserved ==
  ASSUME IInv, [Next]_vars
  PROVE  IInv'
<1> USE DEF IInv
<1>1. TypeOK'
  BY TypesPreserved
<1>2. CASE UNCHANGED vars
  BY <1>1, <1>2 DEF vars, shutdownVars, closeVars, serverVars, healthVars, Memoised,
    Swept, Entered, Closing, Concluded, AnyFailure, Reported, Quiet, Excused, Active,
    GateShut, OneLiveQuery
<1>3. CASE Traffic
  BY <1>1, <1>3, TrafficKeeps, TrafficQuiet, GatePreserved, QueryPreserved
<1>4. CASE Shutdown
  BY <1>1, <1>4, MemoisedPreserved, SweptPreserved, EnteredPreserved, ConcludedPreserved,
    ReportedPreserved, ShutdownQuiet, GatePreserved, QueryPreserved
<1> QED BY <1>2, <1>3, <1>4 DEF Next

LEMMA Invariance == Spec => []IInv
BY InitInvariant, InvariantPreserved, PTL DEF Spec

\* One "select 1" is unsettled at most, and a new probe joins it, for any probes.
THEOREM QueriesAreShared == Spec => []OneLiveQuery
<1>1. IInv => OneLiveQuery
  BY DEF IInv
<1> QED BY <1>1, Invariance, PTL

\* Requests are spared by any shutdown that meets its deadline and stops the server.
THEOREM RequestsAreSpared == Spec => []RequestsSpared
<1>1. IInv => RequestsSpared
  <2> SUFFICES ASSUME IInv, NEW h \in Requests, Harmed(h) PROVE Excused
    BY DEF RequestsSpared, Excused
  <2>1. CASE Active(h) /\ exit = "1"
    BY <2>1 DEF IInv, Reported, Quiet, Closing
  <2> QED BY <2>1 DEF Harmed, IInv, Quiet
<1> QED BY <1>1, Invariance, PTL

\* Any number of resources is closed in reverse order, each after the next settled.
THEOREM ResourcesCloseInReverse == Spec => []ClosedInReverse
<1>1. IInv => ClosedInReverse
  BY Registration DEF IInv, TypeOK, Swept, ClosedInReverse
<1> QED BY <1>1, Invariance, PTL

\* The exit code tells the outcome of the whole shutdown, for any signals.
THEOREM ExitIsHonest == Spec => []ExitHonest
<1>1. IInv => ExitHonest
  <2> SUFFICES ASSUME IInv, exit # "no"
               PROVE  /\ exit = "0" <=> ~AnyFailure
                      /\ \A r \in 1 .. Resources : resource[r] \in {"closed", "failed"}
                      /\ \A s \in Signals : run[s].pc \in {"none", "resolved", "rejected"}
    BY DEF ExitHonest
  <2> USE DEF IInv, TypeOK
  <2>1. PICK s \in Signals : run[s].pc = IF exit = "0" THEN "resolved" ELSE "rejected"
    BY DEF Reported
  <2>2. sweep = 0 /\ (exit = "0" <=> ~AnyFailure)
    BY <2>1 DEF Concluded
  <2>3. \A r \in 1 .. Resources : resource[r] \in {"closed", "failed"}
    BY <2>2, Registration DEF Swept
  <2>4. \A o \in Signals : run[o].pc # "none" => o = s
    BY <2>1 DEF Memoised
  <2> QED BY <2>1, <2>2, <2>3, <2>4
<1> QED BY <1>1, Invariance, PTL

\* No probe received after a signal is answered "ready".
THEOREM ProbesSeeTheDrain == Spec => []NotReadyOnceSignalled
<1>1. IInv => NotReadyOnceSignalled
  BY DEF IInv, GateShut, NotReadyOnceSignalled, Ready
<1> QED BY <1>1, Invariance, PTL

-----------------------------------------------------------------------------
(***************************************************************************)
(* Every shutdown comes to an end.                                         *)
(***************************************************************************)
\* The run that is shared has begun.
Started == shutdownPromise # NoSignal => run[shutdownPromise].pc # "none"

PoolWaits == sweep = Database /\ ClientsHeld

\* What is bound to come: a timer, the end of stop(true) or of a resource, or the
\* callbacks that follow it, up to the handler of s.
MayGoOn(s) ==
  \/ \E o \in Signals :
       \/ run[o].pc \in {"draining", "stopping", "forcing", "reforcing"}
       \/ run[o].pc = "closing" /\ sweep = 0
  \/ sweep \in 1 .. Resources /\ ~PoolWaits
  \/ awaits[s] # NoSignal /\ run[awaits[s]].pc \in {"resolved", "rejected"}

\* The awaits of performShutdown that are left, and the resources.
RunStepsLeft ==
  IF shutdownPromise = NoSignal THEN 6
  ELSE CASE run[shutdownPromise].pc \in {"none", "draining"} -> 5
         [] run[shutdownPromise].pc = "stopping" -> 4
         [] run[shutdownPromise].pc = "forcing" -> 3
         [] run[shutdownPromise].pc = "reforcing" -> 2
         [] run[shutdownPromise].pc = "closing" -> 1
         [] OTHER -> 0

StepsLeft == RunStepsLeft + sweep

LEMMA StartedPreserved ==
  ASSUME TypeOK, Memoised, Started, [Next]_vars
  PROVE  Started'
<1> USE NoSuchSignal DEF Started, TypeOK
<1>1. CASE UNCHANGED <<shutdownPromise, run>>
  BY <1>1
<1>2. ASSUME NEW s \in Signals, ReceiveSignal(s) PROVE Started'
  <2>1. CASE shutdownPromise' = s /\ run' = [run EXCEPT ![s].pc = "draining"]
    <3>1. run'[s].pc = "draining"
      BY <2>1 DEF Run
    <3> QED BY <2>1, <3>1
  <2> QED BY <1>1, <1>2, <2>1, SignalFrame
<1>3. ASSUME NEW s \in Signals, RunStep(s) PROVE Started'
  BY <1>3, RunFrame
<1>4. CASE Shutdown
  BY <1>1, <1>2, <1>3, <1>4, ShutdownCases DEF SetExit, ResourceSettles, shutdownVars
<1> QED BY <1>1, <1>4, TrafficFrame DEF Next, vars, shutdownVars

\* A handler never awaits a run that has not begun.
LEMMA RunsStart == Spec => []Started
<1>1. Init => Started
  BY DEF Init, Started
<1>2. IInv /\ Started /\ [Next]_vars => Started'
  BY StartedPreserved DEF IInv
<1> QED BY <1>1, <1>2, Invariance, PTL DEF Spec

\* The handler of a signal awaits the run that is shared, and it has begun.
LEMMA AwaitsRun ==
  ASSUME IInv, Started, NEW s \in Signals, awaits[s] # NoSignal
  PROVE  /\ shutdownPromise \in Signals /\ awaits[s] = shutdownPromise
         /\ run[shutdownPromise].pc \in
              {"draining", "stopping", "forcing", "reforcing", "closing",
               "resolved", "rejected"}
BY DEF IInv, TypeOK, Memoised, Started, Run

\* However the signals, the requests and the failures of stop() and of the resources
\* fall, a shutdown that has no exit code yet has something coming that moves it on.
\* Only Pool.end, waiting for clients that are checked out, can keep it.
THEOREM OnlyClientsDelayExit ==
  Spec => [](\A s \in Signals :
               awaits[s] # NoSignal /\ exit = "no" => MayGoOn(s) \/ PoolWaits)
<1>1. ASSUME IInv, Started, NEW s \in Signals, awaits[s] # NoSignal
      PROVE  MayGoOn(s) \/ PoolWaits
  <2>1. CASE run[shutdownPromise].pc = "closing"
    <3>1. sweep # Resources + 1
      BY <1>1, <2>1, AwaitsRun DEF IInv, Entered, Closing
    <3>2. CASE sweep = 0
      BY <1>1, <2>1, <3>2, AwaitsRun DEF MayGoOn
    <3>3. CASE sweep # 0
      BY <1>1, <3>1, <3>3, Registration DEF IInv, TypeOK, MayGoOn
    <3> QED BY <3>2, <3>3
  <2>2. CASE run[shutdownPromise].pc # "closing"
    BY <1>1, <2>2, AwaitsRun DEF MayGoOn
  <2> QED BY <2>1, <2>2
<1>2. IInv /\ Started =>
        \A s \in Signals :
          awaits[s] # NoSignal /\ exit = "no" => MayGoOn(s) \/ PoolWaits
  BY <1>1
<1> QED BY <1>2, Invariance, RunsStart, PTL

\* A sum drops with its terms.
LEMMA SumDrops ==
  ASSUME NEW a \in Nat, NEW b \in Nat, NEW c \in Nat, NEW d \in Nat, a <= c, b <= d
  PROVE  /\ a + b <= c + d
         /\ a < c \/ b < d => a + b < c + d
OBVIOUS

\* What is left is finite.
LEMMA StepsAreLeft ==
  ASSUME TypeOK
  PROVE  RunStepsLeft \in 0 .. 6 /\ StepsLeft \in 0 .. Resources + 7
<1>1. RunStepsLeft \in 0 .. 6
  BY DEF RunStepsLeft
<1> QED BY <1>1, Registration DEF TypeOK, StepsLeft

\* A run never goes back.
LEMMA RunCounts ==
  ASSUME IInv, Started, NEW s \in Signals, RunStep(s)
  PROVE  /\ StepsLeft' < StepsLeft /\ StepsLeft' <= StepsLeft
         /\ UNCHANGED <<awaits, exit>>
         /\ \A r \in 1 .. Resources :
              resource[r] \in {"closed", "failed"} => resource'[r] = resource[r]
<1> USE DEF IInv, TypeOK
<1>1. s = shutdownPromise /\ shutdownPromise' = shutdownPromise /\ s # NoSignal
  BY RunFrame, NoSuchSignal DEF Memoised
<1>2. RunStepsLeft' < RunStepsLeft
  <2>1. CASE EndDrain(s)
    BY <1>1, <2>1 DEF EndDrain, Proceeds, RunStepsLeft, Run
  <2>2. CASE StopSettles(s)
    BY <1>1, <2>2 DEF StopSettles, Proceeds, RunStepsLeft, Run
  <2>3. CASE StopRejects(s)
    BY <1>1, <2>3 DEF StopRejects, FailsAt, RunStepsLeft, Run
  <2>4. CASE StopDeadline(s)
    BY <1>1, <2>4 DEF StopDeadline, RunStepsLeft, Run
  <2>5. CASE ForceSettles(s)
    BY <1>1, <2>5 DEF ForceSettles, Proceeds, RunStepsLeft, Run
  <2>6. CASE ForceRejects(s)
    <3>1. ASSUME FailsAt(s, "forcing", "reforcing") PROVE RunStepsLeft' < RunStepsLeft
      BY <1>1, <3>1 DEF FailsAt, RunStepsLeft, Run
    <3>2. ASSUME FailsAt(s, "reforcing", "closing") PROVE RunStepsLeft' < RunStepsLeft
      BY <1>1, <3>2 DEF FailsAt, RunStepsLeft, Run
    <3> QED BY <2>6, <3>1, <3>2 DEF ForceRejects
  <2>7. CASE EndShutdown(s)
    BY <1>1, <2>7 DEF EndShutdown, Proceeds, Outcome, RunStepsLeft, Run
  <2> QED BY <2>1, <2>2, <2>3, <2>4, <2>5, <2>6, <2>7 DEF RunStep
<1>3. /\ sweep' \in 0 .. Resources + 1 /\ sweep' <= sweep
      /\ \A r \in 1 .. Resources :
           resource[r] \in {"closed", "failed"} => resource'[r] = resource[r]
  <2>1. CASE UNCHANGED closeVars
    BY <2>1 DEF closeVars
  <2>2. CASE CloseLifecycle
    BY <2>2, Registration DEF CloseLifecycle, closeVars, Swept
  <2> QED BY <2>1, <2>2, RunCloses
<1>4. RunStepsLeft \in 0 .. 6 /\ RunStepsLeft' \in 0 .. 6
  BY StepsAreLeft DEF RunStepsLeft
<1>5. UNCHANGED <<awaits, exit>>
  BY RunFrame
<1>6. sweep \in Nat /\ sweep' \in Nat
  BY <1>3, Registration
<1>7. RunStepsLeft' \in Nat /\ RunStepsLeft \in Nat /\ RunStepsLeft' <= RunStepsLeft
  BY <1>2, <1>4
<1>8. StepsLeft' < StepsLeft /\ StepsLeft' <= StepsLeft
  BY <1>2, <1>3, <1>6, <1>7, SumDrops DEF StepsLeft
<1> QED BY <1>3, <1>5, <1>8

\* performShutdown never goes back: a signal keeps the run that it awaits, a resource
\* that has settled stays so and an exit code is not revised, and each step of the
\* shutdown leaves less to do, serves a signal not seen before or sets the exit code.
THEOREM EveryStepCounts ==
  Spec =>
    /\ [](StepsLeft \in 0 .. Resources + 7)
    /\ [][/\ StepsLeft' <= StepsLeft
          /\ \A s \in Signals : awaits[s] # NoSignal => awaits'[s] = awaits[s]
          /\ \A r \in 1 .. Resources :
               resource[r] \in {"closed", "failed"} => resource'[r] = resource[r]
          /\ exit # "no" => exit' = exit
          /\ Shutdown =>
               \/ StepsLeft' < StepsLeft
               \/ \E s \in Signals : awaits[s] = NoSignal /\ awaits'[s] # NoSignal
               \/ exit = "no" /\ exit' # "no"]_vars
<1> DEFINE
      Kept == /\ StepsLeft' <= StepsLeft
              /\ \A s \in Signals : awaits[s] # NoSignal => awaits'[s] = awaits[s]
              /\ \A r \in 1 .. Resources :
                   resource[r] \in {"closed", "failed"} => resource'[r] = resource[r]
              /\ exit # "no" => exit' = exit
      Counts == \/ StepsLeft' < StepsLeft
                \/ \E s \in Signals : awaits[s] = NoSignal /\ awaits'[s] # NoSignal
                \/ exit = "no" /\ exit' # "no"
<1>1. ASSUME IInv, UNCHANGED <<shutdownVars, closeVars, exit>> PROVE Kept
  <2>1. StepsLeft' = StepsLeft
    BY <1>1 DEF StepsLeft, RunStepsLeft, shutdownVars, closeVars
  <2>2. StepsLeft \in Nat
    BY <1>1, StepsAreLeft DEF IInv
  <2> QED BY <1>1, <2>1, <2>2 DEF shutdownVars, closeVars
<1>2. ASSUME IInv, Started, NEW s \in Signals, ReceiveSignal(s) PROVE Kept /\ Counts
  <2>1. TypeOK /\ Memoised
    BY <1>2 DEF IInv
  <2>2. /\ awaits[s] = NoSignal /\ awaits'[s] # NoSignal
        /\ \A o \in Signals \ {s} : awaits'[o] = awaits[o]
    BY <1>2, <2>1, NoSuchSignal DEF ReceiveSignal, BeginDrain, TypeOK
  <2>3. UNCHANGED <<resource, sweep, exit>>
    BY <1>2, <2>1, SignalFrame DEF closeVars
  <2>4. RunStepsLeft' <= RunStepsLeft
    <3>1. CASE UNCHANGED <<shutdownPromise, run>>
      BY <2>1, <3>1, StepsAreLeft DEF RunStepsLeft
    <3>2. CASE /\ shutdownPromise = NoSignal /\ shutdownPromise' = s
               /\ run' = [run EXCEPT ![s].pc = "draining"]
      BY <2>1, <3>2, NoSuchSignal DEF RunStepsLeft, TypeOK, Run
    <3> QED BY <1>2, <2>1, <3>1, <3>2, SignalFrame
  <2>5. /\ sweep \in Nat /\ sweep' \in Nat /\ sweep' <= sweep
        /\ RunStepsLeft \in Nat /\ RunStepsLeft' \in Nat
    BY <2>1, <2>3, StepsAreLeft, Registration DEF TypeOK, RunStepsLeft
  <2>6. StepsLeft' <= StepsLeft
    BY <2>4, <2>5, SumDrops DEF StepsLeft
  <2> QED BY <2>2, <2>3, <2>6
<1>3. ASSUME IInv, Started, NEW s \in Signals, RunStep(s) PROVE Kept /\ Counts
  BY <1>3, RunCounts
<1>4. ASSUME IInv, NEW s \in Signals, SetExit(s), exit' # exit PROVE Kept /\ Counts
  <2>1. UNCHANGED <<shutdownVars, closeVars>>
    BY <1>4 DEF SetExit
  <2>2. exit = "no"
    BY <1>4, <2>1 DEF SetExit, IInv, TypeOK, Reported, Concluded
  <2>3. StepsLeft' = StepsLeft /\ StepsLeft \in Nat
    BY <1>4, <2>1, StepsAreLeft DEF StepsLeft, RunStepsLeft, shutdownVars, closeVars, IInv
  <2> QED BY <1>4, <2>1, <2>2, <2>3 DEF shutdownVars, closeVars
<1>5. ASSUME IInv, NEW result \in {"closed", "failed"}, ResourceSettles(result)
      PROVE  Kept /\ Counts
  <2> USE <1>5 DEF IInv, TypeOK
  <2>1. UNCHANGED <<shutdownPromise, awaits, run, exit>>
    BY DEF ResourceSettles, shutdownVars
  <2>2. sweep \in 1 .. Resources /\ sweep' = sweep - 1
    BY DEF ResourceSettles
  <2>3. \A r \in 1 .. Resources :
          resource[r] \in {"closed", "failed"} => resource'[r] = resource[r]
    BY Registration DEF ResourceSettles, Swept
  <2>4. RunStepsLeft' = RunStepsLeft /\ RunStepsLeft \in 0 .. 6
    BY <2>1, StepsAreLeft DEF RunStepsLeft
  <2>5. StepsLeft' < StepsLeft /\ StepsLeft' <= StepsLeft
    BY <2>2, <2>4, Registration DEF StepsLeft
  <2> QED BY <2>1, <2>3, <2>5
<1>6. ASSUME IInv, Started, [Next]_vars PROVE [Kept /\ (Shutdown => Counts)]_vars
  <2> SUFFICES ASSUME Next, ~UNCHANGED vars PROVE Kept /\ (Shutdown => Counts)
    BY <1>6
  <2>1. CASE Shutdown
    <3>1. ASSUME NEW s \in Signals, SetExit(s) PROVE exit' # exit
      BY <3>1 DEF SetExit, vars
    <3> QED BY <1>2, <1>3, <1>4, <1>5, <1>6, <2>1, <3>1, ShutdownCases
  <2>2. CASE Traffic /\ ~Shutdown
    BY <1>1, <1>6, <2>2, TrafficFrame
  <2> QED BY <2>1, <2>2 DEF Next
<1>7. IInv => StepsLeft \in 0 .. Resources + 7
  BY StepsAreLeft DEF IInv
<1> QED BY <1>6, <1>7, Invariance, RunsStart, PTL DEF Spec
=============================================================================
