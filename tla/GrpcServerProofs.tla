--------------------------- MODULE GrpcServerProofs ---------------------------
(***************************************************************************)
(* Theorems about GrpcServer for any calls of Stop and any number of runs; *)
(* and, at the end, about the three servers as MCServers composes them.    *)
(***************************************************************************)
EXTENDS MCServers, TLAPS

USE Assumption DEF Runs, Nil, PreClosed, Closers, Alive

-----------------------------------------------------------------------------
(* Type correctness.                                                       *)

LEMMA StartTypeOK ==
    ASSUME TypeOK, StartBegins \/ StartStep \/ ServeFails
    PROVE  TypeOK'
<1> USE DEF TypeOK, Return, Goes, startVars, serverVars, closerVars
<1>1. CASE StartBegins
  BY <1>1 DEF StartBegins
<1>2. CASE StartListens \/ StartListenFails \/ StartCredsFail
  BY <1>2 DEF StartListens, StartListenFails, StartCredsFail, CredsFailLeaving
<1>3. CASE StartInstalls
  BY <1>3 DEF StartInstalls
<1>7. CASE StartAnnounces
  <2>1. /\ start' = "ready" /\ start = "announcing" /\ run' = run /\ run \in Closers
        /\ UNCHANGED <<server, stopCh, result, port, srv, rpcs, cancelled, stopClosed, took, panicked>>
    BY <1>7 DEF StartAnnounces
  <2>2. at' \in [Closers -> {"none", "idle", "testing", "closing", "stopping", "draining", "done"}]
    BY <1>7 DEF StartAnnounces
  <2> QED
    BY <2>1, <2>2
<1>4. CASE StartServes
  <2>1. start' \in {"serving", "failed"} /\ UNCHANGED <<run, result>>
    BY <1>4 DEF StartServes
  <2>2. /\ port' \in [Runs -> {"none", "open", "closed"}]
        /\ srv' \in [Runs -> {"none", "built", "serving", "draining", "stopped"}]
    BY <1>4 DEF StartServes
  <2> QED
    BY <1>4, <2>1, <2>2 DEF StartServes
<1>5. CASE ServeReturns \/ ServeFails
  BY <1>5 DEF ServeReturns, ServeFails
<1>6. CASE StartReadsServing \/ StartWakes
  BY <1>6 DEF StartReadsServing, ReadsServing, StartWakes
<1> QED
  BY <1>1, <1>2, <1>3, <1>4, <1>5, <1>6, <1>7 DEF StartStep

LEMMA TakesTypeOK ==
    ASSUME TypeOK, NEW a \in Closers, NEW ch \in 0..PreClosed, Takes(a, ch, PreClosed, Nil)
    PROVE  TypeOK'
BY DEF TypeOK, Takes, startVars, serverVars

LEMMA CloserTypeOK == ASSUME TypeOK, NEW a \in Closers, CloserStep(a) PROVE TypeOK'
<1> USE DEF TypeOK, startVars, serverVars
<1>1. CASE Tests(a)
  BY <1>1 DEF Tests, TestsElse
<1>2. CASE ClosesStopCh(a)
  <2>1. (took[a].stopCh \in stopClosed) \in BOOLEAN
    OBVIOUS
  <2>2. panicked' \in BOOLEAN
    BY <1>2, <2>1, Zenon DEF ClosesStopCh
  <2>3. at' \in [Closers -> {"none", "idle", "testing", "closing", "stopping", "draining", "done"}]
    BY <1>2 DEF ClosesStopCh
  <2>4. took[a].stopCh \in 0..PreClosed
    OBVIOUS
  <2>5. stopClosed' \subseteq 0..PreClosed
    BY <1>2, <2>4 DEF ClosesStopCh
  <2>6. UNCHANGED <<server, stopCh, start, run, result, port, srv, rpcs, cancelled, took>>
    BY <1>2 DEF ClosesStopCh
  <2> QED
    BY <2>2, <2>3, <2>5, <2>6
<1>3. CASE StopsServer(a)
  <2>1. UNCHANGED <<server, stopCh, start, run, result, rpcs, cancelled, stopClosed, took, panicked>>
    BY <1>3 DEF StopsServer
  <2>5. \/ at' = [at EXCEPT ![a] = "done"]
        \/ at' = [at EXCEPT ![a] = "draining"]
    BY <1>3 DEF StopsServer
  <2>6. at' \in [Closers -> {"none", "idle", "testing", "closing", "stopping", "draining", "done"}]
    BY <2>5
  <2>2. ASSUME NEW s, StopsServing(s)
        PROVE  srv' \in [Runs -> {"none", "built", "serving", "draining", "stopped"}]
    <3>1. CASE srv[s] = "serving"
      BY <2>2, <3>1 DEF StopsServing
    <3>2. CASE srv[s] # "serving"
      BY <2>2, <3>2 DEF StopsServing
    <3> QED
      BY <3>1, <3>2
  <2>4. srv' \in [Runs -> {"none", "built", "serving", "draining", "stopped"}]
    BY <1>3, <2>2 DEF StopsServer
  <2>3. port' \in [Runs -> {"none", "open", "closed"}]
    BY <1>3 DEF StopsServer, StopsServing
  <2> QED
    BY <2>1, <2>3, <2>4, <2>6
<1>4. CASE ServerStops(a)
  BY <1>4 DEF ServerStops
<1> QED
  BY <1>1, <1>2, <1>3, <1>4 DEF CloserStep

\* The rest: the supervisor and the clients.
AroundStep == SupervisorCancels \/ \E r \in Runs : RpcBegins(r) \/ RpcEnds(r)

LEMMA AroundTypeOK == ASSUME TypeOK, AroundStep PROVE TypeOK'
<1> USE DEF TypeOK, startVars, serverVars, closerVars
<1>1. CASE SupervisorCancels
  BY <1>1 DEF SupervisorCancels
<1>2. ASSUME NEW r \in Runs, RpcBegins(r) \/ RpcEnds(r) PROVE TypeOK'
  BY <1>2 DEF RpcBegins, RpcEnds
<1> QED
  BY <1>1, <1>2 DEF AroundStep

\* The critical section of Stop, or of a watcher.
TakingStep(a) ==
    \E ch \in 0..PreClosed :
        /\ Takes(a, ch, PreClosed, Nil)
        /\ a \in Stoppers => ch = stopCh
        /\ a \in Runs => ch = a /\ a \in cancelled

LEMMA Steps ==
    ASSUME TypeOK, [Next]_vars
    PROVE  \/ UNCHANGED vars \/ AroundStep
           \/ StartBegins \/ StartStep \/ ServeFails
           \/ \E a \in Closers : TakingStep(a) \/ CloserStep(a)
           \/ \E r \in Runs : WatcherLeaves(r)
<1>1. ASSUME NEW p \in Stoppers, StopTakes(p) PROVE p \in Closers /\ TakingStep(p)
  BY <1>1 DEF StopTakes, TakingStep, TypeOK
<1>2. ASSUME NEW r \in Runs, WatcherTakes(r) PROVE r \in Closers /\ TakingStep(r)
  BY <1>2 DEF WatcherTakes, TakingStep
<1> QED
  BY <1>1, <1>2 DEF Next, WatcherStep, AroundStep

LEMMA NextTypeOK == TypeOK /\ [Next]_vars => TypeOK'
<1> SUFFICES ASSUME TypeOK, [Next]_vars PROVE TypeOK'
  OBVIOUS
<1>1. CASE UNCHANGED vars
  BY <1>1 DEF TypeOK, vars, startVars, serverVars, closerVars
<1>2. ASSUME NEW r \in Runs, WatcherLeaves(r) PROVE TypeOK'
  BY <1>2 DEF TypeOK, WatcherLeaves, startVars, serverVars
<1>3. ASSUME NEW a \in Closers, TakingStep(a) PROVE TypeOK'
  BY <1>3, TakesTypeOK DEF TakingStep
<1> QED
  BY <1>1, <1>2, <1>3, StartTypeOK, CloserTypeOK, AroundTypeOK, Steps

LEMMA InitTypeOK == Init => TypeOK
<1> SUFFICES ASSUME Init PROVE TypeOK
  OBVIOUS
<1>1. at \in [Closers -> {"none", "idle", "testing", "closing", "stopping", "draining", "done"}]
  BY DEF Init
<1>2. [stopCh |-> PreClosed, server |-> Nil] \in [stopCh : 0..PreClosed, server : 0..MaxRuns]
  OBVIOUS
<1>3. took \in [Closers -> [stopCh : 0..PreClosed, server : 0..MaxRuns]]
  BY <1>2 DEF Init
<1>4. /\ result \in [Runs -> {"none", "nil", "error"}]
      /\ port \in [Runs -> {"none", "open", "closed"}]
      /\ srv \in [Runs -> {"none", "built", "serving", "draining", "stopped"}]
  BY DEF Init
<1>5. /\ server = 0 /\ stopCh = 0 /\ start = "down" /\ run = 0
      /\ rpcs = {} /\ cancelled = {} /\ stopClosed \subseteq 0..PreClosed
  BY DEF Init
<1>6. panicked \in BOOLEAN
  BY DEF Init
<1> QED
  BY <1>1, <1>3, <1>4, <1>5, <1>6 DEF TypeOK

\* Every reachable state of the server component has its type.
THEOREM TypeCorrect == Spec => []TypeOK
BY InitTypeOK, NextTypeOK, PTL DEF Spec

-----------------------------------------------------------------------------
(* Servers.  A run's server is nobody's before the run publishes it, and   *)
(* then the component's or that of one closer.                             *)

Numbered ==
    /\ server <= run
    /\ \A a \in Closers : took[a].server <= run
    /\ start \in {"listening", "building"} =>
           server # run /\ \A a \in Closers : took[a].server # run

ServerInv == TypeOK /\ Numbered /\ OneGracefulStop

LEMMA InitServerInv == Init => ServerInv
<1> SUFFICES ASSUME Init PROVE ServerInv
  OBVIOUS
<1>1. Numbered /\ OneGracefulStop
  BY DEF Init, Numbered, OneGracefulStop, Healthy
<1> QED
  BY <1>1, InitTypeOK DEF ServerInv

LEMMA StartServerInv ==
    ASSUME ServerInv, StartBegins \/ StartStep \/ ServeFails
    PROVE  ServerInv'
<1> USE DEF ServerInv
<1>1. /\ TypeOK' /\ run \in 0..MaxRuns /\ server \in 0..MaxRuns
      /\ \A a \in Closers : took[a].server \in 0..MaxRuns
  BY StartTypeOK DEF TypeOK
<1>2. took' = took
  BY DEF StartBegins, StartStep, StartListens, StartListenFails, StartCredsFail, CredsFailLeaving,
     StartInstalls, StartAnnounces, StartServes, ServeReturns, ServeFails, StartReadsServing,
     ReadsServing, StartWakes, closerVars
<1>3. CASE StartBegins
  <2>1. run' = run + 1 /\ server' = server
    BY <1>3 DEF StartBegins
  <2> QED
    BY <1>1, <1>2, <2>1 DEF Numbered, OneGracefulStop, Healthy
<1>4. CASE StartInstalls
  <2>1. /\ start = "building" /\ start' = "announcing" /\ run' = run /\ server' = run
    BY <1>4 DEF StartInstalls, Goes
  <2> QED
    BY <1>1, <1>2, <2>1 DEF Numbered, OneGracefulStop, Healthy
<1>5. CASE StartListens
  <2>1. /\ start = "listening" /\ start' = "building" /\ run' = run /\ server' = server
    BY <1>5 DEF StartListens, Goes
  <2> QED
    BY <1>1, <1>2, <2>1 DEF Numbered, OneGracefulStop, Healthy
<1>6. CASE ~(StartBegins \/ StartInstalls \/ StartListens)
  <2>1. /\ start' \notin {"listening", "building"} /\ run' = run /\ server' = server
    BY <1>6 DEF StartStep, StartListenFails, StartCredsFail, CredsFailLeaving, Return, Goes,
       StartAnnounces, StartServes, ServeReturns, ServeFails, StartReadsServing,
       ReadsServing, StartWakes
  <2> QED
    BY <1>1, <1>2, <2>1 DEF Numbered, OneGracefulStop, Healthy
<1> QED
  BY <1>3, <1>4, <1>5, <1>6

LEMMA TakingServerInv == ASSUME ServerInv, NEW a \in Closers, TakingStep(a) PROVE ServerInv'
<1> USE DEF ServerInv
<1>1. PICK ch \in 0..PreClosed : Takes(a, ch, PreClosed, Nil)
  BY DEF TakingStep
<1>2. /\ TypeOK' /\ run \in 0..MaxRuns /\ server \in 0..MaxRuns
      /\ took \in [Closers -> [stopCh : 0..PreClosed, server : 0..MaxRuns]]
  BY <1>1, TakesTypeOK DEF TypeOK
<1>3. /\ server' = Nil /\ UNCHANGED <<start, run>>
      /\ \A b \in Closers : took'[b].server = IF b = a THEN server ELSE took[b].server
  BY <1>1, <1>2 DEF Takes, startVars
<1>4. Numbered'
  BY <1>2, <1>3 DEF Numbered
<1>5. OneGracefulStop'
  BY <1>2, <1>3 DEF OneGracefulStop, Healthy
<1> QED
  BY <1>2, <1>4, <1>5

LEMMA NextServerInv == ServerInv /\ [Next]_vars => ServerInv'
<1> SUFFICES ASSUME ServerInv, [Next]_vars PROVE ServerInv'
  OBVIOUS
<1>1. TypeOK'
  BY NextTypeOK DEF ServerInv
<1>2. ASSUME UNCHANGED <<server, took, start, run>> PROVE ServerInv'
  BY <1>1, <1>2 DEF ServerInv, Numbered, OneGracefulStop, Healthy
<1>3. CASE UNCHANGED vars \/ AroundStep
  BY <1>2, <1>3 DEF vars, AroundStep, SupervisorCancels, RpcBegins, RpcEnds, startVars, closerVars
<1>4. ASSUME NEW a \in Closers, CloserStep(a) PROVE ServerInv'
  BY <1>2, <1>4 DEF CloserStep, Tests, TestsElse, ClosesStopCh, StopsServer, ServerStops, startVars
<1>5. ASSUME NEW r \in Runs, WatcherLeaves(r) PROVE ServerInv'
  BY <1>2, <1>5 DEF WatcherLeaves, startVars
<1>6. TypeOK
  BY DEF ServerInv
<1> QED
  BY <1>3, <1>4, <1>5, <1>6, StartServerInv, TakingServerInv, Steps

\* Servers are numbered as they are built, and each is stopped by one caller.
THEOREM ServerInvariant == Spec => []ServerInv
BY InitServerInv, NextServerInv, PTL DEF Spec

\* One path alone calls GracefulStop on a server, of all the Stops and watchers, of
\* its own run or another, that meet over restarts; and Health never speaks for a
\* server one of them has taken.
THEOREM ServersStopOnce == Spec => []OneGracefulStop
<1>1. ServerInv => OneGracefulStop
  BY DEF ServerInv
<1> QED
  BY <1>1, ServerInvariant, PTL

-----------------------------------------------------------------------------
(* Ports.  One is open only while its run can still close it.              *)

\* The watcher of run r has not been started.
Unwatched(r) == r > run \/ (r = run /\ start \in {"listening", "building", "announcing"})

Watchers ==
    /\ \A r \in Runs : Unwatched(r) => at[r] = "none"
    /\ \A a \in Closers : at[a] \in {"none", "idle"} => took[a].server = Nil
Installed ==
    /\ server # Nil => srv[server] # "none"
    /\ \A a \in Closers : took[a].server # Nil => srv[took[a].server] # "none"
Bound ==
    \A r \in Runs : port[r] = "open" =>
        /\ r = run /\ start \in {"building", "announcing", "ready", "serving"}
        /\ start = "serving" => srv[r] = "serving"
Drained ==
    \A a \in Closers : took[a].server # Nil =>
        /\ at[a] = "draining" => srv[took[a].server] \in {"draining", "stopped"}
        /\ at[a] = "done" => srv[took[a].server] = "stopped" /\ took[a].server \notin rpcs

PortInv == ServerInv /\ Watchers /\ Installed /\ Bound /\ Drained

LEMMA InitPortInv == Init => PortInv
<1> SUFFICES ASSUME Init PROVE PortInv
  OBVIOUS
<1>1. \A a \in Closers : took[a].server = Nil
  BY DEF Init
<1>2. Watchers /\ Installed /\ Bound /\ Drained
  BY <1>1 DEF Init, Watchers, Unwatched, Installed, Bound, Drained
<1> QED
  BY <1>2, InitServerInv DEF PortInv

LEMMA StartPortInv ==
    ASSUME PortInv, StartBegins \/ StartStep \/ ServeFails
    PROVE  PortInv'
<1> USE DEF PortInv, Unwatched
<1>1. /\ ServerInv' /\ run \in 0..MaxRuns /\ server \in 0..MaxRuns
      /\ start # "down" => run \in Runs
      /\ port \in [Runs -> {"none", "open", "closed"}]
      /\ srv \in [Runs -> {"none", "built", "serving", "draining", "stopped"}]
      /\ at \in [Closers -> {"none", "idle", "testing", "closing", "stopping", "draining", "done"}]
      /\ \A a \in Closers : took[a].server \in 0..MaxRuns
  BY StartServerInv DEF ServerInv, TypeOK
<1>2. took' = took /\ rpcs' = rpcs
  BY DEF StartBegins, StartStep, StartListens, StartListenFails, StartCredsFail, CredsFailLeaving,
     StartInstalls, StartAnnounces, StartServes, ServeReturns, ServeFails, StartReadsServing,
     ReadsServing, StartWakes, closerVars, serverVars
<1>3. CASE StartBegins
  <2>1. /\ start = "down" /\ start' = "listening" /\ run' = run + 1
        /\ UNCHANGED <<server, port, srv, at>>
    BY <1>3 DEF StartBegins, serverVars, closerVars
  <2>2. Watchers'
    BY <1>1, <1>2, <2>1 DEF Watchers
  <2> QED
    BY <1>1, <1>2, <2>1, <2>2 DEF Installed, Bound, Drained
<1>4. CASE StartListens \/ StartListenFails \/ StartCredsFail
  <2>1. /\ start \in {"listening", "building"} /\ start' \in {"building", "down"}
        /\ start = "building" => start' = "down"
        /\ start' = "down" => \A r \in Runs : port'[r] = "open" => r # run /\ port[r] = "open"
        /\ start' = "building" => \A r \in Runs : port'[r] = "open" => r = run \/ port[r] = "open"
        /\ UNCHANGED <<server, run, srv, at>>
    <3>1. CASE StartListens
      BY <1>1, <3>1 DEF StartListens, Goes, closerVars
    <3>2. CASE StartListenFails
      BY <1>1, <3>2 DEF StartListenFails, Return, closerVars, serverVars, Bound
    <3>3. CASE StartCredsFail
      BY <1>1, <3>3 DEF StartCredsFail, CredsFailLeaving, Return, closerVars
    <3> QED
      BY <1>4, <3>1, <3>2, <3>3
  <2>2. Watchers'
    BY <1>1, <1>2, <2>1 DEF Watchers
  <2>3. Bound'
    BY <1>1, <2>1 DEF Bound
  <2> QED
    BY <1>1, <1>2, <2>1, <2>2, <2>3 DEF Installed, Drained
<1>5. CASE StartInstalls
  <2>1. /\ start = "building" /\ start' = "announcing" /\ server' = run
        /\ srv' = [srv EXCEPT ![run] = "built"]
        /\ UNCHANGED <<run, port, at>>
    BY <1>5 DEF StartInstalls, Goes, closerVars
  <2>2. \A a \in Closers : took[a].server # run
    BY <2>1 DEF ServerInv, Numbered
  <2>3. Installed' /\ Drained'
    BY <1>1, <1>2, <2>1, <2>2 DEF Installed, Drained
  <2> QED
    BY <1>1, <1>2, <2>1, <2>3 DEF Watchers, Bound
<1>6. CASE StartAnnounces
  <2>1. /\ start = "announcing" /\ start' = "ready" /\ at' = [at EXCEPT ![run] = "idle"]
        /\ UNCHANGED <<run, server, srv, port>>
    BY <1>6 DEF StartAnnounces, Goes, serverVars
  <2>2. at[run] = "none" /\ took[run].server = Nil
    BY <1>1, <2>1 DEF Watchers
  <2>3. Watchers' /\ Drained'
    BY <1>1, <1>2, <2>1, <2>2 DEF Watchers, Drained
  <2> QED
    BY <1>1, <1>2, <2>1, <2>3 DEF Installed, Bound
<1>7. CASE StartServes
  <2>1. /\ start = "ready" /\ start' \in {"serving", "failed"} /\ UNCHANGED <<server, run, at>>
        /\ \A r \in Runs : srv[r] # "none" => srv'[r] # "none"
        /\ \A r \in Runs : srv[r] \in {"draining", "stopped"} => srv'[r] = srv[r]
        /\ start' = "serving" => srv'[run] = "serving" /\ port' = port
        /\ start' = "failed" => \A r \in Runs : port'[r] = "open" => r # run /\ port[r] = "open"
    BY <1>1, <1>7 DEF StartServes, Goes, closerVars
  <2>2. Bound'
    BY <1>1, <2>1 DEF Bound
  <2>3. Installed' /\ Drained'
    BY <1>1, <1>2, <2>1 DEF Installed, Drained
  <2> QED
    BY <1>1, <1>2, <2>1, <2>2, <2>3 DEF Watchers
<1>8. CASE ServeReturns \/ ServeFails \/ StartReadsServing \/ StartWakes
  <2>1. /\ start \in {"serving", "failed", "waiting"} /\ start' \in {"failed", "waiting", "down"}
        /\ UNCHANGED <<server, run, srv, at>>
        /\ \A r \in Runs : port'[r] # "open"
    <3>1. CASE ServeReturns
      BY <1>1, <3>1 DEF ServeReturns, Goes, serverVars, closerVars, Bound
    <3>2. CASE ServeFails
      BY <1>1, <3>2 DEF ServeFails, Goes, serverVars, closerVars, Bound
    <3>3. CASE StartReadsServing \/ StartWakes
      BY <1>1, <3>3 DEF StartReadsServing, ReadsServing, StartWakes, Return, Goes, serverVars,
         closerVars, Bound
    <3> QED
      BY <1>8, <3>1, <3>2, <3>3
  <2>2. Watchers' /\ Bound'
    BY <1>1, <1>2, <2>1 DEF Watchers, Bound
  <2> QED
    BY <1>1, <1>2, <2>1, <2>2 DEF Installed, Drained
<1> QED
  BY <1>3, <1>4, <1>5, <1>6, <1>7, <1>8 DEF StartStep

LEMMA TakingPortInv == ASSUME PortInv, NEW a \in Closers, TakingStep(a) PROVE PortInv'
<1> USE DEF PortInv, Unwatched
<1>1. PICK ch \in 0..PreClosed : Takes(a, ch, PreClosed, Nil)
  BY DEF TakingStep
<1>2. /\ ServerInv' /\ run \in 0..MaxRuns
      /\ at \in [Closers -> {"none", "idle", "testing", "closing", "stopping", "draining", "done"}]
      /\ took \in [Closers -> [stopCh : 0..PreClosed, server : 0..MaxRuns]]
  BY TakingServerInv DEF ServerInv, TypeOK
<1>3. /\ server' = Nil /\ UNCHANGED <<start, run, port, srv, rpcs>>
      /\ at[a] = "idle"
      /\ \A b \in Closers : at'[b] = IF b = a THEN "testing" ELSE at[b]
      /\ \A b \in Closers : took'[b].server = IF b = a THEN server ELSE took[b].server
  BY <1>1, <1>2 DEF Takes, startVars, serverVars
<1>4. Watchers'
  BY <1>2, <1>3 DEF Watchers
<1>5. Installed' /\ Drained'
  BY <1>2, <1>3 DEF Installed, Drained
<1> QED
  BY <1>2, <1>3, <1>4, <1>5 DEF Bound

LEMMA CloserPortInv == ASSUME PortInv, NEW a \in Closers, CloserStep(a) PROVE PortInv'
<1> USE DEF PortInv, Unwatched
<1> DEFINE s == took[a].server
<1>1. /\ s \in 0..MaxRuns /\ server \in 0..MaxRuns
      /\ port \in [Runs -> {"none", "open", "closed"}]
      /\ srv \in [Runs -> {"none", "built", "serving", "draining", "stopped"}]
      /\ at \in [Closers -> {"none", "idle", "testing", "closing", "stopping", "draining", "done"}]
      /\ \A b \in Closers : took[b].server \in 0..MaxRuns
  BY DEF ServerInv, TypeOK
<1>2. ServerInv' /\ UNCHANGED <<server, start, run, took>>
  <2>1. CloserStep(a) => [Next]_vars
    BY DEF Next, WatcherStep
  <2> QED
    BY <2>1, NextServerInv DEF CloserStep, Tests, TestsElse, ClosesStopCh, StopsServer,
       ServerStops, startVars
<1>3. CASE Tests(a) \/ ClosesStopCh(a)
  <2>1. /\ at[a] \in {"testing", "closing"} /\ at'[a] \in {"closing", "stopping"}
        /\ \A b \in Closers \ {a} : at'[b] = at[b]
        /\ UNCHANGED <<port, srv, rpcs>>
    BY <1>1, <1>3 DEF Tests, TestsElse, ClosesStopCh, serverVars
  <2>2. Watchers' /\ Drained'
    BY <1>1, <1>2, <2>1 DEF Watchers, Drained
  <2> QED
    BY <1>2, <2>1, <2>2 DEF Installed, Bound
<1>4. CASE StopsServer(a)
  <2>1. /\ at[a] = "stopping" /\ at'[a] = IF s = Nil THEN "done" ELSE "draining"
        /\ \A b \in Closers \ {a} : at'[b] = at[b]
        /\ rpcs' = rpcs
    BY <1>1, <1>4 DEF StopsServer
  <2>2. /\ s = Nil => UNCHANGED <<port, srv>>
        /\ \A r \in Runs : r # s => srv'[r] = srv[r] /\ port'[r] = port[r]
        /\ s # Nil => /\ srv[s] \in {"built", "serving"} => srv'[s] = "draining"
                      /\ srv[s] \in {"draining", "stopped"} => srv'[s] = srv[s]
                      /\ srv[s] = "serving" => port'[s] = "closed"
                      /\ srv[s] # "serving" => port'[s] = port[s]
    BY <1>1, <1>4 DEF StopsServer, StopsServing
  <2>3. Watchers'
    BY <1>1, <1>2, <2>1 DEF Watchers
  <2>4. \A r \in Runs : /\ srv[r] # "none" => srv'[r] # "none"
                        /\ srv[r] \in {"draining", "stopped"} => srv'[r] = srv[r]
    BY <1>1, <2>2
  <2>7. Installed' /\ (s # Nil => srv'[s] \in {"draining", "stopped"})
    BY <1>1, <1>2, <2>2, <2>4 DEF Installed
  <2>9. ASSUME NEW b \in Closers, NEW t \in Runs, t = took[b].server
        PROVE  /\ at'[b] = "draining" => srv'[t] \in {"draining", "stopped"}
               /\ at'[b] = "done" => srv'[t] = "stopped" /\ t \notin rpcs
    <3>1. /\ at[b] = "draining" => srv[t] \in {"draining", "stopped"}
          /\ at[b] = "done" => srv[t] = "stopped" /\ t \notin rpcs
      BY <2>9 DEF Drained
    <3>2. CASE b = a
      BY <2>1, <2>7, <2>9, <3>2
    <3>3. CASE b # a
      BY <1>1, <2>1, <2>4, <2>9, <3>1, <3>3
    <3> QED
      BY <3>2, <3>3
  <2>8. Drained'
    <3>1. \A b \in Closers : took[b].server # Nil => took[b].server \in Runs
      BY <1>1
    <3> QED
      BY <1>2, <2>1, <2>9, <3>1 DEF Drained
  <2>5. ASSUME NEW r \in Runs, port'[r] = "open"
        PROVE  /\ r = run /\ start \in {"building", "announcing", "ready", "serving"}
               /\ start = "serving" => srv'[r] = "serving"
    <3>1. CASE r = s
      BY <2>2, <2>5, <3>1 DEF Bound
    <3>2. CASE r # s
      BY <2>2, <2>5, <3>2 DEF Bound
    <3> QED
      BY <3>1, <3>2
  <2>6. Bound'
    BY <1>2, <2>5 DEF Bound
  <2> QED
    BY <1>2, <2>3, <2>6, <2>7, <2>8
<1>5. CASE ServerStops(a)
  <2>1. /\ at[a] = "draining" /\ at'[a] = "done"
        /\ \A b \in Closers \ {a} : at'[b] = at[b]
        /\ port' = port /\ rpcs' = rpcs \ {s}
        /\ \A r \in Runs : srv'[r] = IF r = s THEN "stopped" ELSE srv[r]
    BY <1>1, <1>5 DEF ServerStops
  <2>2. Watchers' /\ Installed'
    BY <1>1, <1>2, <2>1 DEF Watchers, Installed
  <2>5. ASSUME NEW b \in Closers, took[b].server # Nil
        PROVE  /\ at'[b] = "draining" => srv'[took[b].server] \in {"draining", "stopped"}
               /\ at'[b] = "done" =>
                      srv'[took[b].server] = "stopped" /\ took[b].server \notin rpcs'
    <3>1. CASE b = a
      BY <1>1, <2>1, <2>5, <3>1
    <3>2. CASE b # a
      BY <1>1, <2>1, <2>5, <3>2 DEF Drained
    <3> QED
      BY <3>1, <3>2
  <2>6. Drained'
    BY <1>2, <2>5 DEF Drained
  <2>3. s # Nil => srv[s] \in {"draining", "stopped"}
    BY <2>1 DEF Drained
  <2>4. Bound'
    BY <1>1, <1>2, <2>1, <2>3 DEF Bound
  <2> QED
    BY <1>2, <2>2, <2>4, <2>6
<1> QED
  BY <1>3, <1>4, <1>5 DEF CloserStep

LEMMA NextPortInv == PortInv /\ [Next]_vars => PortInv'
<1> SUFFICES ASSUME PortInv, [Next]_vars PROVE PortInv'
  OBVIOUS
<1> USE DEF PortInv, Unwatched
<1>1. TypeOK /\ ServerInv'
  BY NextServerInv DEF ServerInv
<1>2. ASSUME UNCHANGED <<server, start, run, port, srv, at, took>>,
             \A a \in Closers : took[a].server # Nil /\ srv[took[a].server] = "stopped"
                                    /\ took[a].server \notin rpcs => took[a].server \notin rpcs'
      PROVE  PortInv'
  BY <1>1, <1>2 DEF Watchers, Installed, Bound, Drained
<1>3. CASE UNCHANGED vars \/ SupervisorCancels
  BY <1>2, <1>3 DEF vars, SupervisorCancels, startVars, serverVars, closerVars
<1>4. ASSUME NEW r \in Runs, RpcBegins(r) \/ RpcEnds(r) PROVE PortInv'
  BY <1>2, <1>4 DEF RpcBegins, RpcEnds, startVars, closerVars
<1>5. ASSUME NEW r \in Runs, WatcherLeaves(r) PROVE PortInv'
  <2>1. /\ at[r] = "idle" /\ UNCHANGED <<server, start, run, port, srv, rpcs, took>>
        /\ \A a \in Closers : at'[a] = IF a = r THEN "done" ELSE at[a]
    BY <1>1, <1>5 DEF WatcherLeaves, startVars, serverVars, TypeOK
  <2> QED
    BY <1>1, <2>1 DEF Watchers, Installed, Bound, Drained
<1> QED
  BY <1>1, <1>3, <1>4, <1>5, StartPortInv, TakingPortInv, CloserPortInv, Steps DEF AroundStep

\* The strengthening the next two theorems rest on: who watches, holds and drains
\* the server of which run.
THEOREM PortInvariant == Spec => []PortInv
BY InitPortInv, NextPortInv, PTL DEF Spec

\* When Start has returned, for whatever reason, no run has a port open: the
\* restart that follows can listen.
THEOREM StartReleasesPorts == Spec => []PortReleased
<1>1. PortInv => PortReleased
  BY DEF PortInv, Bound, PortReleased
<1> QED
  BY <1>1, PortInvariant, PTL

\* A Stop or watcher that is done leaves no RPC in flight on the server it took,
\* and no port but the one Serve is about to be handed and close.
THEOREM StopLeavesQuiet == Spec => []StoppedIsQuiet
<1>1. PortInv => StoppedIsQuiet
  <2> SUFFICES ASSUME PortInv, NEW a \in Closers, at[a] = "done", took[a].server # Nil
               PROVE  /\ took[a].server \notin rpcs
                      /\ port[took[a].server] = "open" =>
                             start \in {"announcing", "ready"} /\ run = took[a].server
    BY DEF StoppedIsQuiet
  <2>1. took[a].server \in Runs
    BY DEF PortInv, ServerInv, TypeOK
  <2> QED
    BY <2>1 DEF PortInv, ServerInv, Numbered, Bound, Drained
<1> QED
  BY <1>1, PortInvariant, PTL

-----------------------------------------------------------------------------
(* The stop channels: one that is closed belongs to a run that was asked   *)
(* to end, and those of runs to come are in nobody's hands.                *)

Channels ==
    /\ cancelled \subseteq 1..run
    /\ stopCh <= run \/ stopCh = PreClosed
    /\ \A p \in Stoppers : took[p].stopCh <= run \/ took[p].stopCh = PreClosed
    /\ \A r \in Runs : took[r].stopCh = PreClosed \/ took[r].stopCh \in cancelled
    /\ \A c \in stopClosed : c = PreClosed \/ c \in cancelled \/ \E p \in Stoppers : Took(p, c)

ChannelInv == TypeOK /\ Channels

LEMMA InitChannelInv == Init => ChannelInv
<1> SUFFICES ASSUME Init PROVE ChannelInv
  OBVIOUS
<1>1. \A a \in Closers : took[a].stopCh = PreClosed
  BY DEF Init
<1>2. Channels
  BY <1>1 DEF Init, Channels
<1> QED
  BY <1>2, InitTypeOK DEF ChannelInv

\* What a request to end a run needs, once made, nothing takes back.
LEMMA AskedStays ==
    ASSUME TypeOK, [Next]_vars
    PROVE  /\ cancelled \subseteq cancelled'
           /\ \A p \in Stoppers : \A c : Took(p, c) => Took(p, c)'
<1> USE DEF TypeOK, Took
<1>1. CASE UNCHANGED vars \/ AroundStep
  BY <1>1 DEF vars, AroundStep, SupervisorCancels, RpcBegins, RpcEnds, closerVars
<1>2. CASE StartBegins \/ StartStep \/ ServeFails
  <2>1. cancelled' = cancelled /\ took' = took
        /\ (at' = at \/ (run \in Runs /\ at' = [at EXCEPT ![run] = "idle"]))
    BY <1>2 DEF StartBegins, StartStep, StartListens, StartListenFails, StartCredsFail,
       CredsFailLeaving, StartInstalls, StartAnnounces, StartServes, ServeReturns, ServeFails,
       StartReadsServing, ReadsServing, StartWakes, Goes, closerVars
  <2> QED
    BY <2>1
<1>3. ASSUME NEW a \in Closers, TakingStep(a)
      PROVE  /\ cancelled \subseteq cancelled'
             /\ \A p \in Stoppers : \A c : Took(p, c) => Took(p, c)'
  BY <1>3 DEF TakingStep, Takes
<1>4. ASSUME NEW a \in Closers, CloserStep(a)
      PROVE  /\ cancelled \subseteq cancelled'
             /\ \A p \in Stoppers : \A c : Took(p, c) => Took(p, c)'
  BY <1>4 DEF CloserStep, Tests, TestsElse, ClosesStopCh, StopsServer, ServerStops
<1>5. ASSUME NEW r \in Runs, WatcherLeaves(r)
      PROVE  /\ cancelled \subseteq cancelled'
             /\ \A p \in Stoppers : \A c : Took(p, c) => Took(p, c)'
  BY <1>5 DEF WatcherLeaves
<1> QED
  BY <1>1, <1>2, <1>3, <1>4, <1>5, Steps

LEMMA NextChannelInv == ChannelInv /\ [Next]_vars => ChannelInv'
<1> SUFFICES ASSUME ChannelInv, [Next]_vars PROVE ChannelInv'
  OBVIOUS
<1>1. /\ TypeOK /\ TypeOK' /\ run \in 0..MaxRuns /\ stopCh \in 0..PreClosed
      /\ \A a \in Closers : took[a].stopCh \in 0..PreClosed
      /\ took \in [Closers -> [stopCh : 0..PreClosed, server : 0..MaxRuns]]
  BY NextTypeOK DEF ChannelInv, TypeOK
<1>2. /\ cancelled \subseteq cancelled'
      /\ \A p \in Stoppers : \A c : Took(p, c) => Took(p, c)'
  BY <1>1, AskedStays
<1>3. ASSUME UNCHANGED <<run, stopCh, took, stopClosed>>, cancelled' \subseteq 1..run
      PROVE  ChannelInv'
  <2>1. \A c \in stopClosed : c = PreClosed \/ c \in cancelled' \/ \E p \in Stoppers : Took(p, c)'
    BY <1>2 DEF ChannelInv, Channels
  <2> QED
    BY <1>1, <1>2, <1>3, <2>1 DEF ChannelInv, Channels
<1>4. CASE UNCHANGED vars \/ AroundStep
  <2>1. /\ UNCHANGED <<run, stopCh, took, stopClosed>>
        /\ cancelled' = cancelled \/ (run # 0 /\ cancelled' = cancelled \cup {run})
    BY <1>4 DEF vars, AroundStep, SupervisorCancels, RpcBegins, RpcEnds, startVars, closerVars
  <2>2. cancelled' \subseteq 1..run
    <3>1. cancelled \subseteq 1..run /\ (run # 0 => run \in 1..run)
      BY <1>1 DEF ChannelInv, Channels
    <3> QED
      BY <2>1, <3>1
  <2> QED
    BY <1>3, <2>1, <2>2
<1>5. CASE StartBegins
  <2>1. /\ run' = run + 1 /\ stopCh' = run + 1 /\ UNCHANGED <<cancelled, took, stopClosed>>
    BY <1>5 DEF StartBegins, closerVars
  <2>2. \A c \in stopClosed : c = PreClosed \/ c \in cancelled' \/ \E p \in Stoppers : Took(p, c)'
    BY <1>2, <2>1 DEF ChannelInv, Channels
  <2> QED
    BY <1>1, <2>1, <2>2 DEF ChannelInv, Channels
<1>6. CASE StartStep \/ ServeFails
  <2>1. UNCHANGED <<run, stopCh, took, stopClosed, cancelled>>
    BY <1>6 DEF StartStep, StartListens, StartListenFails, StartCredsFail,
       CredsFailLeaving, StartInstalls, StartAnnounces, StartServes, ServeReturns, ServeFails,
       StartReadsServing, ReadsServing, StartWakes, Goes, Return, closerVars
  <2> QED
    BY <1>3, <2>1 DEF ChannelInv, Channels
<1>7. ASSUME NEW a \in Closers, TakingStep(a) PROVE ChannelInv'
  <2>1. PICK ch \in 0..PreClosed : /\ Takes(a, ch, PreClosed, Nil)
                                   /\ a \in Stoppers => ch = stopCh
                                   /\ a \in Runs => ch = a /\ a \in cancelled
    BY <1>7 DEF TakingStep
  <2>2. /\ stopCh' = PreClosed /\ UNCHANGED <<run, stopClosed, cancelled>>
        /\ \A b \in Closers : took'[b].stopCh = IF b = a THEN ch ELSE took[b].stopCh
    BY <1>1, <2>1 DEF Takes, startVars
  <2>3. \A c \in stopClosed : c = PreClosed \/ c \in cancelled' \/ \E p \in Stoppers : Took(p, c)'
    BY <1>2 DEF ChannelInv, Channels
  <2> QED
    BY <1>1, <2>1, <2>2, <2>3 DEF ChannelInv, Channels
<1>8. ASSUME NEW a \in Closers, CloserStep(a) PROVE ChannelInv'
  <2>1. CASE ClosesStopCh(a)
    <3>1. /\ at[a] = "closing" /\ UNCHANGED <<run, stopCh, took, cancelled>>
          /\ stopClosed' = stopClosed \cup {took[a].stopCh}
      BY <2>1 DEF ClosesStopCh, startVars
    <3>2. \/ a \in Stoppers /\ Took(a, took[a].stopCh)
          \/ took[a].stopCh = PreClosed \/ took[a].stopCh \in cancelled
      BY <3>1 DEF Took, ChannelInv, Channels
    <3>3. \A c \in stopClosed' : c = PreClosed \/ c \in cancelled' \/ \E p \in Stoppers : Took(p, c)'
      BY <1>2, <3>1, <3>2 DEF ChannelInv, Channels
    <3> QED
      BY <1>1, <3>1, <3>3 DEF ChannelInv, Channels
  <2>2. CASE ~ClosesStopCh(a)
    <3>1. UNCHANGED <<run, stopCh, took, stopClosed, cancelled>>
      BY <1>8, <2>2 DEF CloserStep, Tests, TestsElse, StopsServer, ServerStops, startVars
    <3> QED
      BY <1>3, <3>1 DEF ChannelInv, Channels
  <2> QED
    BY <2>1, <2>2
<1>9. ASSUME NEW r \in Runs, WatcherLeaves(r) PROVE ChannelInv'
  <2>1. UNCHANGED <<run, stopCh, took, stopClosed, cancelled>>
    BY <1>9 DEF WatcherLeaves, startVars
  <2> QED
    BY <1>3, <2>1 DEF ChannelInv, Channels
<1> QED
  BY <1>1, <1>4, <1>5, <1>6, <1>7, <1>8, <1>9, Steps

-----------------------------------------------------------------------------
(* The contract with the supervisor, step by step.                         *)

Phase == CASE start = "down" -> "down"
           [] start \in {"listening", "building", "announcing"} -> "starting"
           [] OTHER -> "ready"
Outcome == IF start = "down" /\ run # 0 THEN result[run] ELSE "none"

ContractStep == [Contract!Next]_(Contract!vars)

\* A step that Start does not notice asks it to end, or changes nothing.
LEMMA AsideStep ==
    ASSUME UNCHANGED <<start, run, result>>, Asked(run) => Asked(run)'
    PROVE  ContractStep
<1>1. Phase' = Phase /\ Outcome' = Outcome
  BY DEF Phase, Outcome
<1>2. Asked(run) \in BOOLEAN /\ Asked(run)' \in BOOLEAN
  BY DEF Asked
<1>3. Asked(run)' = TRUE \/ Asked(run)' = Asked(run)
  BY <1>2
<1> QED
  BY <1>1, <1>3 DEF ContractStep, Contract!Next, Contract!Ask, Contract!vars, Phase, Outcome

LEMMA BeginsStep == ASSUME ChannelInv, StartBegins PROVE ContractStep
<1>1. /\ start = "down" /\ start' = "listening" /\ run' = run + 1 /\ run \in 0..MaxRuns
      /\ run < MaxRuns /\ UNCHANGED <<cancelled, at, took>>
  BY DEF StartBegins, closerVars, ChannelInv, TypeOK
<1>2. run + 1 \notin cancelled /\ \A p \in Stoppers : ~Took(p, run + 1)
  BY <1>1 DEF ChannelInv, Channels, Took
<1>3. Asked(run)' = FALSE
  BY <1>1, <1>2 DEF Asked, Took
<1> QED
  BY <1>1, <1>3 DEF ContractStep, Contract!Next, Contract!Begin

\* Start returns: nil only if it was asked.
LEMMA ReturnsStep ==
    ASSUME ChannelInv, NEW res \in {"nil", "error"}, Return(res), start # "down",
           UNCHANGED <<cancelled, at, took>>,
           res = "nil" => Asked(run)
    PROVE  ContractStep
<1>1. start' = "down" /\ run' = run /\ run # 0 /\ result'[run] = res
  BY DEF Return, ChannelInv, TypeOK
<1>2. Asked(run)' = Asked(run)
  BY <1>1 DEF Asked, Took
<1>3. CASE res = "nil"
  BY <1>1, <1>2, <1>3 DEF ContractStep, Contract!Next, Contract!End
<1>4. CASE res # "nil"
  BY <1>1, <1>2, <1>4 DEF ContractStep, Contract!Next, Contract!Fail
<1> QED
  BY <1>3, <1>4

LEMMA StartContract == ASSUME ChannelInv, StartStep \/ ServeFails PROVE ContractStep
<1>1. CASE StartListenFails \/ StartCredsFail
  <2>1. Return("error") /\ start # "down" /\ UNCHANGED <<cancelled, at, took>>
    BY <1>1 DEF StartListenFails, StartCredsFail, CredsFailLeaving, closerVars
  <2> QED
    BY <2>1, ReturnsStep
<1>2. CASE StartWakes
  <2>1. /\ Return("nil") /\ start = "waiting" /\ UNCHANGED <<cancelled, at, took>>
        /\ run \in stopClosed \/ run \in cancelled
        /\ run \in 0..MaxRuns
    BY <1>2 DEF StartWakes, closerVars, ChannelInv, TypeOK
  <2>2. Asked(run)
    BY <2>1 DEF ChannelInv, Channels, Asked
  <2> QED
    BY <2>1, <2>2, ReturnsStep
<1>3. ASSUME UNCHANGED <<run, result, cancelled, took>>,
             \A p \in Stoppers : at'[p] = at[p],
             \/ start \in {"listening", "building"} /\ start' \in {"building", "announcing"}
             \/ start \in {"ready", "serving", "failed"} /\ start' \in {"serving", "failed", "waiting"}
      PROVE  ContractStep
  <2>1. Asked(run)' = Asked(run)
    BY <1>3 DEF Asked, Took
  <2>2. Phase' = Phase /\ Outcome' = Outcome
    BY <1>3 DEF Phase, Outcome
  <2> QED
    BY <2>1, <2>2 DEF ContractStep, Contract!vars, Phase, Outcome
<1>4. CASE StartListens \/ StartInstalls
  BY <1>3, <1>4 DEF StartListens, StartInstalls, Goes, closerVars
<1>5. CASE StartServes \/ ServeReturns \/ ServeFails
  BY <1>3, <1>5 DEF StartServes, ServeReturns, ServeFails, Goes, closerVars
<1>6. CASE StartReadsServing
  <2>1. CASE Return("error")
    BY <1>6, <2>1, ReturnsStep DEF StartReadsServing, ReadsServing, Goes, closerVars
  <2>2. CASE ~Return("error")
    BY <1>3, <1>6, <2>2 DEF StartReadsServing, ReadsServing, Goes, closerVars
  <2> QED
    BY <2>1, <2>2
<1>7. CASE StartAnnounces
  <2>1. /\ start = "announcing" /\ start' = "ready" /\ run \in Runs
        /\ UNCHANGED <<run, result, cancelled, took>> /\ at' = [at EXCEPT ![run] = "idle"]
    BY <1>7 DEF StartAnnounces, Goes, ChannelInv, TypeOK
  <2>2. \A p \in Stoppers : at'[p] = at[p]
    BY <2>1 DEF ChannelInv, TypeOK
  <2>3. Asked(run)' = Asked(run)
    BY <2>1, <2>2 DEF Asked, Took
  <2> QED
    BY <2>1, <2>3 DEF ContractStep, Contract!Next, Contract!Ready
<1> QED
  BY <1>1, <1>2, <1>4, <1>5, <1>6, <1>7 DEF StartStep

LEMMA NextContract == ChannelInv /\ [Next]_vars => ContractStep
<1> SUFFICES ASSUME ChannelInv, [Next]_vars PROVE ContractStep
  OBVIOUS
<1>1. TypeOK
  BY DEF ChannelInv
<1>2. UNCHANGED run => (Asked(run) => Asked(run)')
  BY <1>1, AskedStays DEF Asked
<1>3. ASSUME UNCHANGED <<start, run, result>> PROVE ContractStep
  BY <1>2, <1>3, AsideStep
<1>4. CASE UNCHANGED vars \/ AroundStep
  BY <1>3, <1>4 DEF vars, AroundStep, SupervisorCancels, RpcBegins, RpcEnds, startVars
<1>5. ASSUME NEW a \in Closers, TakingStep(a) \/ CloserStep(a) PROVE ContractStep
  BY <1>3, <1>5 DEF TakingStep, Takes, CloserStep, Tests, TestsElse, ClosesStopCh, StopsServer,
     ServerStops, startVars
<1>6. ASSUME NEW r \in Runs, WatcherLeaves(r) PROVE ContractStep
  BY <1>3, <1>6 DEF WatcherLeaves, startVars
<1> QED
  BY <1>1, <1>4, <1>5, <1>6, BeginsStep, StartContract, Steps

\* The server keeps its contract with the supervisor: Start returns nil only when
\* its context or a Stop asked it to end, though the watchers of earlier runs
\* close channels and take servers too.
THEOREM ImplementsContract == Spec => KeepsContract
<1>1. Init => Contract!Init
  <2> SUFFICES ASSUME Init PROVE Contract!Init
    OBVIOUS
  <2>1. Asked(run) \in BOOLEAN
    BY DEF Asked
  <2> QED
    BY <2>1 DEF Init, Contract!Init
<1>2. Spec => []ChannelInv
  BY InitChannelInv, NextChannelInv, PTL DEF Spec
<1> QED
  BY <1>1, <1>2, NextContract, PTL DEF Spec, KeepsContract, Contract!Spec, ContractStep

-----------------------------------------------------------------------------
(* The three servers side by side, as they are model-checked: what is      *)
(* proved of each of them holds of the composed behaviours.                *)

\* Refinement: each of the three servers, seen alone in the composition, behaves as
\* its own specification says; the steps of the others leave it where it is.
THEOREM EachServerBehaves == MCSpec => Spec /\ F!Spec /\ P!Spec
<1>1. MCInit => Init /\ F!Init /\ P!Init
  BY DEF MCInit
<1>2. UNCHANGED fVars => UNCHANGED F!vars
  BY DEF fVars, F!vars, F!startVars, F!serverVars, F!ctxVars, F!closerVars
<1>3. UNCHANGED pVars => UNCHANGED P!vars
  BY DEF pVars, P!vars, P!startVars, P!serverVars, P!ctxVars, P!stopVars
<1>4. [MCNext]_<<kind, vars, fVars, pVars>> => [Next]_vars /\ [F!Next]_F!vars /\ [P!Next]_P!vars
  BY <1>2, <1>3 DEF MCNext
<1> QED
  BY <1>1, <1>4, PTL DEF MCSpec, Spec, F!Spec, P!Spec

\* fiber: a run that serves requests is the one Stop finds and Health reports,
\* whatever Stop and the watchers of earlier runs do.
THEOREM ComposedServingIsPublished == MCSpec => []ServingIsPublished
<1>1. F!Spec => []F!ServingIsPublished
  BY F!ServingStaysPublished, Assumption DEF F!Assumption, F!Runs
<1> QED
  BY <1>1, EachServerBehaves, PTL DEF ServingIsPublished

\* prometheus: a bound port has somebody to close it.
THEOREM ComposedPortsAreOwned == MCSpec => []PortOwned
<1>1. P!Spec => []P!PortOwned
  BY P!PortsAreOwned, Assumption DEF P!Assumption, P!Runs
<1> QED
  BY <1>1, EachServerBehaves, PTL DEF PortOwned

\* prometheus: Health answers for the port it speaks of.
THEOREM ComposedHealthTells == MCSpec => []HealthyIsBound
<1>1. P!Spec => []P!HealthyIsBound
  BY P!HealthTells, Assumption DEF P!Assumption, P!Runs
<1> QED
  BY <1>1, EachServerBehaves, PTL DEF HealthyIsBound

\* prometheus: Stop calls that test and close the stop channel in any order never
\* close it twice.
THEOREM ComposedStopIsConcurrencySafe == MCSpec => []StopsCloseOnce
<1>1. P!Spec => []P!NoDoubleClose
  BY P!StopIsConcurrencySafe, Assumption DEF P!Assumption, P!Runs
<1> QED
  BY <1>1, EachServerBehaves, PTL DEF StopsCloseOnce

\* fiber and prometheus return nil from Start only when asked.
THEOREM HttpImplementsContract == MCSpec => HttpKeepsContract
<1>1. F!Spec => F!KeepsContract
  BY F!ImplementsContract, Assumption DEF F!Assumption, F!Runs
<1>2. P!Spec => P!KeepsContract
  BY P!ImplementsContract, Assumption DEF P!Assumption, P!Runs
<1> QED
  BY <1>1, <1>2, EachServerBehaves, PTL DEF HttpKeepsContract

=============================================================================
