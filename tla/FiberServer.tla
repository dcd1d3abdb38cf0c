----------------------------- MODULE FiberServer -----------------------------
(***************************************************************************)
(* The life of fiber.Component: Start, the goroutine it leaves to watch    *)
(* its context, Stop and Health, over the fields guarded by mu.            *)
(*                                                                         *)
(* Run r of Start builds app r and, once it publishes it, allocates stopCh *)
(* r; 0 is nil, and stopCh 0 the one New allocates.  A call of Stop and    *)
(* the watcher of run r, which is named r, shut an app down in the same    *)
(* steps.                                                                  *)
(***************************************************************************)
EXTENDS ComponentRuns

Closers == Stoppers \cup Runs

VARIABLES
    app,         \* c.app
    listening,   \* c.listening
    stopCh,      \* c.stopCh
    start,       \* where the goroutine running Start is
    run,         \* number of the current, or last, run
    result,      \* what each run of Start returned
    port,        \* the socket of each app
    srv,         \* the HTTP server inside each app
    cancelled,   \* runs whose context is cancelled
    stopClosed,  \* stop channels that are closed
    at,          \* where each closer is
    took,        \* the app each closer shuts down
    watched      \* the stopCh the watcher of each run waits for

startVars  == <<start, run, result>>
serverVars == <<port, srv>>
ctxVars    == <<cancelled, stopClosed>>
closerVars == <<at, took, watched>>
vars == <<app, listening, stopCh, startVars, serverVars, ctxVars, closerVars>>

TypeOK ==
    /\ app \in 0..MaxRuns /\ listening \in BOOLEAN /\ stopCh \in 0..MaxRuns
    /\ start \in {"down", "building", "binding", "announcing", "accepting", "serving"}
    /\ run \in 0..MaxRuns /\ (start # "down" => run # 0)
    /\ result \in [Runs -> {"none", "nil", "error"}]
    /\ port \in [Runs -> {"none", "open", "closed"}]
    /\ srv \in [Runs -> {"none", "serving", "broken", "draining", "stopped"}]
    /\ cancelled \subseteq Runs /\ stopClosed \subseteq 0..MaxRuns
    /\ at \in [Closers -> {"none", "idle", "shutting", "draining", "missed", "done"}]
    /\ took \in [Closers -> 0..MaxRuns] /\ watched \in [Runs -> 0..MaxRuns]

Init ==
    /\ app = Nil /\ listening = FALSE /\ stopCh = 0
    /\ start = "down" /\ run = 0
    /\ result = [r \in Runs |-> "none"]
    /\ port = [r \in Runs |-> "none"] /\ srv = [r \in Runs |-> "none"]
    /\ cancelled = {} /\ stopClosed = {}
    /\ at = [a \in Closers |-> IF a \in Runs THEN "none" ELSE "idle"]
    /\ took = [a \in Closers |-> Nil] /\ watched = [r \in Runs |-> 0]

-----------------------------------------------------------------------------
(* Start.                                                                  *)

\* The supervisor calls Start again once the previous call has returned and its
\* context is cancelled.  Start builds the app: middleware, /health, routes.
StartBegins ==
    /\ start = "down" /\ run < MaxRuns
    /\ run # 0 => run \in cancelled
    /\ run' = run + 1
    /\ start' = "building"
    /\ UNCHANGED <<app, listening, stopCh, result, serverVars, ctxVars, closerVars>>

\* The app is published, with stopCh ch, and its watcher started.
PublishesWith(ch) ==
    /\ start = "building" /\ start' = "binding"
    /\ app' = run /\ stopCh' = ch
    /\ at' = [at EXCEPT ![run] = "idle"]
    /\ took' = [took EXCEPT ![run] = run] /\ watched' = [watched EXCEPT ![run] = ch]
    /\ UNCHANGED <<listening, run, result, serverVars, ctxVars>>

\* Bug: the stopCh of the previous run, closed perhaps, serves this one too.
PublishesOldStopCh == PublishesWith(stopCh)

StartPublishes == PublishesWith(run)

StartBinds ==
    /\ start = "binding" /\ start' = "announcing"
    /\ \A r \in Runs : port[r] # "open"
    /\ port' = [port EXCEPT ![run] = "open"]
    /\ UNCHANGED <<app, listening, stopCh, run, result, srv, ctxVars, closerVars>>

Return(res) ==
    /\ start' = "down"
    /\ result' = [result EXCEPT ![run] = res]
    /\ UNCHANGED run

\* Listen returns an error: the port is taken.
StartBindFails ==
    /\ start = "binding"
    /\ Return("error")
    /\ app' = Nil
    /\ UNCHANGED <<listening, stopCh, serverVars, ctxVars, closerVars>>

\* The OnListen hook, and ready().
StartAnnounces ==
    /\ start = "announcing" /\ start' = "accepting"
    /\ listening' = TRUE
    /\ UNCHANGED <<app, stopCh, run, result, serverVars, ctxVars, closerVars>>

\* The server takes the listener; until then Shutdown finds none to close.
StartAccepts ==
    /\ start = "accepting" /\ start' = "serving"
    /\ srv' = [srv EXCEPT ![run] = "serving"]
    /\ UNCHANGED <<app, listening, stopCh, run, result, port, ctxVars, closerVars>>

\* Accept fails for good: Listen returns an error, and neither closes the listener.
\* Start does not reset listening.
ServeFails ==
    /\ start = "serving" /\ srv[run] = "serving"
    /\ Return("error")
    /\ app' = Nil
    /\ srv' = [srv EXCEPT ![run] = "broken"]
    /\ UNCHANGED <<listening, stopCh, port, ctxVars, closerVars>>

\* A shutdown closed the listener: Listen returns nil, perhaps before the
\* requests are drained.  kept is what Start leaves in c.app.
EndsWith(kept) ==
    /\ start = "serving" /\ srv[run] \in {"draining", "stopped"}
    /\ Return("nil")
    /\ listening' = FALSE /\ app' = kept
    /\ UNCHANGED <<stopCh, serverVars, ctxVars, closerVars>>

\* Bug: the app of a finished run stays.
EndsKeepingApp == EndsWith(app)

StartEnds == EndsWith(Nil)

-----------------------------------------------------------------------------
(* Stop and the watchers.                                                  *)

\* The critical section; stopCh is closed inside it, unless it is closed.
StopTakes(p) ==
    /\ at[p] = "idle"
    /\ took' = [took EXCEPT ![p] = app]
    /\ at' = [at EXCEPT ![p] = IF app = Nil THEN "done" ELSE "shutting"]
    /\ stopClosed' = stopClosed \cup {stopCh}
    /\ UNCHANGED <<app, listening, stopCh, startVars, serverVars, cancelled, watched>>

\* case <-ctx.Done(): s is the app to shut down.
WakesFor(r, s) ==
    /\ at[r] = "idle" /\ r \in cancelled
    /\ at' = [at EXCEPT ![r] = "shutting"]
    /\ took' = [took EXCEPT ![r] = s]
    /\ UNCHANGED <<app, listening, stopCh, startVars, serverVars, ctxVars, watched>>

\* Bug: the watcher shuts down what the component holds, not the app of its run.
WakesForCurrent(r) == app # Nil /\ WakesFor(r, app)

WatcherWakes(r) == WakesFor(r, r)

\* case <-stopCh: the watcher returns.
WatcherLeaves(r) ==
    /\ at[r] = "idle" /\ watched[r] \in stopClosed
    /\ at' = [at EXCEPT ![r] = "done"]
    /\ UNCHANGED <<app, listening, stopCh, startVars, serverVars, ctxVars, took, watched>>

\* ShutdownWithContext closes the listener the server has taken, though Serve broke,
\* and drains.  A server that has taken none it leaves alone: the closer returns
\* nil and has missed it.  It waits for a shutdown that is under way.
ShutsDown(a) ==
    LET s == took[a] IN
    /\ at[a] = "shutting" /\ srv[s] # "draining"
    /\ IF srv[s] \in {"serving", "broken"}
       THEN /\ srv' = [srv EXCEPT ![s] = "draining"]
            /\ port' = [port EXCEPT ![s] = "closed"]
            /\ at' = [at EXCEPT ![a] = "draining"]
       ELSE /\ at' = [at EXCEPT ![a] = IF srv[s] = "none" THEN "missed" ELSE "done"]
            /\ UNCHANGED serverVars
    /\ UNCHANGED <<app, listening, stopCh, startVars, ctxVars, took, watched>>

\* The requests are drained, or the deadline has passed.
DrainEnds(a) ==
    /\ at[a] = "draining"
    /\ at' = [at EXCEPT ![a] = "done"]
    /\ srv' = [srv EXCEPT ![took[a]] = "stopped"]
    /\ UNCHANGED <<app, listening, stopCh, startVars, port, ctxVars, took, watched>>

-----------------------------------------------------------------------------
SupervisorCancels ==
    /\ run # 0 /\ run \notin cancelled
    /\ cancelled' = cancelled \cup {run}
    /\ UNCHANGED <<app, listening, stopCh, startVars, serverVars, stopClosed, closerVars>>

-----------------------------------------------------------------------------
StartStep ==
    \/ StartPublishes \/ StartBinds \/ StartBindFails
    \/ StartAnnounces \/ StartAccepts \/ StartEnds

CloserStep(a) == ShutsDown(a) \/ DrainEnds(a)

WatcherStep(r) == WatcherWakes(r) \/ WatcherLeaves(r) \/ CloserStep(r)

Next ==
    \/ StartBegins \/ StartStep \/ ServeFails \/ SupervisorCancels
    \/ \E p \in Stoppers : StopTakes(p) \/ CloserStep(p)
    \/ \E r \in Runs : WatcherStep(r)

Spec == Init /\ [][Next]_vars

(* Goroutines run, and a drain ends at its deadline at the latest.  Nobody *)
(* has to call Start or Stop or cancel a context.                          *)
Fairness ==
    /\ WF_vars(StartStep)
    /\ \A p \in Stoppers : WF_vars(CloserStep(p))
    /\ \A r \in Runs : WF_vars(WatcherStep(r))

FairSpec == Spec /\ Fairness

-----------------------------------------------------------------------------
(* Safety.                                                                 *)

\* What Health answers: the flag, then the probe of the built-in /health.
Healthy == listening /\ \E r \in Runs : port[r] = "open" /\ srv[r] = "serving"

Missed(r) == \E a \in Closers : at[a] = "missed" /\ took[a] = r

\* The watcher of run r waits, somebody is shutting its app down, or has missed it;
\* or a Stop that found no app has released the watcher.
Attended(r) ==
    \/ at[r] = "idle" \/ Missed(r)
    \/ \E a \in Closers : at[a] = "shutting" /\ took[a] = r
    \/ r \in stopClosed /\ \E p \in Stoppers : at[p] = "done" /\ took[p] = Nil

\* A run that serves requests is the one Stop finds and reports healthy, whatever
\* Stop and the watchers of earlier runs still do; and Start leaves neither an
\* app for App() to return nor, unless Serve broke, the listening flag.  A port
\* stays bound after Start only when Serve broke, and then until the shutdown of
\* the watcher or of a Stop that took the app: for ever, if these missed the
\* server, or a Stop after Serve broke closed stopCh and found no app to shut down.
ServingIsPublished ==
    /\ \A r \in Runs : srv[r] = "serving" => start = "serving" /\ run = r /\ app = r /\ Healthy
    /\ start = "down" =>
        /\ app = Nil
        /\ run # 0 => (result[run] = "nil" => ~listening)
    /\ \A r \in Runs : port[r] = "open" =>
        \/ run = r /\ start \in {"announcing", "accepting", "serving"}
        \/ srv[r] = "broken" /\ result[r] = "error" /\ Attended(r)

-----------------------------------------------------------------------------
(* The contract with the supervisor.                                       *)

Asked(r) == r \in cancelled \/ \E p \in Stoppers : took[p] = r

Contract == INSTANCE SupervisedComponent WITH
    MayCrash <- TRUE,
    MayInterrupt <- FALSE,
    phase    <- CASE start = "down" -> "down"
                  [] start \in {"building", "binding", "announcing"} -> "starting"
                  [] OTHER -> "ready",
    asked    <- run # 0 /\ Asked(run),
    outcome  <- IF start = "down" /\ run # 0 THEN result[run] ELSE "none"

\* Start returns nil only when asked, by its own context or by a Stop that took
\* its app: the watcher of an earlier run cannot end a later one.
KeepsContract == Contract!Spec

-----------------------------------------------------------------------------
(* Liveness, under Fairness.                                               *)

\* A run that its context or a Stop asks to end, ends, unless the one who asked
\* came before the server took its listener, and missed it.
AskedRunsEnd ==
    \A r \in Runs : (run = r /\ Asked(r)) ~> (run # r \/ start = "down" \/ Missed(r))

=============================================================================
