--------------------------- MODULE PrometheusServer ---------------------------
(***************************************************************************)
(* The life of prometheus.Component: Start, the goroutine that serves for  *)
(* it, Stop and Health, over the fields guarded by mu.                     *)
(*                                                                         *)
(* Run r of Start binds port r, serves it with server r and, once it       *)
(* publishes the server, allocates stopCh r; 0 is nil, and stopCh 0 the    *)
(* one New allocates.                                                      *)
(***************************************************************************)
EXTENDS ComponentRuns

PreClosed == MaxRuns + 1     (* the closed channel Stop leaves in c.stopCh *)

VARIABLES
    server,      \* c.server
    stopCh,      \* c.stopCh
    start,       \* where the goroutine running Start is
    run,         \* number of the current, or last, run
    result,      \* what each run of Start returned
    port,        \* the listener of each run
    shut,        \* servers on which Shutdown was called
    serve,       \* the goroutine of each run that calls Serve
    cancelled,   \* runs whose context is cancelled
    stopClosed,  \* stop channels that are closed
    stop,        \* where each Stop call is
    took         \* what each Stop call took out of the component

startVars  == <<start, run, result>>
serverVars == <<port, shut, serve>>
ctxVars    == <<cancelled, stopClosed>>
stopVars   == <<stop, took>>
vars == <<server, stopCh, startVars, serverVars, ctxVars, stopVars>>

TypeOK ==
    /\ server \in 0..MaxRuns /\ stopCh \in 0..PreClosed
    /\ start \in {"down", "binding", "publishing", "announcing", "waiting"}
    /\ run \in 0..MaxRuns /\ (start # "down" => run # 0)
    /\ result \in [Runs -> {"none", "nil", "error"}]
    /\ port \in [Runs -> {"none", "open", "closed"}] /\ shut \subseteq Runs
    /\ serve \in [Runs -> {"none", "pending", "serving", "closed", "failed"}]
    /\ cancelled \subseteq Runs /\ stopClosed \subseteq 0..PreClosed
    /\ stop \in [Stoppers -> {"idle", "selecting", "signalling", "shutting", "done"}]
    /\ took \in [Stoppers -> [stopCh : 0..PreClosed, server : 0..MaxRuns]]

Init ==
    /\ server = Nil /\ stopCh = 0
    /\ start = "down" /\ run = 0
    /\ result = [r \in Runs |-> "none"]
    /\ port = [r \in Runs |-> "none"] /\ shut = {} /\ serve = [r \in Runs |-> "none"]
    /\ cancelled = {} /\ stopClosed = {PreClosed}
    /\ stop = [p \in Stoppers |-> "idle"]
    /\ took = [p \in Stoppers |-> [stopCh |-> PreClosed, server |-> Nil]]

-----------------------------------------------------------------------------
(* Start.                                                                  *)

\* The supervisor calls Start again once the previous call has returned and its
\* context is cancelled.
StartBegins ==
    /\ start = "down" /\ run < MaxRuns
    /\ run # 0 => run \in cancelled
    /\ run' = run + 1
    /\ start' = "binding"
    /\ UNCHANGED <<server, stopCh, result, serverVars, ctxVars, stopVars>>

Return(res) ==
    /\ start' = "down"
    /\ result' = [result EXCEPT ![run] = res]
    /\ UNCHANGED run

StartBinds ==
    /\ start = "binding" /\ start' = "publishing"
    /\ \A r \in Runs : port[r] # "open"
    /\ port' = [port EXCEPT ![run] = "open"]
    /\ UNCHANGED <<server, stopCh, run, result, shut, serve, ctxVars, stopVars>>

\* The port is taken, perhaps by the server of an earlier run; kept is what is in
\* c.server afterwards.
BindFailsWith(kept) ==
    /\ start = "binding"
    /\ Return("error")
    /\ server' = kept
    /\ UNCHANGED <<stopCh, serverVars, ctxVars, stopVars>>

\* Bug: a Start that fails clears c.server, which is not its own.
BindFailsClearing == BindFailsWith(Nil)

StartBindFails == BindFailsWith(server)

\* The server and its stopCh are published, and the goroutine started.
StartPublishes ==
    /\ start = "publishing" /\ start' = "announcing"
    /\ server' = run /\ stopCh' = run
    /\ serve' = [serve EXCEPT ![run] = "pending"]
    /\ UNCHANGED <<run, result, port, shut, ctxVars, stopVars>>

\* ready().
StartAnnounces ==
    /\ start = "announcing" /\ start' = "waiting"
    /\ UNCHANGED <<server, stopCh, run, result, serverVars, ctxVars, stopVars>>

\* The select, over errCh, stopCh and the context: any that is there.
StartWakes ==
    /\ start = "waiting"
    /\ \/ serve[run] = "failed" /\ Return("error")
       \/ /\ serve[run] = "closed" \/ run \in stopClosed \/ run \in cancelled
          /\ Return("nil")
    /\ UNCHANGED <<server, stopCh, serverVars, ctxVars, stopVars>>

-----------------------------------------------------------------------------
(* The goroutine of run r.                                                 *)

\* Serve on a server that was shut down before closes the listener.
ServeBegins(r) ==
    /\ serve[r] = "pending"
    /\ IF r \in shut
       THEN /\ serve' = [serve EXCEPT ![r] = "closed"]
            /\ port' = [port EXCEPT ![r] = "closed"]
       ELSE /\ serve' = [serve EXCEPT ![r] = "serving"]
            /\ UNCHANGED port
    /\ UNCHANGED <<server, stopCh, startVars, shut, ctxVars, stopVars>>

\* Serve returns ErrServerClosed: nil is sent to errCh.
ServeEnds(r) ==
    /\ serve[r] = "serving" /\ r \in shut
    /\ serve' = [serve EXCEPT ![r] = "closed"]
    /\ UNCHANGED <<server, stopCh, startVars, port, shut, ctxVars, stopVars>>

\* The listener breaks: the error is sent to errCh.
ServeFails(r) ==
    /\ serve[r] = "serving" /\ r \notin shut
    /\ serve' = [serve EXCEPT ![r] = "failed"]
    /\ port' = [port EXCEPT ![r] = "closed"]
    /\ UNCHANGED <<server, stopCh, startVars, shut, ctxVars, stopVars>>

-----------------------------------------------------------------------------
(* Stop.                                                                   *)

\* The critical section; left and kept are what it leaves behind.
StopLeaves(p, left, kept) ==
    /\ stop[p] = "idle"
    /\ took' = [took EXCEPT ![p] = [stopCh |-> stopCh, server |-> server]]
    /\ stopCh' = left /\ server' = kept
    /\ stop' = [stop EXCEPT ![p] = "selecting"]
    /\ UNCHANGED <<startVars, serverVars, ctxVars>>

\* Bugs: Stop leaves its server, or its channel, to be taken again.
StopLeavesServer(p) == StopLeaves(p, PreClosed, server)
StopLeavesStopCh(p) == StopLeaves(p, stopCh, Nil)

StopTakes(p) == StopLeaves(p, PreClosed, Nil)

\* select { case <-ch: default: close(ch) }: the test, then the close.
StopSelects(p) ==
    /\ stop[p] = "selecting"
    /\ stop' = [stop EXCEPT ![p] =
                   IF took[p].stopCh \in stopClosed THEN "shutting" ELSE "signalling"]
    /\ UNCHANGED <<server, stopCh, startVars, serverVars, ctxVars, took>>

StopSignals(p) ==
    /\ stop[p] = "signalling"
    /\ stop' = [stop EXCEPT ![p] = "shutting"]
    /\ stopClosed' = stopClosed \cup {took[p].stopCh}
    /\ UNCHANGED <<server, stopCh, startVars, serverVars, cancelled, took>>

\* Shutdown closes the listener Serve has taken, and drains; at the deadline Close
\* ends what is in flight.
StopShuts(p) ==
    LET s == took[p].server IN
    /\ stop[p] = "shutting"
    /\ stop' = [stop EXCEPT ![p] = "done"]
    /\ shut' = IF s = Nil THEN shut ELSE shut \cup {s}
    /\ port' = IF s # Nil /\ serve[s] = "serving" THEN [port EXCEPT ![s] = "closed"] ELSE port
    /\ UNCHANGED <<server, stopCh, startVars, serve, ctxVars, took>>

-----------------------------------------------------------------------------
SupervisorCancels ==
    /\ run # 0 /\ run \notin cancelled
    /\ cancelled' = cancelled \cup {run}
    /\ UNCHANGED <<server, stopCh, startVars, serverVars, stopClosed, stopVars>>

-----------------------------------------------------------------------------
StartStep == StartBinds \/ StartBindFails \/ StartPublishes \/ StartAnnounces \/ StartWakes

ServeStep(r) == ServeBegins(r) \/ ServeEnds(r)

StopStep(p) == StopSelects(p) \/ StopSignals(p) \/ StopShuts(p)

Next ==
    \/ StartBegins \/ StartStep \/ SupervisorCancels
    \/ \E r \in Runs : ServeStep(r) \/ ServeFails(r)
    \/ \E p \in Stoppers : StopTakes(p) \/ StopStep(p)

Spec == Init /\ [][Next]_vars

(* Goroutines run.  Nobody has to call Start or Stop or cancel a context.  *)
Fairness ==
    /\ WF_vars(StartStep)
    /\ \A r \in Runs : WF_vars(ServeStep(r))
    /\ \A p \in Stoppers : WF_vars(StopStep(p))

FairSpec == Spec /\ Fairness

-----------------------------------------------------------------------------
(* Safety.                                                                 *)

\* A bound port has somebody to close it: the Start that bound it, the component
\* that publishes its server for the next Stop, a Stop that took it, or the
\* goroutine that finds it shut.  A restart that finds the port taken by an earlier
\* run, which its context and not a Stop ended, does not lose that server.
PortOwned ==
    \A r \in Runs : port[r] = "open" =>
        \/ start = "publishing" /\ run = r
        \/ server = r
        \/ \E p \in Stoppers : took[p].server = r /\ stop[p] \in {"selecting", "signalling", "shutting"}
        \/ serve[r] = "pending" /\ r \in shut

Healthy == server # Nil

\* While Health answers nil the port is bound, unless Serve broke, and no Stop has
\* shut the server down or is about to.
HealthyIsBound ==
    Healthy =>
        /\ port[server] = "open" \/ serve[server] = "failed"
        /\ server \notin shut
        /\ \A p \in Stoppers : took[p].server # server

\* No stop channel is closed twice, which would panic, by Stops that meet each
\* other or a restart.
NoDoubleClose ==
    \A p \in Stoppers : stop[p] = "signalling" => took[p].stopCh \notin stopClosed

-----------------------------------------------------------------------------
(* The contract with the supervisor.                                       *)

Asked(r) ==
    \/ r \in cancelled
    \/ \E p \in Stoppers : stop[p] # "idle" /\ took[p].stopCh = r

Contract == INSTANCE SupervisedComponent WITH
    MayCrash <- TRUE,
    MayInterrupt <- FALSE,
    phase    <- CASE start = "down" -> "down"
                  [] start \in {"binding", "publishing", "announcing"} -> "starting"
                  [] OTHER -> "ready",
    asked    <- run # 0 /\ Asked(run),
    outcome  <- IF start = "down" /\ run # 0 THEN result[run] ELSE "none"

\* Start returns nil only when asked: a Serve that ends with ErrServerClosed ended
\* because a Stop took the server of this very run.
KeepsContract == Contract!Spec

\* A run that is asked to end, at whatever point of Start, ends.
AskedRunsEnd == Contract!Answers

=============================================================================
