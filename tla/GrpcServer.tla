------------------------------ MODULE GrpcServer ------------------------------
(***************************************************************************)
(* The life of grpc.Component: Start, the goroutine it leaves to watch its *)
(* context, and Stop, over the fields guarded by mu and over the server    *)
(* and listener of each run.                                               *)
(*                                                                         *)
(* Two kinds of actors shut a server down, in the same steps: a call of    *)
(* Stop, and the watcher of run r, which is named r.  Run r has stopCh r,  *)
(* listener r and server r; 0 is nil.                                      *)
(***************************************************************************)
EXTENDS ComponentRuns

PreClosed == MaxRuns + 1     (* the closed channel left in c.stopCh        *)
Closers == Stoppers \cup Runs

VARIABLES
    server,      \* c.server; c.serving is set and cleared with it
    stopCh,      \* c.stopCh
    start,       \* where the goroutine running Start is
    run,         \* number of the current, or last, run
    result,      \* what each run of Start returned
    port,        \* the listener of each run
    srv,         \* the grpc.Server of each run
    rpcs,        \* servers with an RPC in flight
    cancelled,   \* runs whose context is cancelled
    stopClosed,  \* stop channels that are closed
    at,          \* where each closer is
    took,        \* what each closer took out of the component
    panicked     \* a channel was closed twice: the process is gone

startVars  == <<start, run, result>>
serverVars == <<port, srv, rpcs>>
closerVars == <<at, took>>
vars == <<server, stopCh, startVars, serverVars, cancelled, stopClosed, closerVars, panicked>>

TypeOK ==
    /\ server \in 0..MaxRuns /\ stopCh \in 0..PreClosed
    /\ start \in {"down", "listening", "building", "announcing", "ready", "serving", "failed", "waiting"}
    /\ run \in 0..MaxRuns /\ (start # "down" => run # 0)
    /\ result \in [Runs -> {"none", "nil", "error"}]
    /\ port \in [Runs -> {"none", "open", "closed"}]
    /\ srv \in [Runs -> {"none", "built", "serving", "draining", "stopped"}]
    /\ rpcs \subseteq Runs
    /\ cancelled \subseteq Runs /\ stopClosed \subseteq 0..PreClosed
    /\ at \in [Closers -> {"none", "idle", "testing", "closing", "stopping", "draining", "done"}]
    /\ took \in [Closers -> [stopCh : 0..PreClosed, server : 0..MaxRuns]]
    /\ panicked \in BOOLEAN

\* New: no server, and an open stopCh so that Stop before Start is safe.
Init ==
    /\ server = Nil /\ stopCh = 0
    /\ start = "down" /\ run = 0
    /\ result = [r \in Runs |-> "none"]
    /\ port = [r \in Runs |-> "none"] /\ srv = [r \in Runs |-> "none"] /\ rpcs = {}
    /\ cancelled = {} /\ stopClosed = {PreClosed}
    /\ at = [a \in Closers |-> IF a \in Runs THEN "none" ELSE "idle"]
    /\ took = [a \in Closers |-> [stopCh |-> PreClosed, server |-> Nil]]
    /\ panicked = FALSE

\* Nothing happens once the process has panicked.
Alive == ~panicked /\ UNCHANGED panicked

-----------------------------------------------------------------------------
(* Start.                                                                  *)

\* The supervisor calls Start again once the previous call has returned and its
\* context is cancelled.
StartBegins ==
    /\ start = "down" /\ run < MaxRuns
    /\ run # 0 => run \in cancelled
    /\ run' = run + 1 /\ stopCh' = run + 1
    /\ start' = "listening"
    /\ Alive
    /\ UNCHANGED <<server, result, serverVars, cancelled, stopClosed, closerVars>>

Return(res) ==
    /\ start' = "down"
    /\ result' = [result EXCEPT ![run] = res]
    /\ UNCHANGED run

Goes(from, to) == start = from /\ start' = to /\ UNCHANGED <<run, result>>

StartListens ==
    /\ Goes("listening", "building")
    /\ \A r \in Runs : port[r] # "open"
    /\ port' = [port EXCEPT ![run] = "open"]
    /\ Alive
    /\ UNCHANGED <<server, stopCh, srv, rpcs, cancelled, stopClosed, closerVars>>

\* The port is taken, by this process or another.
StartListenFails ==
    /\ start = "listening"
    /\ Return("error")
    /\ Alive
    /\ UNCHANGED <<server, stopCh, serverVars, cancelled, stopClosed, closerVars>>

CredsFailLeaving(left) ==
    /\ start = "building"
    /\ port' = [port EXCEPT ![run] = left]
    /\ Return("error")
    /\ Alive
    /\ UNCHANGED <<server, stopCh, srv, rpcs, cancelled, stopClosed, closerVars>>

\* Bug: Start returns the error of tlsCredentials and keeps the port.
CredsFailBound == CredsFailLeaving("open")

StartCredsFail == CredsFailLeaving("closed")

\* The server is built, its services registered, and published.
StartInstalls ==
    /\ Goes("building", "announcing")
    /\ srv' = [srv EXCEPT ![run] = "built"]
    /\ server' = run
    /\ Alive
    /\ UNCHANGED <<stopCh, port, rpcs, cancelled, stopClosed, closerVars>>

\* The watcher is started, and ready() called.
StartAnnounces ==
    /\ Goes("announcing", "ready")
    /\ at' = [at EXCEPT ![run] = "idle"]
    /\ Alive
    /\ UNCHANGED <<server, stopCh, serverVars, cancelled, stopClosed, took>>

\* Serve begins to accept, unless the server was stopped before it: then it
\* closes the listener and fails.
StartServes ==
    /\ \/ /\ Goes("ready", "serving") /\ srv[run] = "built"
          /\ srv' = [srv EXCEPT ![run] = "serving"]
          /\ UNCHANGED port
       \/ /\ Goes("ready", "failed") /\ srv[run] \in {"draining", "stopped"}
          /\ port' = [port EXCEPT ![run] = "closed"]
          /\ UNCHANGED srv
    /\ Alive
    /\ UNCHANGED <<server, stopCh, rpcs, cancelled, stopClosed, closerVars>>

\* Serve returns nil, once the server it serves has stopped.
ServeReturns ==
    /\ Goes("serving", "waiting")
    /\ srv[run] = "stopped"
    /\ Alive
    /\ UNCHANGED <<server, stopCh, serverVars, cancelled, stopClosed, closerVars>>

\* The listener fails: Serve closes it and returns the error.
ServeFails ==
    /\ Goes("serving", "failed")
    /\ srv[run] = "serving"
    /\ port' = [port EXCEPT ![run] = "closed"]
    /\ Alive
    /\ UNCHANGED <<server, stopCh, srv, rpcs, cancelled, stopClosed, closerVars>>

\* c.serving, which is what Health answers.
Healthy == server # Nil

\* Lines 335-352: an error is one of Start while c.serving holds; as is what
\* Start returns then.
ReadsServing(res) ==
    /\ \/ Healthy /\ start = "failed" /\ Return(res)
       \/ ~Healthy /\ Goes("failed", "waiting")
    /\ Alive
    /\ UNCHANGED <<server, stopCh, serverVars, cancelled, stopClosed, closerVars>>

\* Bug: every error of Serve is that of a closed listener.
StartForgivesServe == ReadsServing("nil")

StartReadsServing == ReadsServing("error")

StartWakes ==
    /\ start = "waiting"
    /\ run \in stopClosed \/ run \in cancelled
    /\ Return("nil")
    /\ Alive
    /\ UNCHANGED <<server, stopCh, serverVars, cancelled, stopClosed, closerVars>>

-----------------------------------------------------------------------------
(* Stop and the watchers.                                                  *)

\* The critical section.  ch is the channel a will close, left and kept what it
\* leaves in c.stopCh and c.server.
Takes(a, ch, left, kept) ==
    /\ at[a] = "idle"
    /\ at' = [at EXCEPT ![a] = "testing"]
    /\ took' = [took EXCEPT ![a] = [stopCh |-> ch, server |-> server]]
    /\ stopCh' = left
    /\ server' = kept
    /\ Alive
    /\ UNCHANGED <<startVars, serverVars, cancelled, stopClosed>>

\* Bugs: Stop leaves the server to be taken again, or a nil channel.
StopKeepsServer(p) == Takes(p, stopCh, PreClosed, server)
StopLeavesNil(p) == Takes(p, stopCh, -1, Nil)

StopTakes(p) == Takes(p, stopCh, PreClosed, Nil)

\* case <-ctx.Done(): the watcher closes the stopCh of its own run, but takes
\* whatever the component holds.
WatcherTakes(r) == r \in cancelled /\ Takes(r, r, PreClosed, Nil)

\* case <-stopCh: the watcher returns.
WatcherLeaves(r) ==
    /\ at[r] = "idle" /\ r \in stopClosed
    /\ at' = [at EXCEPT ![r] = "done"]
    /\ Alive
    /\ UNCHANGED <<server, stopCh, startVars, serverVars, cancelled, stopClosed, took>>

\* select { case <-ch: default: close(ch) }: the test, then the close.  quiet is
\* where a closer goes that finds its channel closed.
TestsElse(a, quiet) ==
    /\ at[a] = "testing"
    /\ at' = [at EXCEPT ![a] = IF took[a].stopCh \in stopClosed THEN quiet ELSE "closing"]
    /\ Alive
    /\ UNCHANGED <<server, stopCh, startVars, serverVars, cancelled, stopClosed, took>>

\* Bug: a closed channel means that another closer stops the server.
TestsAndLeaves(a) == TestsElse(a, "done")

Tests(a) == TestsElse(a, "stopping")

ClosesStopCh(a) ==
    /\ ~panicked
    /\ at[a] = "closing"
    /\ at' = [at EXCEPT ![a] = "stopping"]
    /\ stopClosed' = stopClosed \cup {took[a].stopCh}
    /\ panicked' = (took[a].stopCh \in stopClosed)
    /\ UNCHANGED <<server, stopCh, startVars, serverVars, cancelled, took>>

\* GracefulStop of s closes the listener it serves; a server that does not
\* serve yet has none.
StopsServing(s) ==
    IF srv[s] = "serving"
    THEN /\ srv' = [srv EXCEPT ![s] = "draining"]
         /\ port' = [port EXCEPT ![s] = "closed"]
    ELSE /\ srv' = [srv EXCEPT ![s] = IF @ = "built" THEN "draining" ELSE @]
         /\ UNCHANGED port

StopsServer(a) ==
    /\ at[a] = "stopping"
    /\ \/ /\ took[a].server = Nil
          /\ at' = [at EXCEPT ![a] = "done"]
          /\ UNCHANGED <<port, srv>>
       \/ /\ took[a].server # Nil
          /\ at' = [at EXCEPT ![a] = "draining"]
          /\ StopsServing(took[a].server)
    /\ Alive
    /\ UNCHANGED <<server, stopCh, startVars, rpcs, cancelled, stopClosed, took>>

\* Bug: at the deadline the closer leaves without forcing the server to stop.
GivesUp(a) ==
    /\ at[a] = "draining"
    /\ at' = [at EXCEPT ![a] = "done"]
    /\ Alive
    /\ UNCHANGED <<server, stopCh, startVars, serverVars, cancelled, stopClosed, took>>

\* The drain is over, or the deadline is and srv.Stop ends what is in flight.
ServerStops(a) ==
    /\ at[a] = "draining"
    /\ at' = [at EXCEPT ![a] = "done"]
    /\ srv' = [srv EXCEPT ![took[a].server] = "stopped"]
    /\ rpcs' = rpcs \ {took[a].server}
    /\ Alive
    /\ UNCHANGED <<server, stopCh, startVars, port, cancelled, stopClosed, took>>

-----------------------------------------------------------------------------
(* The supervisor and the clients.                                         *)

SupervisorCancels ==
    /\ run # 0 /\ run \notin cancelled
    /\ cancelled' = cancelled \cup {run}
    /\ Alive
    /\ UNCHANGED <<server, stopCh, startVars, serverVars, stopClosed, closerVars>>

RpcBegins(r) ==
    /\ srv[r] = "serving" /\ r \notin rpcs
    /\ rpcs' = rpcs \cup {r}
    /\ Alive
    /\ UNCHANGED <<server, stopCh, startVars, port, srv, cancelled, stopClosed, closerVars>>

RpcEnds(r) ==
    /\ r \in rpcs
    /\ rpcs' = rpcs \ {r}
    /\ Alive
    /\ UNCHANGED <<server, stopCh, startVars, port, srv, cancelled, stopClosed, closerVars>>

-----------------------------------------------------------------------------
StartStep ==
    \/ StartListens \/ StartListenFails \/ StartCredsFail \/ StartInstalls
    \/ StartAnnounces \/ StartServes \/ ServeReturns
    \/ StartReadsServing \/ StartWakes

CloserStep(a) == Tests(a) \/ ClosesStopCh(a) \/ StopsServer(a) \/ ServerStops(a)

WatcherStep(r) == WatcherTakes(r) \/ WatcherLeaves(r) \/ CloserStep(r)

Next ==
    \/ StartBegins \/ StartStep \/ ServeFails \/ SupervisorCancels
    \/ \E p \in Stoppers : StopTakes(p) \/ CloserStep(p)
    \/ \E r \in Runs : WatcherStep(r) \/ RpcBegins(r) \/ RpcEnds(r)

Spec == Init /\ [][Next]_vars

(* Goroutines run, and a drain ends at its deadline at the latest.  Nobody *)
(* has to call Start or Stop, cancel a context, make an RPC or finish it.  *)
Fairness ==
    /\ WF_vars(StartStep)
    /\ \A p \in Stoppers : WF_vars(CloserStep(p))
    /\ \A r \in Runs : WF_vars(WatcherStep(r))

FairSpec == Spec /\ Fairness

-----------------------------------------------------------------------------
(* Safety.                                                                 *)

\* Only one path calls GracefulStop on a server, Stop or a watcher, of its own
\* run or of another (CHANGELOG.md:667); and Health does not speak for a server that
\* one of them has taken.
OneGracefulStop ==
    /\ \A a, b \in Closers : a # b /\ took[a].server # Nil => took[a].server # took[b].server
    /\ Healthy => \A a \in Closers : took[a].server # server

\* Whatever ended Start, the port is free again when it returns: the restart
\* that follows an error can listen.
PortReleased == start = "down" => \A r \in Runs : port[r] # "open"

\* A closer that is done leaves no RPC in flight and no port behind on the server
\* it took, also when that server had not begun to serve or was stopped by
\* force.
StoppedIsQuiet ==
    \A a \in Closers : at[a] = "done" /\ took[a].server # Nil =>
        /\ took[a].server \notin rpcs
        /\ port[took[a].server] = "open" => start \in {"announcing", "ready"} /\ run = took[a].server

-----------------------------------------------------------------------------
(* The contract with the supervisor.                                       *)

Took(p, r) == at[p] \notin {"none", "idle"} /\ took[p].stopCh = r
Asked(r) == r \in cancelled \/ \E p \in Stoppers : Took(p, r)

Contract == INSTANCE SupervisedComponent WITH
    MayCrash <- TRUE,
    MayInterrupt <- FALSE,
    phase    <- CASE start = "down" -> "down"
                  [] start \in {"listening", "building", "announcing"} -> "starting"
                  [] OTHER -> "ready",
    asked    <- Asked(run),
    outcome  <- IF start = "down" /\ run # 0 THEN result[run] ELSE "none"

\* Start returns nil only when asked: when Serve fails by itself, when it is
\* stopped before it begins, or when another run's watcher stops its server,
\* too.
KeepsContract == Contract!Spec

-----------------------------------------------------------------------------
(* Liveness, under Fairness.                                               *)

\* Took the channel of run r before the server of run r was published.
TooEarly(p, r) == Took(p, r) /\ took[p].server # r

\* A cancelled run ends, whatever Stop and the watchers of other runs do
\* meanwhile; unless a Stop came too early, after which the watcher is gone.
CancelledRunsEnd ==
    \A r \in Runs :
        (run = r /\ r \in cancelled /\ ~\E p \in Stoppers : TooEarly(p, r))
            ~> (run # r \/ start = "down" \/ panicked \/ \E p \in Stoppers : TooEarly(p, r))

-----------------------------------------------------------------------------
(* What comments say and the code does not do.                             *)

\* grpc.go:283: "Closing stopCh is idempotent (the select below guards against
\* it)".  Nobody is about to close a channel that is closed already.
NoDoubleClose ==
    \A a \in Closers : at[a] = "closing" => took[a].stopCh \notin stopClosed

\* grpc.go:207-208: a fresh stopCh is allocated "so a concurrent Stop always
\* operates on a valid, current channel".  A run that is asked to end, ends.
AskedRunsEnd == (Asked(run) /\ start # "down") ~> (start = "down" \/ panicked)

=============================================================================
