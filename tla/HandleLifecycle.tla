--------------------------- MODULE HandleLifecycle ---------------------------
(***************************************************************************)
(* The life of a component that holds one driver handle: redis.Component,  *)
(* postgresql.Component, sqlite.Component, s3.Component and                *)
(* grpcclient.Component.  They share Start's and Stop's protocol over the  *)
(* fields guarded by mu, and differ in how Start obtains the handle: each  *)
(* is described by a profile.                                              *)
(*                                                                         *)
(* Run r of Start allocates stopCh r and opens handle r; 0 is nil.         *)
(***************************************************************************)
EXTENDS ComponentRuns

PreClosed == MaxRuns + 1     (* the closed channel Stop leaves in c.stopCh *)

-----------------------------------------------------------------------------
(* Profiles.  Every Start may fail before it has a handle: the             *)
(* configuration may be refused, or the driver's constructor fail.  Then   *)
(* the handle has to pass a number of checks.  Profiles say how many,      *)
(* whether a failed check and whether Stop close the handle, and whether   *)
(* Start looks for its own cancellation when a check fails.                *)

\* One Ping.
Redis == [checks |-> 1, closesFailed |-> TRUE, closesOnStop |-> TRUE, cleanCancel |-> FALSE]

\* One Ping.
Postgres == [checks |-> 1, closesFailed |-> TRUE, closesOnStop |-> TRUE, cleanCancel |-> FALSE]

\* A ping, then verifyJournalMode.
Sqlite == [checks |-> 2, closesFailed |-> TRUE, closesOnStop |-> TRUE, cleanCancel |-> FALSE]

\* One probe; the client holds no connection, so there is nothing to close.
S3 == [checks |-> 1, closesFailed |-> FALSE, closesOnStop |-> FALSE, cleanCancel |-> FALSE]

\* waitReady; its failure is not one of Start when the context is done.
GrpcClient == [checks |-> 1, closesFailed |-> TRUE, closesOnStop |-> TRUE, cleanCancel |-> TRUE]

Profiles == {Redis, Postgres, Sqlite, S3, GrpcClient}

-----------------------------------------------------------------------------
VARIABLES
    profile,     \* which component this is
    handle,      \* c.client, c.pool, c.db or c.conn
    stopCh,      \* c.stopCh
    start,       \* where the goroutine running Start is
    run,         \* number of the current, or last, run
    checked,     \* checks the handle of this run has passed
    result,      \* what each run returned; "ctx" for the error of its context
    cancelled,   \* runs whose context is cancelled
    stopClosed,  \* stop channels that are closed
    driver,      \* state of the driver's handle of each run
    stop,        \* where each Stop call is
    took         \* what each Stop call took out of the component

startVars == <<start, run, checked, result>>
ctxVars   == <<cancelled, stopClosed>>
stopVars  == <<stop, took>>
vars == <<profile, handle, stopCh, startVars, ctxVars, driver, stopVars>>

TypeOK ==
    /\ profile \in Profiles
    /\ handle \in 0..MaxRuns /\ stopCh \in 0..PreClosed
    /\ start \in {"down", "preparing", "checking", "serving"}
    /\ run \in 0..MaxRuns /\ (start # "down" => run # 0)
    /\ checked \in 0..profile.checks
    /\ result \in [Runs -> {"none", "nil", "error", "ctx"}]
    /\ cancelled \subseteq Runs /\ stopClosed \subseteq 0..PreClosed
    /\ driver \in [Runs -> {"none", "open", "closed"}]
    /\ stop \in [Stoppers -> {"idle", "selecting", "signalling", "closing", "done"}]
    /\ took \in [Stoppers -> [stopCh : 0..PreClosed, handle : 0..MaxRuns]]

\* New: no handle, and an open stopCh so that Stop before Start is safe.
Init ==
    /\ profile \in Profiles
    /\ handle = Nil /\ stopCh = 0
    /\ start = "down" /\ run = 0 /\ checked = 0
    /\ result = [r \in Runs |-> "none"]
    /\ cancelled = {} /\ stopClosed = {PreClosed}
    /\ driver = [r \in Runs |-> "none"]
    /\ stop = [p \in Stoppers |-> "idle"]
    /\ took = [p \in Stoppers |-> [stopCh |-> PreClosed, handle |-> Nil]]

-----------------------------------------------------------------------------
(* Start.                                                                  *)

\* The supervisor calls Start again once the previous call has returned and its
\* context is cancelled.
StartBegins ==
    /\ start = "down" /\ run < MaxRuns
    /\ run # 0 => run \in cancelled
    /\ run' = run + 1 /\ stopCh' = run + 1
    /\ start' = "preparing" /\ checked' = 0
    /\ UNCHANGED <<profile, handle, result, ctxVars, driver, stopVars>>

Return(res) ==
    /\ start' = "down"
    /\ result' = [result EXCEPT ![run] = res]
    /\ UNCHANGED <<run, checked>>

\* Nothing is open yet.
StartFailsEarly ==
    /\ start = "preparing"
    /\ Return("error")
    /\ UNCHANGED <<profile, handle, stopCh, ctxVars, driver, stopVars>>

StartOpens ==
    /\ start = "preparing"
    /\ driver' = [driver EXCEPT ![run] = "open"]
    /\ start' = "checking"
    /\ UNCHANGED <<profile, handle, stopCh, run, checked, result, ctxVars, stopVars>>

\* A Ping, a probe, the journal mode or waitReady is in order.
StartChecks ==
    /\ start = "checking" /\ checked < profile.checks
    /\ checked' = checked + 1
    /\ UNCHANGED <<profile, handle, stopCh, start, run, result, ctxVars, driver, stopVars>>

\* A check fails: the handle ends as left, and res is what Start returns.
CheckFails(left, res) ==
    /\ start = "checking" /\ checked < profile.checks
    /\ driver' = [driver EXCEPT ![run] = left]
    /\ Return(res)
    /\ UNCHANGED <<profile, handle, stopCh, ctxVars, stopVars>>

LeftByCheck == IF profile.closesFailed THEN "closed" ELSE "open"
CheckError  == CASE run \notin cancelled -> "error"
                 [] run \in cancelled /\ profile.cleanCancel -> "nil"
                 [] run \in cancelled /\ ~profile.cleanCancel -> "ctx"

\* Bugs: the handle that failed stays open; whatever ended waitReady is a clean
\* shutdown.
CheckFailsOpen == CheckFails("open", CheckError)
CheckFailsCleanly == CheckFails(LeftByCheck, IF profile.cleanCancel THEN "nil" ELSE CheckError)

StartCheckFails == CheckFails(LeftByCheck, CheckError)

\* The handle is published under mu, and ready() called.
StartInstalls ==
    /\ start = "checking" /\ checked = profile.checks
    /\ handle' = run
    /\ start' = "serving"
    /\ UNCHANGED <<profile, stopCh, run, checked, result, ctxVars, driver, stopVars>>

StartWakes ==
    /\ start = "serving"
    /\ run \in stopClosed \/ run \in cancelled
    /\ Return("nil")
    /\ UNCHANGED <<profile, handle, stopCh, ctxVars, driver, stopVars>>

-----------------------------------------------------------------------------
(* Stop.                                                                   *)

\* The critical section; left and kept are what it leaves behind.
StopLeaves(p, left, kept) ==
    /\ stop[p] = "idle"
    /\ took' = [took EXCEPT ![p] = [stopCh |-> stopCh, handle |-> handle]]
    /\ stopCh' = left /\ handle' = kept
    /\ stop' = [stop EXCEPT ![p] = "selecting"]
    /\ UNCHANGED <<profile, startVars, ctxVars, driver>>

\* Bugs: Stop leaves its channel, its handle, or a nil channel in place.
StopLeavesStopCh(p) == StopLeaves(p, stopCh, Nil)
StopLeavesHandle(p) == StopLeaves(p, PreClosed, handle)
StopLeavesNil(p) == StopLeaves(p, -1, Nil)

StopTakes(p) == StopLeaves(p, PreClosed, Nil)

\* select { case <-ch: default: close(ch) }: the test, then the close.
StopSelectsWhen(p, quiet) ==
    /\ stop[p] = "selecting"
    /\ stop' = [stop EXCEPT ![p] = IF quiet THEN "closing" ELSE "signalling"]
    /\ UNCHANGED <<profile, handle, stopCh, startVars, ctxVars, driver, took>>

\* Bug: with no handle there is nobody to signal.
StopSelectsHandle(p) ==
    StopSelectsWhen(p, took[p].stopCh \in stopClosed \/ took[p].handle = Nil)

StopSelects(p) == StopSelectsWhen(p, took[p].stopCh \in stopClosed)

StopSignals(p) ==
    /\ stop[p] = "signalling"
    /\ stop' = [stop EXCEPT ![p] = "closing"]
    /\ stopClosed' = stopClosed \cup {took[p].stopCh}
    /\ UNCHANGED <<profile, handle, stopCh, startVars, cancelled, driver, took>>

\* The closing goroutine, which goes on when Stop gives up waiting; then is what
\* the component's handle is afterwards.
ClosesThen(p, then) ==
    /\ stop[p] = "closing"
    /\ stop' = [stop EXCEPT ![p] = "done"]
    /\ IF took[p].handle # Nil /\ profile.closesOnStop
       THEN driver' = [driver EXCEPT ![took[p].handle] = "closed"]
       ELSE UNCHANGED driver
    /\ handle' = then
    /\ UNCHANGED <<profile, stopCh, startVars, ctxVars, took>>

\* Bug: the handle is cleared, once more, after it was closed.
StopClosesAndClears(p) == ClosesThen(p, Nil)

StopCloses(p) == ClosesThen(p, handle)

-----------------------------------------------------------------------------
SupervisorCancels ==
    /\ run # 0 /\ run \notin cancelled
    /\ cancelled' = cancelled \cup {run}
    /\ UNCHANGED <<profile, handle, stopCh, startVars, stopClosed, driver, stopVars>>

-----------------------------------------------------------------------------
StartStep ==
    \/ StartFailsEarly \/ StartOpens \/ StartChecks \/ StartCheckFails
    \/ StartInstalls \/ StartWakes

StopStep(p) == StopSelects(p) \/ StopSignals(p) \/ StopCloses(p)

Next ==
    \/ StartBegins \/ StartStep \/ SupervisorCancels
    \/ \E p \in Stoppers : StopTakes(p) \/ StopStep(p)

Spec == Init /\ [][Next]_vars

(* Goroutines run, and every check ends: all run under ConnectTimeout.     *)
Fairness == WF_vars(StartStep) /\ \A p \in Stoppers : WF_vars(StopStep(p))

FairSpec == Spec /\ Fairness

-----------------------------------------------------------------------------
(* Safety.                                                                 *)

\* No stop channel is closed twice, which would panic, though the select that
\* guards close is not atomic with it.
NoDoubleClose ==
    \A p \in Stoppers : stop[p] = "signalling" => took[p].stopCh \notin stopClosed

\* The handle that operations and Health find in the component is never one that a
\* Stop, or a Start that failed, has closed or is about to close.
PublishedHandleOpen ==
    handle # Nil =>
        /\ driver[handle] = "open"
        /\ \A p \in Stoppers : stop[p] # "idle" => took[p].handle # handle

\* While Start serves, operations find its handle, unless a Stop took it: the
\* end of an earlier Stop does not take it away.
ServingHasHandle ==
    start = "serving" =>
        \/ handle = run
        \/ \E p \in Stoppers : stop[p] # "idle" /\ took[p].handle = run

\* A driver handle that is open has somebody to close it: the Start that is
\* checking it, the component that publishes it, a Stop that took it; or a
\* later run published its own over it, because no Stop came between them.
Owned(r) ==
    \/ start = "checking" /\ run = r
    \/ handle = r
    \/ \E p \in Stoppers : took[p].handle = r /\ stop[p] \in {"selecting", "signalling", "closing"}
    \/ /\ \E q \in Runs : q > r /\ driver[q] # "none"
       /\ \A p \in Stoppers : took[p].handle # r
OpenHandlesOwned ==
    profile.closesOnStop => \A r \in Runs : driver[r] = "open" => Owned(r)

-----------------------------------------------------------------------------
(* The contract with the supervisor.                                       *)

Took(p, r) == stop[p] # "idle" /\ took[p].stopCh = r
Asked(r) == r \in cancelled \/ \E p \in Stoppers : Took(p, r)

Contract == INSTANCE SupervisedComponent WITH
    MayCrash <- FALSE,
    MayInterrupt <- TRUE,
    phase    <- CASE start = "down" -> "down"
                  [] start = "serving" -> "ready"
                  [] OTHER -> "starting",
    asked    <- Asked(run),
    outcome  <- IF start = "down" /\ run # 0
                THEN IF result[run] = "ctx" /\ ~profile.cleanCancel
                     THEN "interrupted" ELSE result[run]
                ELSE "none"

\* Each of the five components behaves as a supervised component: Start returns
\* nil only when asked, and fails only before ready().  With one exception, named
\* as an outcome of its own: in redis, postgresql, sqlite and s3 a connectivity
\* check that the context interrupts makes Start return that error (redis.go:292),
\* where sqlite_internal_test.go:213 says that "a cancelled context must produce
\* nil rather than ctx.Err()".  grpcclient is not excepted: it returns nil.
KeepsContract == Contract!Spec

Slot == INSTANCE HandleSlot

\* What operations and Health find in the component is a slot with a handle that
\* is published open and closed only when it is published no longer.
KeepsSlot == Slot!SlotSpec

\* A run that its context or a Stop asks to end, at whatever point of Start,
\* ends.
AskedRunsEnd == Contract!Answers

-----------------------------------------------------------------------------
(* What the documentation says and the code does not do.                   *)

\* Client (redis.go:208, s3.go:232), Pool (postgresql.go:213) and SQLDB
\* (sqlite.go:128) return "nil before Start and after Stop".  The run that a Stop
\* ended has returned and the Stop too: the component has no handle.
NilAfterStop ==
    \A p \in Stoppers :
        start = "down" /\ run # 0 /\ Took(p, run) /\ stop[p] = "done" => handle = Nil

=============================================================================
