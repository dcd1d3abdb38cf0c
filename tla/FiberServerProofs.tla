--------------------------- MODULE FiberServerProofs ---------------------------
(***************************************************************************)
(* Theorems about FiberServer for any calls of Stop and any number of runs.*)
(***************************************************************************)
EXTENDS FiberServer, TLAPS

USE Assumption DEF Runs, Nil, Closers

-----------------------------------------------------------------------------
(* Type correctness.                                                       *)

LEMMA InitTypeOK == Init => TypeOK
<1> SUFFICES ASSUME Init PROVE TypeOK
  OBVIOUS
<1>1. at \in [Closers -> {"none", "idle", "shutting", "draining", "missed", "done"}]
  BY DEF Init
<1>2. took \in [Closers -> 0..MaxRuns] /\ watched \in [Runs -> 0..MaxRuns]
  BY DEF Init
<1>3. listening \in BOOLEAN
  BY DEF Init
<1>4. /\ app = 0 /\ stopCh = 0 /\ start = "down" /\ run = 0 /\ cancelled = {} /\ stopClosed = {}
      /\ result \in [Runs -> {"none", "nil", "error"}]
      /\ port \in [Runs -> {"none", "open", "closed"}]
      /\ srv \in [Runs -> {"none", "serving", "broken", "draining", "stopped"}]
  BY DEF Init
<1> QED
  BY <1>1, <1>2, <1>3, <1>4 DEF TypeOK

LEMMA StartTypeOK == ASSUME TypeOK, StartBegins \/ StartStep \/ ServeFails PROVE TypeOK'
<1> USE DEF TypeOK, Return, startVars, serverVars, ctxVars, closerVars
<1>1. CASE StartBegins
  BY <1>1 DEF StartBegins
<1>2. CASE StartPublishes
  <2>1. /\ start' = "binding" /\ run \in Runs /\ app' = run /\ stopCh' = run
        /\ UNCHANGED <<listening, run, result, port, srv, cancelled, stopClosed>>
    BY <1>2 DEF StartPublishes, PublishesWith
  <2>2. at' \in [Closers -> {"none", "idle", "shutting", "draining", "missed", "done"}]
    BY <1>2 DEF StartPublishes, PublishesWith
  <2>3. took' \in [Closers -> 0..MaxRuns] /\ watched' \in [Runs -> 0..MaxRuns]
    BY <1>2, <2>1 DEF StartPublishes, PublishesWith
  <2> QED
    BY <2>1, <2>2, <2>3
<1>3. CASE StartBinds
  BY <1>3 DEF StartBinds
<1>4. CASE StartBindFails
  BY <1>4 DEF StartBindFails
<1>5. CASE StartAnnounces
  BY <1>5 DEF StartAnnounces
<1>6. CASE StartAccepts
  BY <1>6 DEF StartAccepts
<1>7. CASE ServeFails
  BY <1>7 DEF ServeFails
<1>8. CASE StartEnds
  <2>1. listening' \in BOOLEAN
    BY <1>8 DEF StartEnds, EndsWith
  <2>2. /\ result' \in [Runs -> {"none", "nil", "error"}] /\ start' = "down" /\ app' = 0
        /\ UNCHANGED <<stopCh, run, port, srv, cancelled, stopClosed, at, took, watched>>
    BY <1>8 DEF StartEnds, EndsWith
  <2> QED
    BY <2>1, <2>2
<1> QED
  BY <1>1, <1>2, <1>3, <1>4, <1>5, <1>6, <1>7, <1>8 DEF StartStep

LEMMA StopTypeOK == ASSUME TypeOK, NEW p \in Stoppers, StopTakes(p) PROVE TypeOK'
<1> USE DEF TypeOK
<1>1. stopClosed' \subseteq 0..MaxRuns
  BY DEF StopTakes
<1>2. took' \in [Closers -> 0..MaxRuns]
  BY DEF StopTakes
<1>3. at' \in [Closers -> {"none", "idle", "shutting", "draining", "missed", "done"}]
  BY DEF StopTakes
<1> QED
  BY <1>1, <1>2, <1>3 DEF StopTakes, startVars, serverVars

LEMMA WatcherTypeOK ==
    ASSUME TypeOK, NEW r \in Runs, WatcherWakes(r) \/ WatcherLeaves(r)
    PROVE  TypeOK'
<1> USE DEF TypeOK
<1>1. took' \in [Closers -> 0..MaxRuns]
  <2>1. CASE WatcherWakes(r)
    <3>1. took' = [took EXCEPT ![r] = r] /\ r \in 0..MaxRuns
      BY <2>1 DEF WatcherWakes, WakesFor
    <3> QED
      BY <3>1
  <2>2. CASE WatcherLeaves(r)
    BY <2>2 DEF WatcherLeaves
  <2> QED
    BY <2>1, <2>2
<1>2. at' \in [Closers -> {"none", "idle", "shutting", "draining", "missed", "done"}]
  <2>1. CASE WatcherWakes(r)
    BY <2>1 DEF WatcherWakes, WakesFor
  <2>2. CASE WatcherLeaves(r)
    BY <2>2 DEF WatcherLeaves
  <2> QED
    BY <2>1, <2>2
<1>3. UNCHANGED <<app, listening, stopCh, start, run, result, port, srv, cancelled, stopClosed, watched>>
  BY DEF WatcherWakes, WakesFor, WatcherLeaves, startVars, serverVars, ctxVars
<1> QED
  BY <1>1, <1>2, <1>3

LEMMA CloserTypeOK == ASSUME TypeOK, NEW a \in Closers, CloserStep(a) PROVE TypeOK'
<1> USE DEF TypeOK
<1>1. UNCHANGED <<app, listening, stopCh, start, run, result, cancelled, stopClosed, took, watched>>
  BY DEF CloserStep, ShutsDown, DrainEnds, startVars, ctxVars
<1>2. \E next \in {"draining", "missed", "done"} : at' = [at EXCEPT ![a] = next]
  BY DEF CloserStep, ShutsDown, DrainEnds
<1>3. at' \in [Closers -> {"none", "idle", "shutting", "draining", "missed", "done"}]
  BY <1>2
<1>4. srv' = srv \/ \E next \in {"draining", "stopped"} : srv' = [srv EXCEPT ![took[a]] = next]
  BY DEF CloserStep, ShutsDown, DrainEnds, serverVars
<1>5. srv' \in [Runs -> {"none", "serving", "broken", "draining", "stopped"}]
  BY <1>4
<1>6. port' = port \/ port' = [port EXCEPT ![took[a]] = "closed"]
  BY DEF CloserStep, ShutsDown, DrainEnds, serverVars
<1>7. port' \in [Runs -> {"none", "open", "closed"}]
  BY <1>6
<1> QED
  BY <1>1, <1>3, <1>5, <1>7

LEMMA NextTypeOK == TypeOK /\ [Next]_vars => TypeOK'
<1> SUFFICES ASSUME TypeOK, [Next]_vars PROVE TypeOK'
  OBVIOUS
<1>1. CASE UNCHANGED vars
  BY <1>1 DEF TypeOK, vars, startVars, serverVars, ctxVars, closerVars
<1>2. CASE SupervisorCancels
  BY <1>2 DEF TypeOK, SupervisorCancels, startVars, serverVars, closerVars
<1> QED
  BY <1>1, <1>2, StartTypeOK, StopTypeOK, WatcherTypeOK, CloserTypeOK DEF Next, WatcherStep

\* Every reachable state of the component has its type.
THEOREM TypeCorrect == Spec => []TypeOK
BY InitTypeOK, NextTypeOK, PTL DEF Spec

-----------------------------------------------------------------------------
(* Who shuts down what: a watcher the app of its own run, once its context *)
(* is cancelled, and Stop the app that was published when it looked.       *)

\* The watcher of run r does not exist yet.
Unwatched(r) == r > run \/ (r = run /\ start = "building")

Taken ==
    /\ cancelled \subseteq 1..run
    /\ \A a \in Closers : took[a] <= run /\ (start = "building" => took[a] # run)
    /\ \A r \in Runs : Unwatched(r) => at[r] = "none"
    /\ \A r \in Runs : took[r] \in {Nil, r} /\ (at[r] # "none" => took[r] = r)
    /\ \A r \in Runs : at[r] \in {"shutting", "draining", "missed"} => r \in cancelled
    /\ \A p \in Stoppers : at[p] = "idle" => took[p] = Nil
    /\ \A a \in Closers : at[a] \in {"shutting", "draining"} => took[a] # Nil
Held ==
    /\ start \in {"down", "building"} => app = Nil
    /\ start \notin {"down", "building"} => app = run
    /\ start \in {"accepting", "serving"} => listening
    /\ start = "down" /\ run # 0 => (result[run] = "nil" => ~listening)
Bound ==
    /\ start \in {"announcing", "accepting"} => port[run] = "open"
    /\ \A r \in Runs : port[r] = "open" =>
           \/ r = run /\ start \in {"announcing", "accepting"}
           \/ r = run /\ start = "serving" /\ srv[r] = "serving"
           \/ srv[r] = "broken"
Served ==
    /\ \A r \in Runs : r > run \/ (r = run /\ start \notin {"down", "serving"}) => srv[r] = "none"
    /\ \A r \in Runs : srv[r] = "serving" => r = run /\ start = "serving" /\ port[r] = "open"
    /\ \A r \in Runs : srv[r] = "broken" =>
           /\ r # run \/ start = "down"
           /\ port[r] = "open" /\ result[r] = "error"
    /\ start = "serving" => srv[run] # "none"
    /\ \A a \in Closers : at[a] = "draining" => srv[took[a]] \in {"draining", "stopped"}
Answered == start = "serving" /\ srv[run] \in {"draining", "stopped"} => Asked(run)

ServerInv == TypeOK /\ Taken /\ Held /\ Bound /\ Served /\ Answered

LEMMA InitServerInv == Init => ServerInv
<1> SUFFICES ASSUME Init PROVE ServerInv
  OBVIOUS
<1>1. /\ \A a \in Closers : took[a] = Nil /\ at[a] \in {"none", "idle"}
      /\ \A r \in Runs : at[r] = "none"
      /\ \A r \in Runs : port[r] = "none" /\ srv[r] = "none"
  BY DEF Init
<1>2. Taken
  <2>1. run = 0 /\ start = "down" /\ cancelled = {}
    BY DEF Init
  <2>2. \A r \in Runs : took[r] = Nil
    BY <1>1 DEF Closers
  <2> QED
    BY <1>1, <2>1, <2>2 DEF Taken, Unwatched
<1>3. Held /\ Bound
  BY <1>1 DEF Init, Held, Bound
<1>4. Served /\ Answered
  BY <1>1 DEF Init, Served, Answered
<1> QED
  BY <1>2, <1>3, <1>4, InitTypeOK DEF ServerInv

\* What the steps below use of the types.
LEMMA Types ==
    ASSUME TypeOK
    PROVE  /\ run \in 0..MaxRuns /\ app \in 0..MaxRuns
           /\ start # "down" => run \in Runs
           /\ result \in [Runs -> {"none", "nil", "error"}]
           /\ port \in [Runs -> {"none", "open", "closed"}]
           /\ srv \in [Runs -> {"none", "serving", "broken", "draining", "stopped"}]
           /\ at \in [Closers -> {"none", "idle", "shutting", "draining", "missed", "done"}]
           /\ took \in [Closers -> 0..MaxRuns]
BY DEF TypeOK

LEMMA BeginServerInv == ASSUME ServerInv, StartBegins \/ StartPublishes PROVE ServerInv'
<1> USE DEF ServerInv
<1>1. TypeOK'
  BY StartTypeOK DEF StartStep
<1>2. CASE StartBegins
  <2>1. /\ start = "down" /\ start' = "building" /\ run' = run + 1 /\ run \in 0..MaxRuns
        /\ UNCHANGED <<app, listening, result, port, srv, cancelled, at, took>>
    BY <1>2, Types DEF StartBegins, serverVars, ctxVars, closerVars
  <2>2. \A a \in Closers : took[a] <= run /\ took[a] \in 0..MaxRuns
    BY Types DEF Taken
  <2>3. Taken'
    BY <2>1, <2>2 DEF Taken, Unwatched
  <2>4. Held' /\ Bound' /\ Answered'
    BY <2>1 DEF Held, Bound, Answered
  <2>5. Served'
    BY <2>1 DEF Served
  <2> QED
    BY <1>1, <2>3, <2>4, <2>5
<1>3. CASE StartPublishes
  <2>1. /\ start = "building" /\ start' = "binding" /\ run' = run /\ app' = run /\ run \in Runs
        /\ UNCHANGED <<listening, result, port, srv, cancelled>>
        /\ \A a \in Closers : at'[a] = IF a = run THEN "idle" ELSE at[a]
        /\ \A a \in Closers : took'[a] = IF a = run THEN run ELSE took[a]
    BY <1>3, Types DEF StartPublishes, PublishesWith, serverVars, ctxVars
  <2>2. Taken'
    BY <2>1 DEF Taken, Unwatched, Closers
  <2>3. Held' /\ Bound' /\ Answered'
    BY <2>1 DEF Held, Bound, Answered
  <2>4. Served'
    BY <2>1 DEF Served, Closers
  <2> QED
    BY <1>1, <2>2, <2>3, <2>4
<1> QED
  BY <1>2, <1>3

LEMMA ListenServerInv ==
    ASSUME ServerInv, StartBinds \/ StartBindFails \/ StartAnnounces \/ StartAccepts
    PROVE  ServerInv'
<1> USE DEF ServerInv
<1>1. TypeOK'
  BY StartTypeOK DEF StartStep
<1>2. /\ UNCHANGED <<run, cancelled, at, took>> /\ run \in Runs
      /\ start \notin {"down", "building", "serving"} /\ start' # "building"
  BY Types DEF StartBinds, StartBindFails, StartAnnounces, StartAccepts, Return, ctxVars, closerVars
<1>3. Taken'
  BY <1>2 DEF Taken, Unwatched
<1>4. CASE StartBinds
  <2>1. /\ start' = "announcing" /\ UNCHANGED <<app, listening, result, srv>>
        /\ \A r \in Runs : port'[r] = IF r = run THEN "open" ELSE port[r]
        /\ \A r \in Runs : port[r] # "open"
    BY <1>4, Types DEF StartBinds
  <2> QED
    BY <1>1, <1>2, <1>3, <2>1 DEF Held, Bound, Served, Answered
<1>5. CASE StartBindFails
  <2>1. /\ start = "binding" /\ start' = "down" /\ app' = Nil /\ UNCHANGED <<listening, port, srv>>
        /\ result'[run] = "error" /\ \A r \in Runs : r # run => result'[r] = result[r]
    BY <1>2, <1>5, Types DEF StartBindFails, Return, serverVars
  <2> QED
    BY <1>1, <1>2, <1>3, <2>1 DEF Held, Bound, Served, Answered
<1>6. CASE StartAnnounces
  <2>1. /\ start = "announcing" /\ start' = "accepting" /\ listening' = TRUE
        /\ UNCHANGED <<app, result, port, srv>>
    BY <1>6 DEF StartAnnounces, serverVars
  <2> QED
    BY <1>1, <1>2, <1>3, <2>1 DEF Held, Bound, Served, Answered
<1>7. CASE StartAccepts
  <2>1. /\ start = "accepting" /\ start' = "serving"
        /\ UNCHANGED <<app, listening, result, port>>
        /\ \A r \in Runs : srv'[r] = IF r = run THEN "serving" ELSE srv[r]
    BY <1>7, Types DEF StartAccepts
  <2>2. srv[run] = "none" /\ port[run] = "open"
    BY <1>2, <2>1 DEF Served, Bound
  <2>3. \A a \in Closers : at[a] = "draining" => took[a] # run /\ took[a] \in Runs
    BY <2>2, Types DEF Served, Taken
  <2> QED
    BY <1>1, <1>2, <1>3, <2>1, <2>2, <2>3 DEF Held, Bound, Served, Answered
<1> QED
  BY <1>4, <1>5, <1>6, <1>7

LEMMA EndServerInv == ASSUME ServerInv, StartEnds \/ ServeFails PROVE ServerInv'
<1> USE DEF ServerInv
<1>1. TypeOK'
  BY StartTypeOK DEF StartStep
<1>2. /\ UNCHANGED <<run, cancelled, at, took>> /\ run \in Runs /\ app' = Nil
      /\ start = "serving" /\ start' = "down"
  BY Types DEF StartEnds, EndsWith, ServeFails, Return, ctxVars, closerVars
<1>3. Taken'
  BY <1>2 DEF Taken, Unwatched
<1>4. CASE StartEnds
  <2>1. /\ UNCHANGED <<port, srv>> /\ listening' = FALSE /\ srv[run] \in {"draining", "stopped"}
        /\ \A r \in Runs : r # run => result'[r] = result[r]
    BY <1>4, Types DEF StartEnds, EndsWith, serverVars, Return
  <2> QED
    BY <1>1, <1>2, <1>3, <2>1 DEF Held, Bound, Served, Answered
<1>5. CASE ServeFails
  <2>1. /\ \A r \in Runs : srv'[r] = IF r = run THEN "broken" ELSE srv[r]
        /\ \A r \in Runs : result'[r] = IF r = run THEN "error" ELSE result[r]
        /\ UNCHANGED <<listening, port>> /\ srv[run] = "serving"
    BY <1>2, <1>5, Types DEF ServeFails, Return
  <2>2. \A a \in Closers : at[a] = "draining" => took[a] \in Runs /\ took[a] # run
    BY <2>1, Types DEF Taken, Served
  <2> QED
    BY <1>1, <1>2, <1>3, <2>1, <2>2 DEF Held, Bound, Served, Answered
<1> QED
  BY <1>4, <1>5

LEMMA TakesServerInv == ASSUME ServerInv, NEW p \in Stoppers, StopTakes(p) PROVE ServerInv'
<1> USE DEF ServerInv
<1>1. TypeOK'
  BY StopTypeOK
<1>2. /\ UNCHANGED <<app, listening, start, run, result, port, srv, cancelled>>
      /\ at[p] = "idle" /\ p \notin Runs
      /\ \A a \in Closers : at'[a] = IF a = p THEN (IF app = Nil THEN "done" ELSE "shutting")
                                              ELSE at[a]
      /\ \A a \in Closers : took'[a] = IF a = p THEN app ELSE took[a]
  BY Types DEF StopTakes, startVars, serverVars, Closers
<1>3. took[p] = Nil /\ app \in {Nil, run} /\ (start = "building" => app # run)
  BY <1>2, Types DEF Taken, Held
<1>4. Taken'
  <2>1. \A a \in Closers : took'[a] <= run /\ (start = "building" => took'[a] # run)
    BY <1>2, <1>3, Types DEF Taken
  <2>2. \A r \in Runs : at'[r] = at[r] /\ took'[r] = took[r]
    BY <1>2 DEF Closers
  <2>3. \A a \in Closers : at'[a] \in {"shutting", "draining"} => took'[a] # Nil
    BY <1>2, <1>3 DEF Taken
  <2>4. \A q \in Stoppers : at'[q] = "idle" => took'[q] = Nil
    BY <1>2, <1>3 DEF Taken, Closers
  <2> QED
    BY <1>2, <2>1, <2>2, <2>3, <2>4 DEF Taken, Unwatched
<1>5. Asked(run) /\ start = "serving" => Asked(run)'
  BY <1>2, <1>3, Types DEF Asked, Closers
<1> QED
  BY <1>1, <1>2, <1>4, <1>5 DEF Held, Bound, Served, Answered

LEMMA WatcherServerInv ==
    ASSUME ServerInv, NEW r \in Runs, WatcherWakes(r) \/ WatcherLeaves(r)
    PROVE  ServerInv'
<1> USE DEF ServerInv
<1>1. TypeOK'
  BY WatcherTypeOK
<1>2. /\ UNCHANGED <<app, listening, start, run, result, port, srv, cancelled>>
      /\ at[r] = "idle" /\ at'[r] \in {"shutting", "done"}
      /\ at'[r] = "shutting" => r \in cancelled
      /\ \A a \in Closers : a # r => at'[a] = at[a]
  BY Types DEF WatcherWakes, WakesFor, WatcherLeaves, startVars, serverVars, ctxVars, Closers
<1>3. took[r] = r
  BY <1>2 DEF Taken
<1>4. \A a \in Closers : took'[a] = took[a]
  BY <1>3, Types DEF WatcherWakes, WakesFor, WatcherLeaves
<1>5. Taken'
  BY <1>2, <1>3, <1>4 DEF Taken, Unwatched, Closers
<1>6. Asked(run)' = Asked(run)
  BY <1>2, <1>4 DEF Asked, Closers
<1>7. Served'
  BY <1>2, <1>4 DEF Served
<1> QED
  BY <1>1, <1>2, <1>5, <1>6, <1>7 DEF Held, Bound, Answered

LEMMA CloserServerInv == ASSUME ServerInv, NEW a \in Closers, CloserStep(a) PROVE ServerInv'
<1> USE DEF ServerInv
<1> DEFINE s == took[a]
<1>1. TypeOK'
  BY CloserTypeOK
<1>2. /\ UNCHANGED <<app, listening, start, run, result, cancelled, took>>
      /\ at[a] \in {"shutting", "draining"} /\ s \in Runs
      /\ \A b \in Closers : b # a => at'[b] = at[b]
  <2>1. s # Nil
    BY DEF CloserStep, ShutsDown, DrainEnds, Taken
  <2> QED
    BY <2>1, Types DEF CloserStep, ShutsDown, DrainEnds, startVars, ctxVars
<1>3. a \in Runs => s = a /\ a \in cancelled
  BY <1>2 DEF Taken
<1>4. Asked(s) /\ Asked(run)' = Asked(run)
  BY <1>2, <1>3 DEF Asked, Closers
<1>5. Held'
  BY <1>2 DEF Held
<1>6. ASSUME at'[a] \in {"draining", "missed", "done"}, at'[a] = "draining" => at[a] = "shutting"
      PROVE  Taken'
  BY <1>2, <1>6 DEF Taken, Unwatched, Closers
<1>7. CASE ShutsDown(a) /\ srv[s] \in {"serving", "broken"}
  <2>1. /\ at'[a] = "draining" /\ at[a] = "shutting"
        /\ \/ srv[s] = "serving" /\ s = run /\ start = "serving"
           \/ srv[s] = "broken" /\ (s # run \/ start = "down")
        /\ \A r \in Runs : srv'[r] = IF r = s THEN "draining" ELSE srv[r]
        /\ \A r \in Runs : port'[r] = IF r = s THEN "closed" ELSE port[r]
    <3>1. \/ srv[s] = "serving" /\ s = run /\ start = "serving"
          \/ srv[s] = "broken" /\ (s # run \/ start = "down")
      BY <1>2, <1>7 DEF Served
    <3>2. /\ at[a] = "shutting" /\ at' = [at EXCEPT ![a] = "draining"]
          /\ srv' = [srv EXCEPT ![s] = "draining"] /\ port' = [port EXCEPT ![s] = "closed"]
      BY <1>7 DEF ShutsDown
    <3> QED
      BY <3>1, <3>2, Types
  <2>2. ASSUME NEW b \in Closers, at'[b] = "draining"
        PROVE  srv'[took[b]] \in {"draining", "stopped"}
    <3>1. CASE took[b] = s
      BY <1>2, <2>1, <3>1
    <3>2. CASE took[b] # s
      <4>1. at[b] = "draining"
        BY <1>2, <2>2, <3>2
      <4>2. took[b] \in Runs
        BY <4>1, Types DEF Taken
      <4> QED
        BY <2>1, <3>2, <4>1, <4>2 DEF Served
    <3> QED
      BY <3>1, <3>2
  <2>3. Bound'
    BY <1>2, <2>1, Types DEF Bound
  <2>4. Served'
    BY <1>2, <2>1, <2>2, Types DEF Served
  <2>5. Answered'
    BY <1>2, <1>4, <2>1, Types DEF Answered
  <2> QED
    BY <1>1, <1>5, <1>6, <2>1, <2>3, <2>4, <2>5
<1>8. CASE ShutsDown(a) /\ srv[s] \notin {"serving", "broken"}
  <2>1. at'[a] \in {"missed", "done"} /\ at[a] = "shutting" /\ UNCHANGED <<srv, port>>
    BY <1>2, <1>8, Types DEF ShutsDown, serverVars
  <2>2. Bound' /\ Served' /\ Answered'
    BY <1>2, <1>4, <2>1 DEF Bound, Served, Answered
  <2> QED
    BY <1>1, <1>5, <1>6, <2>1, <2>2
<1>9. CASE DrainEnds(a)
  <2>1. /\ at'[a] = "done" /\ at[a] = "draining" /\ port' = port
        /\ \A r \in Runs : srv'[r] = IF r = s THEN "stopped" ELSE srv[r]
    BY <1>2, <1>9, Types DEF DrainEnds
  <2>2. srv[s] \in {"draining", "stopped"}
    BY <2>1 DEF Served
  <2>3. ASSUME NEW b \in Closers, at'[b] = "draining"
        PROVE  srv'[took[b]] \in {"draining", "stopped"}
    <3>1. at[b] = "draining"
      BY <1>2, <2>1, <2>3
    <3>2. took[b] \in Runs
      BY <3>1, Types DEF Taken
    <3> QED
      BY <2>1, <3>1, <3>2 DEF Served
  <2>4. Bound'
    BY <1>2, <2>1, <2>2 DEF Bound
  <2>5. Served'
    BY <1>2, <2>1, <2>2, <2>3, Types DEF Served
  <2>6. Answered'
    BY <1>2, <1>4, <2>1, <2>2, Types DEF Answered
  <2> QED
    BY <1>1, <1>5, <1>6, <2>1, <2>4, <2>5, <2>6
<1> QED
  BY <1>7, <1>8, <1>9 DEF CloserStep

LEMMA NextServerInv == ServerInv /\ [Next]_vars => ServerInv'
<1> SUFFICES ASSUME ServerInv, [Next]_vars PROVE ServerInv'
  OBVIOUS
<1>1. CASE UNCHANGED vars \/ SupervisorCancels
  <2>1. /\ UNCHANGED <<app, listening, start, run, result, port, srv, at, took>>
        /\ cancelled \subseteq cancelled'
    BY <1>1 DEF vars, SupervisorCancels, startVars, serverVars, closerVars, ctxVars
  <2>2. TypeOK'
    BY NextTypeOK DEF ServerInv
  <2>3. cancelled' \subseteq 1..run
    <3>1. cancelled \subseteq 1..run /\ run \in 0..MaxRuns
      BY Types DEF ServerInv, Taken
    <3>2. CASE UNCHANGED vars
      BY <3>1, <3>2 DEF vars, ctxVars
    <3>3. CASE SupervisorCancels
      <4>1. run \in 1..run /\ cancelled' = cancelled \cup {run}
        BY <3>1, <3>3 DEF SupervisorCancels
      <4> QED
        BY <3>1, <4>1
    <3> QED
      BY <1>1, <3>2, <3>3
  <2>4. Taken'
    BY <2>1, <2>3 DEF ServerInv, Taken, Unwatched
  <2>5. Asked(run) => Asked(run)'
    BY <2>1 DEF Asked
  <2> QED
    BY <2>1, <2>2, <2>4, <2>5 DEF ServerInv, Held, Bound, Served, Answered
<1> QED
  BY <1>1, BeginServerInv, ListenServerInv, EndServerInv, TakesServerInv, WatcherServerInv,
     CloserServerInv DEF Next, StartStep, WatcherStep, Closers

\* The strengthening that the two theorems below rest on.
THEOREM ServerInvariant == Spec => []ServerInv
BY InitServerInv, NextServerInv, PTL DEF Spec

-----------------------------------------------------------------------------
(* Who closes the socket of a server that broke: a watcher leaves it only  *)
(* to a Stop, which has closed the stopCh of that run.                     *)

Stopped(r) == \E p \in Stoppers : \/ took[p] = r /\ at[p] \in {"shutting", "missed"}
                                  \/ took[p] = Nil /\ at[p] = "done"

Guarded ==
    /\ app # Nil => stopCh = app
    /\ stopCh <= run /\ (start = "building" => stopCh < run)
    /\ \A c \in stopClosed : c <= run /\ (start = "building" => c < run)
    /\ \A r \in Runs : at[r] # "none" => watched[r] = r
    /\ \A r \in Runs : ~Unwatched(r) /\ srv[r] \in {"none", "serving", "broken"} =>
           /\ at[r] \in {"idle", "shutting", "missed"} \/ r \in stopClosed
           /\ r \in stopClosed => Stopped(r)

LEMMA InitGuarded == Init => Guarded
<1> SUFFICES ASSUME Init PROVE Guarded
  OBVIOUS
<1>1. /\ app = 0 /\ stopCh = 0 /\ run = 0 /\ start = "down" /\ stopClosed = {}
      /\ \A r \in Runs : at[r] = "none"
  BY DEF Init
<1> QED
  BY <1>1 DEF Guarded, Unwatched

LEMMA StartGuarded ==
    ASSUME ServerInv, Guarded, StartBegins \/ StartStep \/ ServeFails
    PROVE  Guarded'
<1>1. run \in 0..MaxRuns /\ stopClosed' = stopClosed /\ stopClosed \subseteq 0..MaxRuns
  BY Types DEF ServerInv, TypeOK, StartBegins, StartStep, StartPublishes, PublishesWith,
     StartBinds, StartBindFails, StartAnnounces, StartAccepts, StartEnds, EndsWith,
     ServeFails, ctxVars
<1>2. CASE StartBegins
  <2>1. /\ start = "down" /\ start' = "building" /\ run' = run + 1
        /\ UNCHANGED <<app, stopCh, srv, at, took, watched>>
    BY <1>2 DEF StartBegins, serverVars, closerVars
  <2>2. \A r \in Runs : ~Unwatched(r)' => ~Unwatched(r)
    BY <1>1, <2>1 DEF Unwatched
  <2>3. \A r : Stopped(r)' <=> Stopped(r)
    BY <2>1 DEF Stopped
  <2>4. stopCh \in 0..MaxRuns
    BY DEF ServerInv, TypeOK
  <2> QED
    BY <1>1, <2>1, <2>2, <2>3, <2>4 DEF Guarded
<1>3. CASE StartPublishes
  <2>1. /\ start = "building" /\ start' = "binding" /\ run' = run /\ run \in Runs
        /\ app' = run /\ stopCh' = run /\ srv' = srv
        /\ \A a \in Closers : at'[a] = IF a = run THEN "idle" ELSE at[a]
        /\ \A a \in Closers : took'[a] = IF a = run THEN run ELSE took[a]
        /\ \A r \in Runs : watched'[r] = IF r = run THEN run ELSE watched[r]
    BY <1>3, Types DEF StartPublishes, PublishesWith, serverVars, ServerInv, TypeOK
  <2>2. \A r : Stopped(r)' <=> Stopped(r)
    BY <2>1 DEF Stopped, Closers
  <2>3. run \notin stopClosed
    BY <1>1, <2>1 DEF Guarded
  <2>4. \A r \in Runs : r # run /\ ~Unwatched(r)' => ~Unwatched(r)
    BY <2>1 DEF Unwatched
  <2> QED
    BY <1>1, <2>1, <2>2, <2>3, <2>4 DEF Guarded
<1>4. CASE (StartStep /\ ~StartPublishes) \/ ServeFails
  <2>1. /\ start # "building" /\ start' # "building" /\ app' \in {Nil, app}
        /\ UNCHANGED <<stopCh, run, at, took, watched>>
    BY <1>4 DEF StartStep, StartBinds, StartBindFails, StartAnnounces, StartAccepts,
       StartEnds, EndsWith, ServeFails, Return, closerVars
  <2>2. \A r \in Runs : srv'[r] \in {"none", "serving", "broken"} =>
                             srv[r] \in {"none", "serving", "broken"}
    <3>1. srv' = srv \/ srv[run] \in {"none", "serving"}
      BY <1>4, Types DEF StartStep, StartBinds, StartBindFails, StartAnnounces, StartAccepts,
         StartEnds, EndsWith, ServeFails, serverVars, ServerInv, Served
    <3>2. srv' = srv \/ \E next \in {"serving", "broken"} : srv' = [srv EXCEPT ![run] = next]
      BY <1>4 DEF StartStep, StartBinds, StartBindFails, StartAnnounces, StartAccepts,
         StartEnds, EndsWith, ServeFails, serverVars
    <3> QED
      BY <3>1, <3>2, Types DEF ServerInv
  <2>3. \A r : Stopped(r)' <=> Stopped(r)
    BY <2>1 DEF Stopped
  <2>4. \A r : Unwatched(r)' <=> Unwatched(r)
    BY <2>1 DEF Unwatched
  <2> QED
    BY <1>1, <2>1, <2>2, <2>3, <2>4 DEF Guarded
<1> QED
  BY <1>2, <1>3, <1>4

LEMMA TakesGuarded ==
    ASSUME ServerInv, Guarded, NEW p \in Stoppers, StopTakes(p)
    PROVE  Guarded'
<1>1. /\ UNCHANGED <<app, stopCh, start, run, srv, watched>>
      /\ at[p] = "idle" /\ stopClosed' = stopClosed \cup {stopCh}
      /\ \A a \in Closers : at'[a] = IF a = p THEN (IF app = Nil THEN "done" ELSE "shutting")
                                              ELSE at[a]
      /\ \A a \in Closers : took'[a] = IF a = p THEN app ELSE took[a]
  BY Types DEF StopTakes, startVars, serverVars, Closers, ServerInv
<1>2. \A r \in Runs : Stopped(r) => Stopped(r)'
  BY <1>1 DEF Stopped, Closers
<1>3. stopCh \in Runs => Stopped(stopCh)'
  BY <1>1 DEF Stopped, Guarded, Closers
<1>4. \A r \in Runs : at'[r] = at[r]
  BY <1>1 DEF Closers
<1>5. \A r : Unwatched(r)' <=> Unwatched(r)
  BY <1>1 DEF Unwatched
<1> QED
  BY <1>1, <1>2, <1>3, <1>4, <1>5 DEF Guarded

LEMMA WatcherGuarded ==
    ASSUME ServerInv, Guarded, NEW r \in Runs, WatcherWakes(r) \/ WatcherLeaves(r)
    PROVE  Guarded'
<1>1. /\ UNCHANGED <<app, stopCh, start, run, srv, stopClosed, watched>>
      /\ at[r] = "idle"
      /\ at'[r] = "shutting" \/ (at'[r] = "done" /\ watched[r] \in stopClosed)
      /\ \A a \in Closers : a # r => at'[a] = at[a] /\ took'[a] = took[a]
  BY Types DEF WatcherWakes, WakesFor, WatcherLeaves, startVars, serverVars, ctxVars, Closers,
     ServerInv
<1>2. \A q \in Runs : Stopped(q)' <=> Stopped(q)
  BY <1>1 DEF Stopped, Closers
<1>3. watched[r] = r
  BY <1>1 DEF Guarded
<1>4. \A q : Unwatched(q)' <=> Unwatched(q)
  BY <1>1 DEF Unwatched
<1>5. \A q \in Runs : q # r => at'[q] = at[q]
  BY <1>1 DEF Closers
<1> QED
  BY <1>1, <1>2, <1>3, <1>4, <1>5 DEF Guarded

LEMMA CloserGuarded ==
    ASSUME ServerInv, Guarded, NEW a \in Closers, CloserStep(a)
    PROVE  Guarded'
<1> DEFINE s == took[a]
<1>1. /\ UNCHANGED <<app, stopCh, start, run, stopClosed, took, watched>> /\ s \in Runs
      /\ at[a] \in {"shutting", "draining"}
      /\ \A b \in Closers : b # a => at'[b] = at[b]
  <2>1. s # Nil
    BY DEF CloserStep, ShutsDown, DrainEnds, ServerInv, Taken
  <2> QED
    BY <2>1, Types DEF CloserStep, ShutsDown, DrainEnds, startVars, ctxVars, ServerInv
<1>2. /\ \A r \in Runs : srv'[r] \in {"none", "serving", "broken"} => srv'[r] = srv[r]
      /\ srv'[s] \in {"none", "serving", "broken"} => at'[a] = "missed" /\ at[a] = "shutting"
  <2>1. CASE ShutsDown(a) /\ srv[s] \in {"serving", "broken"}
    <3>1. srv' = [srv EXCEPT ![s] = "draining"]
      BY <2>1 DEF ShutsDown
    <3> QED
      BY <1>1, <3>1, Types DEF ServerInv
  <2>2. CASE ShutsDown(a) /\ srv[s] \notin {"serving", "broken"}
    BY <1>1, <2>2, Types DEF ShutsDown, ServerInv, serverVars
  <2>3. CASE DrainEnds(a)
    <3>1. srv' = [srv EXCEPT ![s] = "stopped"]
      BY <2>3 DEF DrainEnds
    <3> QED
      BY <1>1, <3>1, Types DEF ServerInv
  <2> QED
    BY <2>1, <2>2, <2>3 DEF CloserStep
<1>3. ASSUME NEW r \in Runs, srv'[r] \in {"none", "serving", "broken"}
      PROVE  /\ at[r] \in {"idle", "shutting", "missed"} =>
                    at'[r] \in {"idle", "shutting", "missed"}
             /\ Stopped(r) => Stopped(r)'
  <2>1. a \in Runs => s = a
    BY <1>1 DEF ServerInv, Taken
  <2>2. CASE s = r
    BY <1>1, <1>2, <1>3, <2>1, <2>2 DEF Stopped, Closers
  <2>3. CASE s # r
    BY <1>1, <1>2, <1>3, <2>1, <2>3 DEF Stopped, Closers
  <2> QED
    BY <2>2, <2>3
<1>4. \A r \in Runs : at'[r] # "none" => at[r] # "none"
  BY <1>1 DEF Closers
<1>5. \A r : Unwatched(r)' <=> Unwatched(r)
  BY <1>1 DEF Unwatched
<1> QED
  BY <1>1, <1>2, <1>3, <1>4, <1>5 DEF Guarded

LEMMA NextGuarded == ServerInv /\ Guarded /\ [Next]_vars => Guarded'
<1> SUFFICES ASSUME ServerInv, Guarded, [Next]_vars PROVE Guarded'
  OBVIOUS
<1>1. CASE UNCHANGED vars \/ SupervisorCancels
  <2>1. UNCHANGED <<app, stopCh, start, run, srv, stopClosed, at, took, watched>>
    BY <1>1 DEF vars, SupervisorCancels, startVars, serverVars, closerVars, ctxVars
  <2> QED
    BY <2>1 DEF Guarded, Stopped, Unwatched
<1> QED
  BY <1>1, StartGuarded, TakesGuarded, WatcherGuarded, CloserGuarded DEF Next, WatcherStep, Closers

\* A run that serves is the one Stop finds and Health reports; Start leaves neither an
\* app nor, unless Serve broke, the flag behind; and a socket that Serve left
\* when it broke is attended to, unless its shutdown was missed, or a Stop came
\* after it and found no app.
THEOREM ServingStaysPublished == Spec => []ServingIsPublished
<1>1. ServerInv /\ Guarded => ServingIsPublished
  <2> SUFFICES ASSUME ServerInv, Guarded PROVE ServingIsPublished
    OBVIOUS
  <2>1. ASSUME NEW r \in Runs, srv[r] = "serving"
        PROVE  start = "serving" /\ run = r /\ app = r /\ Healthy
    BY <2>1 DEF ServerInv, Served, Held, Healthy
  <2>2. start = "down" => app = Nil /\ (run # 0 => (result[run] = "nil" => ~listening))
    BY DEF ServerInv, Held
  <2>3. ASSUME NEW r \in Runs, srv[r] = "broken" PROVE Attended(r)
    <3>1. ~Unwatched(r) /\ took[r] \in {Nil, r} /\ (at[r] # "none" => took[r] = r)
      BY <2>3, Types DEF ServerInv, Served, Unwatched, Taken
    <3>2. CASE r \in stopClosed
      <4>1. Stopped(r)
        BY <2>3, <3>1, <3>2 DEF Guarded
      <4> QED
        BY <3>2, <4>1 DEF Stopped, Attended, Missed, Closers
    <3>3. CASE r \notin stopClosed
      <4>1. at[r] \in {"idle", "shutting", "missed"}
        BY <2>3, <3>1, <3>3 DEF Guarded
      <4> QED
        BY <3>1, <4>1 DEF Attended, Missed, Closers
    <3> QED
      BY <3>2, <3>3
  <2>4. \A r \in Runs : port[r] = "open" =>
            \/ run = r /\ start \in {"announcing", "accepting", "serving"}
            \/ srv[r] = "broken" /\ result[r] = "error" /\ Attended(r)
    BY <2>3 DEF ServerInv, Bound, Served
  <2> QED
    BY <2>1, <2>2, <2>4 DEF ServingIsPublished
<1>2. Spec => []Guarded
  BY ServerInvariant, InitGuarded, NextGuarded, PTL DEF Spec
<1> QED
  BY <1>1, <1>2, ServerInvariant, PTL

-----------------------------------------------------------------------------
(* The contract with the supervisor, step by step.                         *)

IsAsked == run # 0 /\ Asked(run)
Phase == CASE start = "down" -> "down"
           [] start \in {"building", "binding", "announcing"} -> "starting"
           [] OTHER -> "ready"
Outcome == IF start = "down" /\ run # 0 THEN result[run] ELSE "none"

ContractStep == [Contract!Next]_(Contract!vars)

\* A step that Start does not notice asks it to end, or changes nothing.
LEMMA AsideStep ==
    ASSUME UNCHANGED <<start, run, result>>, IsAsked => IsAsked'
    PROVE  ContractStep
<1>1. Phase' = Phase /\ Outcome' = Outcome
  BY DEF Phase, Outcome
<1>2. IsAsked \in BOOLEAN /\ IsAsked' \in BOOLEAN
  BY DEF IsAsked
<1>3. IsAsked' = TRUE \/ IsAsked' = IsAsked
  BY <1>2
<1> QED
  BY <1>1, <1>3 DEF ContractStep, Contract!Next, Contract!Ask, Contract!vars, Phase, Outcome, IsAsked

LEMMA BeginsStep == ASSUME ServerInv, StartBegins PROVE ContractStep
<1>1. /\ start = "down" /\ start' = "building" /\ run' = run + 1 /\ run \in 0..MaxRuns
      /\ UNCHANGED <<cancelled, took>>
  BY Types DEF StartBegins, ctxVars, closerVars, ServerInv
<1>2. run + 1 \notin cancelled /\ \A p \in Stoppers : took[p] # run + 1
  BY <1>1, Types DEF ServerInv, Taken, Closers
<1>3. Asked(run)' = FALSE
  BY <1>1, <1>2 DEF Asked
<1>4. IsAsked' = FALSE
  BY <1>3 DEF IsAsked
<1> QED
  BY <1>1, <1>4 DEF ContractStep, Contract!Next, Contract!Begin, IsAsked

\* Start returns: nil only if it was asked.
LEMMA ReturnsStep ==
    ASSUME ServerInv, NEW res \in {"nil", "error"}, Return(res), start # "down",
           UNCHANGED <<cancelled, took>>,
           res = "nil" => Asked(run)
    PROVE  ContractStep
<1>1. start' = "down" /\ run' = run /\ run # 0 /\ result'[run] = res
  BY Types DEF Return, ServerInv
<1>2. Asked(run)' = Asked(run)
  BY <1>1 DEF Asked
<1>3. IsAsked' = IsAsked /\ (res = "nil" => IsAsked)
  BY <1>1, <1>2 DEF IsAsked
<1>4. CASE res = "nil"
  BY <1>1, <1>3, <1>4 DEF ContractStep, Contract!Next, Contract!End, IsAsked
<1>5. CASE res # "nil"
  BY <1>1, <1>3, <1>5 DEF ContractStep, Contract!Next, Contract!Fail, IsAsked
<1> QED
  BY <1>4, <1>5

LEMMA StartContract == ASSUME ServerInv, StartStep \/ ServeFails PROVE ContractStep
<1>1. CASE StartPublishes
  <2>1. /\ start = "building" /\ start' = "binding" /\ UNCHANGED <<run, result, cancelled>>
        /\ run \in Runs
    BY <1>1, Types DEF StartPublishes, PublishesWith, ctxVars, ServerInv
  <2>2. \A p \in Stoppers : took'[p] = took[p]
    BY <1>1, <2>1, Types DEF StartPublishes, PublishesWith, ServerInv, Closers
  <2>3. Phase' = Phase /\ Outcome' = Outcome
    BY <2>1 DEF Phase, Outcome
  <2>4. Asked(run)' = Asked(run)
    BY <2>1, <2>2 DEF Asked
  <2>5. IsAsked' = IsAsked
    BY <2>1, <2>4 DEF IsAsked
  <2> QED
    BY <2>3, <2>5 DEF ContractStep, Contract!vars, Phase, Outcome, IsAsked
<1>2. ASSUME UNCHANGED <<run, cancelled, took>> PROVE IsAsked' = IsAsked
  <2>1. Asked(run)' = Asked(run)
    BY <1>2 DEF Asked
  <2> QED
    BY <1>2, <2>1 DEF IsAsked
<1>3. CASE StartBinds \/ StartAccepts
  <2>1. /\ UNCHANGED <<run, cancelled, took>>
        /\ \/ start = "binding" /\ start' = "announcing"
           \/ start = "accepting" /\ start' = "serving"
    BY <1>3 DEF StartBinds, StartAccepts, ctxVars, closerVars
  <2>2. Phase' = Phase /\ Outcome' = Outcome
    BY <2>1 DEF Phase, Outcome
  <2> QED
    BY <1>2, <2>1, <2>2 DEF ContractStep, Contract!vars, Phase, Outcome, IsAsked
<1>4. CASE StartAnnounces
  BY <1>2, <1>4 DEF StartAnnounces, ContractStep, Contract!Next, Contract!Ready, IsAsked,
     ctxVars, closerVars
<1>5. CASE StartBindFails \/ ServeFails
  BY <1>5, ReturnsStep DEF StartBindFails, ServeFails, ctxVars, closerVars
<1>6. CASE StartEnds
  BY <1>6, ReturnsStep DEF StartEnds, EndsWith, ctxVars, closerVars, ServerInv, Answered
<1> QED
  BY <1>1, <1>3, <1>4, <1>5, <1>6 DEF StartStep

LEMMA CloserContract ==
    ASSUME ServerInv,
           \/ \E p \in Stoppers : StopTakes(p) \/ CloserStep(p)
           \/ \E r \in Runs : WatcherStep(r)
    PROVE  ContractStep
<1>1. UNCHANGED <<start, run, result, cancelled>>
  BY DEF StopTakes, CloserStep, ShutsDown, DrainEnds, WatcherStep, WatcherWakes, WakesFor,
     WatcherLeaves, startVars, ctxVars
<1>2. ASSUME NEW q \in Stoppers, took[q] # Nil PROVE took'[q] = took[q]
  <2>1. \A r \in Runs : q # r
    BY Assumption
  <2>2. CASE \E p \in Stoppers : StopTakes(p)
    <3>1. PICK p \in Stoppers : StopTakes(p)
      BY <2>2
    <3>2. p # q
      BY <1>2, <3>1 DEF StopTakes, ServerInv, Taken
    <3> QED
      BY <3>1, <3>2, Types DEF StopTakes, ServerInv, Closers
  <2>3. CASE \E r \in Runs : WatcherWakes(r)
    BY <2>1, <2>3, Types DEF WatcherWakes, WakesFor, ServerInv, Closers
  <2>4. CASE \/ \E a \in Closers : CloserStep(a)
             \/ \E r \in Runs : WatcherLeaves(r)
    BY <2>4 DEF CloserStep, ShutsDown, DrainEnds, WatcherLeaves
  <2> QED
    BY <2>2, <2>3, <2>4 DEF WatcherStep, Closers
<1>3. run # 0 /\ Asked(run) => Asked(run)'
  BY <1>1, <1>2 DEF Asked
<1>4. IsAsked => IsAsked'
  BY <1>1, <1>3 DEF IsAsked
<1> QED
  BY <1>1, <1>4, AsideStep

LEMMA NextContract == ServerInv /\ [Next]_vars => ContractStep
<1> SUFFICES ASSUME ServerInv, [Next]_vars PROVE ContractStep
  OBVIOUS
<1>1. CASE UNCHANGED vars \/ SupervisorCancels
  <2>1. UNCHANGED <<start, run, result, took>> /\ cancelled \subseteq cancelled'
    BY <1>1 DEF vars, SupervisorCancels, startVars, ctxVars, closerVars
  <2>2. Asked(run) => Asked(run)'
    BY <2>1 DEF Asked
  <2>3. IsAsked => IsAsked'
    BY <2>1, <2>2 DEF IsAsked
  <2> QED
    BY <2>1, <2>3, AsideStep
<1> QED
  BY <1>1, BeginsStep, StartContract, CloserContract DEF Next

\* The component keeps its contract with the supervisor: Start returns nil only
\* for its own context or a Stop that took its app, and the watcher of an
\* earlier run cannot end a later one.
THEOREM ImplementsContract == Spec => KeepsContract
<1>1. Init => Contract!Init
  <2> SUFFICES ASSUME Init PROVE Contract!Init
    OBVIOUS
  <2>1. IsAsked \in BOOLEAN
    BY DEF IsAsked
  <2> QED
    BY <2>1 DEF Init, Contract!Init, IsAsked
<1> QED
  BY <1>1, ServerInvariant, NextContract, PTL
     DEF Spec, KeepsContract, Contract!Spec, ContractStep

=============================================================================
