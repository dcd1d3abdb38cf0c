------------------------ MODULE PrometheusServerProofs ------------------------
(***************************************************************************)
(* Theorems about PrometheusServer for any calls of Stop and any number of *)
(* runs.                                                                   *)
(***************************************************************************)
EXTENDS PrometheusServer, TLAPS

USE Assumption DEF Runs, Nil, PreClosed

-----------------------------------------------------------------------------
(* Type correctness.                                                       *)

LEMMA InitTypeOK == Init => TypeOK
<1> SUFFICES ASSUME Init PROVE TypeOK
  OBVIOUS
<1>1. [stopCh |-> PreClosed, server |-> Nil] \in [stopCh : 0..PreClosed, server : 0..MaxRuns]
  OBVIOUS
<1>2. took \in [Stoppers -> [stopCh : 0..PreClosed, server : 0..MaxRuns]]
  BY <1>1 DEF Init
<1> QED
  BY <1>2 DEF Init, TypeOK

LEMMA StartTypeOK == ASSUME TypeOK, StartBegins \/ StartStep PROVE TypeOK'
<1> USE DEF TypeOK, Return, startVars, serverVars, ctxVars, stopVars
<1>1. CASE StartBegins
  BY <1>1 DEF StartBegins
<1>2. CASE StartBinds \/ StartBindFails
  BY <1>2 DEF StartBinds, StartBindFails, BindFailsWith
<1>3. CASE StartPublishes
  BY <1>3 DEF StartPublishes
<1>4. CASE StartAnnounces
  BY <1>4 DEF StartAnnounces
<1>5. CASE StartWakes
  BY <1>5 DEF StartWakes
<1> QED
  BY <1>1, <1>2, <1>3, <1>4, <1>5 DEF StartStep

LEMMA ServeTypeOK ==
    ASSUME TypeOK, NEW r \in Runs, ServeStep(r) \/ ServeFails(r)
    PROVE  TypeOK'
<1> USE DEF TypeOK, startVars, ctxVars, stopVars
<1>1. CASE ServeBegins(r)
  BY <1>1 DEF ServeBegins
<1>2. CASE ServeEnds(r) \/ ServeFails(r)
  BY <1>2 DEF ServeEnds, ServeFails
<1> QED
  BY <1>1, <1>2 DEF ServeStep

LEMMA StopTypeOK ==
    ASSUME TypeOK, NEW p \in Stoppers, StopTakes(p) \/ StopStep(p)
    PROVE  TypeOK'
<1> USE DEF TypeOK, startVars, serverVars, ctxVars
<1>1. CASE StopTakes(p)
  BY <1>1 DEF StopTakes, StopLeaves
<1>2. CASE StopSelects(p)
  BY <1>2 DEF StopSelects
<1>3. CASE StopSignals(p)
  <2>1. took[p].stopCh \in 0..PreClosed
    OBVIOUS
  <2>2. stopClosed' \subseteq 0..PreClosed
    BY <1>3, <2>1 DEF StopSignals
  <2>3. /\ stop' \in [Stoppers -> {"idle", "selecting", "signalling", "shutting", "done"}]
        /\ UNCHANGED <<server, stopCh, start, run, result, port, shut, serve, cancelled, took>>
    BY <1>3 DEF StopSignals
  <2> QED
    BY <2>2, <2>3
<1>4. CASE StopShuts(p)
  <2>1. /\ UNCHANGED <<server, stopCh, start, run, result, serve, cancelled, stopClosed, took>>
        /\ stop' = [stop EXCEPT ![p] = "done"]
    BY <1>4 DEF StopShuts
  <2>2. shut' \subseteq Runs
    <3>1. took[p].server \in 0..MaxRuns /\ shut \subseteq Runs
      OBVIOUS
    <3>2. CASE took[p].server = Nil
      BY <1>4, <3>1, <3>2 DEF StopShuts
    <3>3. CASE took[p].server # Nil
      <4>1. shut' = shut \cup {took[p].server}
        BY <1>4, <3>3 DEF StopShuts
      <4>2. took[p].server \in Runs
        BY <3>1, <3>3
      <4> QED
        BY <3>1, <4>1, <4>2
    <3> QED
      BY <3>2, <3>3
  <2>3. port' \in [Runs -> {"none", "open", "closed"}]
    <3>1. port' = port \/ port' = [port EXCEPT ![took[p].server] = "closed"]
      BY <1>4 DEF StopShuts
    <3> QED
      BY <3>1
  <2> QED
    BY <2>1, <2>2, <2>3
<1> QED
  BY <1>1, <1>2, <1>3, <1>4 DEF StopStep

LEMMA NextTypeOK == TypeOK /\ [Next]_vars => TypeOK'
<1> SUFFICES ASSUME TypeOK, [Next]_vars PROVE TypeOK'
  OBVIOUS
<1>1. CASE UNCHANGED vars
  BY <1>1 DEF TypeOK, vars, startVars, serverVars, ctxVars, stopVars
<1>2. CASE SupervisorCancels
  BY <1>2 DEF TypeOK, SupervisorCancels, startVars, serverVars, stopVars
<1> QED
  BY <1>1, <1>2, StartTypeOK, ServeTypeOK, StopTypeOK DEF Next

\* Every reachable state of the component has its type.
THEOREM TypeCorrect == Spec => []TypeOK
BY InitTypeOK, NextTypeOK, PTL DEF Spec

-----------------------------------------------------------------------------
(* The stop channels: one is held by the component or by one Stop, what is *)
(* closed was taken, and that of a run which has not published its own is  *)
(* in nobody's hands.                                                      *)

Took(p, c) == stop[p] # "idle" /\ took[p].stopCh = c

StopChannels ==
    /\ cancelled \subseteq 1..run
    /\ \A c \in stopClosed : c = PreClosed \/ \E p \in Stoppers : Took(p, c)
    /\ PreClosed \in stopClosed
    /\ stopCh # PreClosed => stopCh <= run /\ stopCh \notin stopClosed
    /\ \A p \in Stoppers : stop[p] # "idle" /\ took[p].stopCh # PreClosed =>
           /\ took[p].stopCh <= run
           /\ took[p].stopCh # stopCh
           /\ \A q \in Stoppers \ {p} : ~Took(q, took[p].stopCh)
    /\ start \in {"binding", "publishing"} =>
           stopCh # run /\ \A p \in Stoppers : ~Took(p, run)

StopInv == TypeOK /\ StopChannels /\ NoDoubleClose

LEMMA InitStopInv == Init => StopInv
BY InitTypeOK DEF Init, StopInv, StopChannels, NoDoubleClose

LEMMA StartStopInv == ASSUME StopInv, StartBegins \/ StartStep PROVE StopInv'
<1> USE DEF StopInv
<1>1. /\ TypeOK' /\ run \in 0..MaxRuns /\ stopCh \in 0..PreClosed
      /\ start # "down" => run \in Runs
      /\ \A p \in Stoppers : took[p].stopCh \in 0..PreClosed
  BY StartTypeOK DEF TypeOK
<1>2. UNCHANGED <<cancelled, stopClosed, stop, took>>
  BY DEF StartBegins, StartStep, StartBinds, StartBindFails, BindFailsWith, StartPublishes,
     StartAnnounces, StartWakes, ctxVars, stopVars
<1>3. NoDoubleClose'
  BY <1>2 DEF NoDoubleClose
<1>4. \A p \in Stoppers : \A c : Took(p, c)' <=> Took(p, c)
  BY <1>2 DEF Took
<1>5. CASE StartBegins
  <2>1. run' = run + 1 /\ stopCh' = stopCh /\ run < MaxRuns
    BY <1>5 DEF StartBegins
  <2>2. stopCh # run + 1 /\ \A p \in Stoppers : ~Took(p, run + 1)
    BY <1>1, <2>1 DEF StopChannels, Took
  <2>3. cancelled \subseteq 1..(run + 1)
    BY <1>1 DEF StopChannels
  <2>4. StopChannels'
    BY <1>1, <1>2, <1>4, <2>1, <2>2, <2>3 DEF StopChannels
  <2> QED
    BY <1>1, <1>3, <2>4
<1>6. CASE StartPublishes
  <2>1. start = "publishing" /\ start' = "announcing" /\ stopCh' = run /\ run' = run
    BY <1>6 DEF StartPublishes
  <2>2. \A p \in Stoppers : ~Took(p, run)
    BY <2>1 DEF StopChannels
  <2>3. run \notin stopClosed
    BY <1>1, <2>1, <2>2 DEF StopChannels
  <2>4. ASSUME NEW p \in Stoppers, stop[p] # "idle", took[p].stopCh # PreClosed
        PROVE  /\ took[p].stopCh <= run
               /\ took[p].stopCh # run
               /\ \A q \in Stoppers \ {p} : ~Took(q, took[p].stopCh)
    BY <2>2, <2>4 DEF StopChannels, Took
  <2>5. StopChannels'
    BY <1>1, <1>2, <1>4, <2>1, <2>3, <2>4 DEF StopChannels
  <2> QED
    BY <1>1, <1>3, <2>5
<1>7. CASE StartBinds \/ StartBindFails \/ StartAnnounces \/ StartWakes
  <2>1. /\ run' = run /\ stopCh' = stopCh
        /\ start' \in {"binding", "publishing"} => start \in {"binding", "publishing"}
    BY <1>7 DEF StartBinds, StartBindFails, BindFailsWith, StartAnnounces, StartWakes, Return
  <2>2. StopChannels'
    BY <1>2, <1>4, <2>1 DEF StopChannels
  <2> QED
    BY <1>1, <1>3, <2>2
<1> QED
  BY <1>5, <1>6, <1>7 DEF StartStep

LEMMA StopStopInv ==
    ASSUME StopInv, NEW p \in Stoppers, StopTakes(p) \/ StopStep(p)
    PROVE  StopInv'
<1> USE DEF StopInv
<1>7. TypeOK'
  BY StopTypeOK
<1>1. /\ run \in 0..MaxRuns /\ stopCh \in 0..PreClosed
      /\ start # "down" => run \in Runs
      /\ stop \in [Stoppers -> {"idle", "selecting", "signalling", "shutting", "done"}]
      /\ took \in [Stoppers -> [stopCh : 0..PreClosed, server : 0..MaxRuns]]
  BY DEF TypeOK
<1>2. UNCHANGED <<start, run, cancelled>>
  BY DEF StopStep, StopTakes, StopLeaves, StopSelects, StopSignals, StopShuts, startVars, ctxVars
<1>3. CASE StopTakes(p)
  <2>1. /\ stop[p] = "idle" /\ stopCh' = PreClosed /\ stopClosed' = stopClosed
        /\ \A q \in Stoppers : stop'[q] = IF q = p THEN "selecting" ELSE stop[q]
        /\ \A q \in Stoppers : took'[q].stopCh = IF q = p THEN stopCh ELSE took[q].stopCh
    BY <1>1, <1>3 DEF StopTakes, StopLeaves, ctxVars
  <2>2. \A q \in Stoppers : \A c : Took(q, c)' <=> Took(q, c) \/ (q = p /\ c = stopCh)
    BY <2>1 DEF Took
  <2>3. \A c \in stopClosed : c = PreClosed \/ \E q \in Stoppers : Took(q, c)'
    BY <2>2 DEF StopChannels
  <2>4. ASSUME NEW q \in Stoppers, stop'[q] # "idle", took'[q].stopCh # PreClosed
        PROVE  /\ took'[q].stopCh <= run
               /\ \A s \in Stoppers \ {q} :
                      ~(stop'[s] # "idle" /\ took'[s].stopCh = took'[q].stopCh)
    <3>1. CASE q = p
      BY <2>1, <2>4, <3>1 DEF StopChannels, Took
    <3>2. CASE q # p
      BY <2>1, <2>4, <3>2 DEF StopChannels, Took
    <3> QED
      BY <3>1, <3>2
  <2>5. start \in {"binding", "publishing"} => \A q \in Stoppers : ~Took(q, run)'
    BY <1>2, <2>1 DEF StopChannels, Took
  <2>6. StopChannels'
    BY <1>1, <1>2, <2>1, <2>3, <2>4, <2>5 DEF StopChannels, Took
  <2>7. NoDoubleClose'
    BY <2>1 DEF NoDoubleClose
  <2> QED
    BY <1>7, <2>6, <2>7
<1>4. ASSUME stop[p] # "idle", UNCHANGED <<stopCh, took>>,
             \A q \in Stoppers : (stop'[q] # "idle") <=> (stop[q] # "idle"),
             stopClosed' = stopClosed \/ stopClosed' = stopClosed \cup {took[p].stopCh},
             NoDoubleClose'
      PROVE  StopInv'
  <2>1. \A q \in Stoppers : \A c : Took(q, c)' <=> Took(q, c)
    BY <1>4 DEF Took
  <2>2. Took(p, took[p].stopCh)
    BY <1>4 DEF Took
  <2>3. \A c \in stopClosed' : c = PreClosed \/ \E q \in Stoppers : Took(q, c)'
    BY <1>4, <2>1, <2>2 DEF StopChannels
  <2>4. stopCh # PreClosed => stopCh # took[p].stopCh
    BY <1>4 DEF StopChannels
  <2>5. ASSUME NEW q \in Stoppers, stop'[q] # "idle", took'[q].stopCh # PreClosed
        PROVE  /\ took'[q].stopCh <= run'
               /\ took'[q].stopCh # stopCh'
               /\ \A s \in Stoppers \ {q} : ~Took(s, took[q].stopCh)'
    BY <1>2, <1>4, <2>1, <2>5 DEF StopChannels
  <2>6. /\ PreClosed \in stopClosed'
        /\ stopCh' # PreClosed => stopCh' <= run' /\ stopCh' \notin stopClosed'
    BY <1>2, <1>4, <2>4 DEF StopChannels
  <2>7. StopChannels'
    BY <1>2, <1>4, <2>1, <2>3, <2>5, <2>6 DEF StopChannels
  <2> QED
    BY <1>4, <1>7, <2>7
<1>5. CASE StopSelects(p) \/ StopShuts(p)
  <2>1. /\ stop[p] # "idle" /\ UNCHANGED <<stopCh, stopClosed, took>>
        /\ \A q \in Stoppers : (stop'[q] # "idle") <=> (stop[q] # "idle")
        /\ stop'[p] = "signalling" => took[p].stopCh \notin stopClosed
        /\ \A q \in Stoppers \ {p} : stop'[q] = stop[q]
    BY <1>1, <1>5 DEF StopSelects, StopShuts, ctxVars
  <2>2. NoDoubleClose'
    BY <2>1 DEF NoDoubleClose
  <2> QED
    BY <1>4, <2>1, <2>2
<1>6. CASE StopSignals(p)
  <2>1. /\ stop[p] = "signalling" /\ UNCHANGED <<stopCh, took>>
        /\ stopClosed' = stopClosed \cup {took[p].stopCh}
        /\ \A q \in Stoppers : stop'[q] = IF q = p THEN "shutting" ELSE stop[q]
    BY <1>1, <1>6 DEF StopSignals
  <2>2. took[p].stopCh # PreClosed
    BY <2>1 DEF NoDoubleClose, StopChannels
  <2>3. \A q \in Stoppers : q # p /\ stop[q] = "signalling" => took[q].stopCh # took[p].stopCh
    BY <2>1, <2>2 DEF StopChannels, Took
  <2>4. NoDoubleClose'
    BY <2>1, <2>3 DEF NoDoubleClose
  <2> QED
    BY <1>4, <2>1, <2>4
<1> QED
  BY <1>3, <1>5, <1>6 DEF StopStep

LEMMA NextStopInv == StopInv /\ [Next]_vars => StopInv'
<1> SUFFICES ASSUME StopInv, [Next]_vars PROVE StopInv'
  OBVIOUS
<1>1. TypeOK /\ TypeOK'
  BY NextTypeOK DEF StopInv
<1>2. ASSUME UNCHANGED <<stopCh, start, run, stopClosed, stop, took>>, cancelled' \subseteq 1..run
      PROVE  StopInv'
  BY <1>1, <1>2 DEF StopInv, StopChannels, NoDoubleClose, Took
<1>3. CASE UNCHANGED vars
  BY <1>2, <1>3 DEF vars, startVars, ctxVars, stopVars, StopInv, StopChannels
<1>4. CASE SupervisorCancels
  <2>1. cancelled \subseteq 1..run /\ run \in 1..run /\ cancelled' = cancelled \cup {run}
    BY <1>1, <1>4 DEF SupervisorCancels, StopInv, StopChannels, TypeOK
  <2> QED
    BY <1>2, <1>4, <2>1 DEF SupervisorCancels, startVars, stopVars
<1>5. ASSUME NEW r \in Runs, ServeStep(r) \/ ServeFails(r) PROVE StopInv'
  BY <1>2, <1>5 DEF ServeStep, ServeBegins, ServeEnds, ServeFails, startVars, ctxVars, stopVars,
     StopInv, StopChannels
<1> QED
  BY <1>3, <1>4, <1>5, StartStopInv, StopStopInv DEF Next

\* A stopCh is held by the component or by one Stop, in every reachable state.
THEOREM StopInvariant == Spec => []StopInv
BY InitStopInv, NextStopInv, PTL DEF Spec

\* Stops that meet each other or a restart never close one stopCh twice, though
\* Start replaces it after the port is bound and Stop closes it outside the lock.
THEOREM StopIsConcurrencySafe == Spec => []NoDoubleClose
<1>1. StopInv => NoDoubleClose
  BY DEF StopInv
<1> QED
  BY <1>1, StopInvariant, PTL

-----------------------------------------------------------------------------
(* Servers and ports.  A server is in the component or was taken by one    *)
(* Stop, together with its stopCh, unless it has no port any more.         *)

\* Run r has not published a server.
Unserved(r) == r > run \/ (r = run /\ start \in {"binding", "publishing"})

Unpublished ==
    \A r \in Runs : Unserved(r) =>
        /\ serve[r] = "none" /\ r \notin shut
        /\ server # r /\ \A p \in Stoppers : took[p].server # r
Paired ==
    /\ server # Nil => stopCh = server
    /\ \A p \in Stoppers : took[p].server # Nil =>
           stop[p] # "idle" /\ took[p].stopCh = took[p].server
Shut ==
    /\ \A r \in shut : \E p \in Stoppers : took[p].server = r
    /\ \A p \in Stoppers : took[p].server # Nil => took[p].server # server
    /\ \A p \in Stoppers : took[p].server # Nil /\ stop[p] = "done" => took[p].server \in shut
    /\ server \notin shut
Serving ==
    \A r \in Runs :
        /\ serve[r] = "closed" => r \in shut
        /\ serve[r] = "pending" => port[r] = "open"
        /\ serve[r] = "serving" => (port[r] = "open" <=> r \notin shut)
        /\ server = r => serve[r] # "none"
Held ==
    /\ start = "publishing" => port[run] = "open" /\ \A r \in Runs : port[r] = "open" => r = run
    /\ \A r \in Runs : port[r] = "open" =>
           \/ start = "publishing" /\ run = r
           \/ /\ serve[r] \in {"pending", "serving"}
              /\ server = r \/ \E p \in Stoppers : took[p].server = r

ServerInv == TypeOK /\ Unpublished /\ Paired /\ Shut /\ Serving /\ Held

LEMMA InitServerInv == Init => ServerInv
<1> SUFFICES ASSUME Init PROVE ServerInv
  OBVIOUS
<1>1. \A p \in Stoppers : took[p].server = Nil
  BY DEF Init
<1>2. Unpublished /\ Paired /\ Shut /\ Serving /\ Held
  BY <1>1 DEF Init, Unpublished, Unserved, Paired, Shut, Serving, Held
<1> QED
  BY <1>2, InitTypeOK DEF ServerInv

LEMMA StartServerInv == ASSUME ServerInv, StartBegins \/ StartStep PROVE ServerInv'
<1> USE DEF ServerInv, Unserved
<1>1. TypeOK'
  BY StartTypeOK
<1>2. /\ run \in 0..MaxRuns /\ server \in 0..MaxRuns /\ shut \subseteq Runs
      /\ start # "down" => run \in Runs
      /\ port \in [Runs -> {"none", "open", "closed"}]
      /\ serve \in [Runs -> {"none", "pending", "serving", "closed", "failed"}]
      /\ \A p \in Stoppers : took[p].server \in 0..MaxRuns
  BY DEF TypeOK
<1>3. UNCHANGED <<shut, stop, took>>
  BY DEF StartBegins, StartStep, StartBinds, StartBindFails, BindFailsWith, StartPublishes,
     StartAnnounces, StartWakes, serverVars, stopVars
<1>4. CASE StartBegins
  <2>1. /\ start = "down" /\ start' = "binding" /\ run' = run + 1
        /\ UNCHANGED <<server, stopCh, port, serve>>
    BY <1>4 DEF StartBegins, serverVars
  <2>2. Unpublished'
    BY <1>2, <1>3, <2>1 DEF Unpublished
  <2> QED
    BY <1>1, <1>3, <2>1, <2>2 DEF Paired, Shut, Serving, Held
<1>5. CASE StartBinds
  <2>1. /\ start = "binding" /\ start' = "publishing" /\ UNCHANGED <<run, server, stopCh, serve>>
        /\ \A r \in Runs : port[r] # "open"
        /\ \A r \in Runs : port'[r] = IF r = run THEN "open" ELSE port[r]
    BY <1>2, <1>5 DEF StartBinds
  <2>2. serve[run] = "none" /\ run \in Runs
    BY <1>2, <2>1 DEF Unpublished
  <2>3. Unpublished' /\ Serving'
    BY <1>2, <1>3, <2>1, <2>2 DEF Unpublished, Serving
  <2>4. Held'
    BY <1>2, <1>3, <2>1, <2>2 DEF Held
  <2> QED
    BY <1>1, <1>3, <2>1, <2>3, <2>4 DEF Paired, Shut
<1>6. CASE StartPublishes
  <2>1. /\ start = "publishing" /\ start' = "announcing" /\ server' = run /\ stopCh' = run
        /\ UNCHANGED <<run, port>>
        /\ \A r \in Runs : serve'[r] = IF r = run THEN "pending" ELSE serve[r]
    BY <1>2, <1>6 DEF StartPublishes
  <2>2. /\ run \in Runs /\ run \notin shut /\ \A p \in Stoppers : took[p].server # run
        /\ port[run] = "open" /\ \A r \in Runs : port[r] = "open" => r = run
    BY <1>2, <2>1 DEF Unpublished, Held
  <2>3. Unpublished'
    BY <1>2, <1>3, <2>1, <2>2 DEF Unpublished
  <2>4. Paired' /\ Shut'
    BY <1>2, <1>3, <2>1, <2>2 DEF Paired, Shut
  <2>5. Serving' /\ Held'
    BY <1>2, <1>3, <2>1, <2>2 DEF Serving, Held
  <2> QED
    BY <1>1, <2>3, <2>4, <2>5
<1>7. CASE StartBindFails \/ StartAnnounces \/ StartWakes
  <2>1. /\ start \notin {"publishing"} /\ start' \notin {"binding", "publishing"}
        /\ UNCHANGED <<server, stopCh, run, port, serve>>
    BY <1>7 DEF StartBindFails, BindFailsWith, StartAnnounces, StartWakes, Return, serverVars
  <2>2. Unpublished'
    BY <1>2, <1>3, <2>1 DEF Unpublished
  <2> QED
    BY <1>1, <1>3, <2>1, <2>2 DEF Paired, Shut, Serving, Held
<1> QED
  BY <1>4, <1>5, <1>6, <1>7 DEF StartStep

LEMMA ServeServerInv ==
    ASSUME ServerInv, NEW r \in Runs, ServeStep(r) \/ ServeFails(r)
    PROVE  ServerInv'
<1> USE DEF ServerInv, Unserved
<1>1. TypeOK'
  BY ServeTypeOK
<1>2. /\ run \in 0..MaxRuns /\ server \in 0..MaxRuns
      /\ port \in [Runs -> {"none", "open", "closed"}]
      /\ serve \in [Runs -> {"none", "pending", "serving", "closed", "failed"}]
  BY DEF TypeOK
<1>3. /\ UNCHANGED <<server, stopCh, start, run, shut, stop, took>>
      /\ serve[r] \in {"pending", "serving"} /\ serve'[r] \in {"serving", "closed", "failed"}
      /\ \A q \in Runs : q # r => serve'[q] = serve[q] /\ port'[q] = port[q]
      /\ port'[r] = "open" => port[r] = "open"
      /\ serve'[r] = "closed" => r \in shut
      /\ serve'[r] = "serving" => r \notin shut /\ serve[r] = "pending" /\ port'[r] = port[r]
      /\ serve'[r] # "serving" => port'[r] # "open"
  <2>1. CASE ServeBegins(r)
    BY <1>2, <2>1 DEF ServeBegins, startVars, ctxVars, stopVars
  <2>2. CASE ServeEnds(r)
    BY <1>2, <2>2 DEF ServeEnds, startVars, ctxVars, stopVars, Serving
  <2>3. CASE ServeFails(r)
    BY <1>2, <2>3 DEF ServeFails, startVars, ctxVars, stopVars
  <2> QED
    BY <2>1, <2>2, <2>3 DEF ServeStep
<1>4. ~Unserved(r) /\ (start = "publishing" => run # r)
  BY <1>2, <1>3 DEF Unpublished
<1>5. Unpublished'
  BY <1>3, <1>4 DEF Unpublished
<1>6. Serving'
  BY <1>3 DEF Serving
<1>7. ASSUME NEW q \in Runs, port'[q] = "open"
      PROVE  \/ start = "publishing" /\ run = q
             \/ /\ serve'[q] \in {"pending", "serving"}
                /\ server = q \/ \E p \in Stoppers : took[p].server = q
  BY <1>3, <1>4, <1>7 DEF Held
<1>8. start = "publishing" =>
          port'[run] = "open" /\ \A q \in Runs : port'[q] = "open" => q = run
  <2>1. start = "publishing" => run \in Runs
    BY DEF TypeOK
  <2>2. \A q \in Runs : port'[q] = "open" => port[q] = "open"
    BY <1>3
  <2> QED
    BY <1>3, <1>4, <2>1, <2>2 DEF Held
<1>9. Held'
  BY <1>3, <1>7, <1>8 DEF Held
<1> QED
  BY <1>1, <1>3, <1>5, <1>6, <1>9 DEF Paired, Shut

LEMMA StopServerInv ==
    ASSUME ServerInv, NEW p \in Stoppers, StopTakes(p) \/ StopStep(p)
    PROVE  ServerInv'
<1> USE DEF ServerInv, Unserved
<1>1. TypeOK'
  BY StopTypeOK
<1>2. /\ run \in 0..MaxRuns /\ server \in 0..MaxRuns /\ shut \subseteq Runs
      /\ port \in [Runs -> {"none", "open", "closed"}]
      /\ stop \in [Stoppers -> {"idle", "selecting", "signalling", "shutting", "done"}]
      /\ took \in [Stoppers -> [stopCh : 0..PreClosed, server : 0..MaxRuns]]
      /\ start # "down" => run \in Runs
  BY DEF TypeOK
<1>3. UNCHANGED <<start, run, serve>>
  BY DEF StopStep, StopTakes, StopLeaves, StopSelects, StopSignals, StopShuts, startVars, serverVars
<1>4. CASE StopTakes(p)
  <2>1. /\ stop[p] = "idle" /\ server' = Nil /\ UNCHANGED <<port, shut>>
        /\ \A q \in Stoppers : stop'[q] = IF q = p THEN "selecting" ELSE stop[q]
        /\ \A q \in Stoppers : took'[q].server = IF q = p THEN server ELSE took[q].server
        /\ \A q \in Stoppers : took'[q].stopCh = IF q = p THEN stopCh ELSE took[q].stopCh
    BY <1>2, <1>4 DEF StopTakes, StopLeaves, serverVars
  <2>2. took[p].server = Nil
    BY <2>1 DEF Paired
  <2>3. Unpublished' /\ Serving'
    BY <1>2, <1>3, <2>1 DEF Unpublished, Serving
  <2>4. Paired'
    BY <1>2, <2>1 DEF Paired
  <2>5. Shut'
    <3>1. ASSUME NEW r \in shut PROVE \E q \in Stoppers : took'[q].server = r
      <4>1. PICK q \in Stoppers : took[q].server = r
        BY DEF Shut
      <4>2. q # p
        BY <1>2, <2>2, <4>1
      <4> QED
        BY <2>1, <4>1, <4>2
    <3>2. \A q \in Stoppers : took'[q].server # Nil => took'[q].server # server'
      BY <2>1
    <3>3. \A q \in Stoppers : took'[q].server # Nil /\ stop'[q] = "done" => took'[q].server \in shut'
      BY <2>1 DEF Shut
    <3>4. server' \notin shut'
      BY <1>2, <2>1
    <3> QED
      BY <2>1, <3>1, <3>2, <3>3, <3>4 DEF Shut
  <2>6. \A r \in Runs : server = r \/ (\E q \in Stoppers : took[q].server = r) =>
            \E q \in Stoppers : took'[q].server = r
    BY <2>1, <2>2
  <2>7. Held'
    BY <1>3, <2>1, <2>6 DEF Held
  <2> QED
    BY <1>1, <2>3, <2>4, <2>5, <2>7
<1>5. CASE StopSelects(p) \/ StopSignals(p)
  <2>1. /\ UNCHANGED <<server, stopCh, port, shut, took>>
        /\ stop[p] \in {"selecting", "signalling"} /\ stop'[p] \in {"signalling", "shutting"}
        /\ \A q \in Stoppers \ {p} : stop'[q] = stop[q]
    BY <1>2, <1>5 DEF StopSelects, StopSignals, serverVars
  <2>2. Paired' /\ Shut'
    BY <2>1 DEF Paired, Shut
  <2> QED
    BY <1>1, <1>3, <2>1, <2>2 DEF Unpublished, Serving, Held
<1>6. CASE StopShuts(p)
  <2> DEFINE s == took[p].server
  <2>1. /\ UNCHANGED <<server, stopCh, took>> /\ s \in 0..MaxRuns
        /\ stop[p] = "shutting" /\ stop'[p] = "done"
        /\ \A q \in Stoppers \ {p} : stop'[q] = stop[q]
        /\ \A r \in Runs : r \in shut' <=> r \in shut \/ r = s
        /\ shut' \subseteq Runs
        /\ \A r \in Runs : port'[r] = IF r = s /\ serve[r] = "serving" THEN "closed" ELSE port[r]
    <3>1. s \in 0..MaxRuns /\ (s # Nil => s \in Runs)
      BY <1>2
    <3>2. shut' = IF s = Nil THEN shut ELSE shut \cup {s}
      BY <1>6 DEF StopShuts
    <3>3. port' = IF s # Nil /\ serve[s] = "serving" THEN [port EXCEPT ![s] = "closed"] ELSE port
      BY <1>6 DEF StopShuts
    <3>4. \A r \in Runs : port'[r] = IF r = s /\ serve[r] = "serving" THEN "closed" ELSE port[r]
      BY <1>2, <3>1, <3>3
    <3>5. shut' \subseteq Runs
      BY <1>1 DEF TypeOK
    <3> QED
      BY <1>2, <1>6, <3>1, <3>2, <3>4, <3>5 DEF StopShuts
  <2>2. \A r \in Runs : r \in shut' => r \in shut \/ r = s
    BY <2>1
  <2>3. Unpublished'
    BY <1>3, <2>1 DEF Unpublished
  <2>4. Paired' /\ Shut'
    BY <1>2, <2>1 DEF Paired, Shut
  <2>5. Serving'
    BY <1>2, <1>3, <2>1 DEF Serving
  <2>6. start = "publishing" => s # run
    BY <1>2 DEF Unpublished
  <2>7. Held'
    BY <1>2, <1>3, <2>1, <2>6 DEF Held
  <2> QED
    BY <1>1, <2>3, <2>4, <2>5, <2>7
<1> QED
  BY <1>4, <1>5, <1>6 DEF StopStep

LEMMA NextServerInv == ServerInv /\ [Next]_vars => ServerInv'
<1> SUFFICES ASSUME ServerInv, [Next]_vars PROVE ServerInv'
  OBVIOUS
<1>1. CASE UNCHANGED vars \/ SupervisorCancels
  <2>1. UNCHANGED <<server, stopCh, start, run, port, shut, serve, stop, took>>
    BY <1>1 DEF vars, SupervisorCancels, startVars, serverVars, stopVars
  <2>2. TypeOK'
    BY NextTypeOK DEF ServerInv
  <2> QED
    BY <2>1, <2>2 DEF ServerInv, Unserved, Unpublished, Paired, Shut, Serving, Held
<1> QED
  BY <1>1, StartServerInv, ServeServerInv, StopServerInv DEF Next

\* The strengthening the next two theorems rest on.
THEOREM ServerInvariant == Spec => []ServerInv
BY InitServerInv, NextServerInv, PTL DEF Spec

\* A bound port has somebody to close it, also that of a run which its context
\* ended and no Stop followed.
THEOREM PortsAreOwned == Spec => []PortOwned
<1>1. ServerInv => PortOwned
  <2> SUFFICES ASSUME ServerInv, NEW r \in Runs, port[r] = "open",
                      ~(start = "publishing" /\ run = r), server # r
               PROVE  \/ \E p \in Stoppers : /\ took[p].server = r
                                             /\ stop[p] \in {"selecting", "signalling", "shutting"}
                      \/ serve[r] = "pending" /\ r \in shut
    BY DEF PortOwned
  <2>1. PICK p \in Stoppers : took[p].server = r
    BY DEF ServerInv, Held
  <2>2. stop[p] \in {"selecting", "signalling", "shutting", "done"}
    BY <2>1 DEF ServerInv, TypeOK, Paired
  <2>3. stop[p] = "done" => r \in shut
    BY <2>1 DEF ServerInv, Shut
  <2>4. r \in shut => serve[r] = "pending"
    BY DEF ServerInv, Held, Serving, Unpublished
  <2> QED
    BY <2>1, <2>2, <2>3, <2>4
<1> QED
  BY <1>1, ServerInvariant, PTL

\* While Health answers nil the port is bound, unless Serve broke, and no Stop has
\* shut the server down or is about to.
THEOREM HealthTells == Spec => []HealthyIsBound
<1>1. ServerInv => HealthyIsBound
  <2> SUFFICES ASSUME ServerInv, server # Nil
               PROVE  /\ port[server] = "open" \/ serve[server] = "failed"
                      /\ server \notin shut
                      /\ \A p \in Stoppers : took[p].server # server
    BY DEF HealthyIsBound, Healthy
  <2>1. server \in Runs /\ serve[server] \in {"none", "pending", "serving", "closed", "failed"}
    BY DEF ServerInv, TypeOK
  <2>2. server \notin shut /\ \A p \in Stoppers : took[p].server # server
    BY DEF ServerInv, Shut
  <2> QED
    BY <2>1, <2>2 DEF ServerInv, Serving
<1> QED
  BY <1>1, ServerInvariant, PTL

-----------------------------------------------------------------------------
(* The contract with the supervisor, step by step.                         *)

IsAsked == run # 0 /\ Asked(run)
Phase == CASE start = "down" -> "down"
           [] start \in {"binding", "publishing", "announcing"} -> "starting"
           [] OTHER -> "ready"
Outcome == IF start = "down" /\ run # 0 THEN result[run] ELSE "none"

ContractStep == [Contract!Next]_(Contract!vars)

\* A step that Start does not notice asks it to end, or changes nothing.
LEMMA AsideStep ==
    ASSUME UNCHANGED <<start, run, result>>, Asked(run) => Asked(run)'
    PROVE  ContractStep
<1>1. Phase' = Phase /\ Outcome' = Outcome
  BY DEF Phase, Outcome
<1>2. IsAsked \in BOOLEAN /\ IsAsked' \in BOOLEAN /\ (IsAsked => IsAsked')
  BY DEF IsAsked
<1>3. IsAsked' = TRUE \/ IsAsked' = IsAsked
  BY <1>2
<1> QED
  BY <1>1, <1>3 DEF ContractStep, Contract!Next, Contract!Ask, Contract!vars, Phase, Outcome, IsAsked

LEMMA BeginsStep == ASSUME StopInv, StartBegins PROVE ContractStep
<1>1. /\ start = "down" /\ start' = "binding" /\ run' = run + 1 /\ run \in 0..MaxRuns
      /\ run < MaxRuns /\ UNCHANGED <<cancelled, stop, took>>
  BY DEF StartBegins, ctxVars, stopVars, StopInv, TypeOK
<1>2. run + 1 \notin cancelled /\ \A p \in Stoppers : ~Took(p, run + 1)
  BY <1>1 DEF StopInv, StopChannels, Took
<1>3. Asked(run)' = FALSE
  BY <1>1, <1>2 DEF Asked, Took
<1>4. IsAsked' = FALSE
  BY <1>3 DEF IsAsked
<1> QED
  BY <1>1, <1>4 DEF ContractStep, Contract!Next, Contract!Begin, IsAsked

\* Start returns: nil only if it was asked.
LEMMA ReturnsStep ==
    ASSUME StopInv, NEW res \in {"nil", "error"}, Return(res), start # "down",
           UNCHANGED <<cancelled, stop, took>>,
           res = "nil" => Asked(run)
    PROVE  ContractStep
<1>1. start' = "down" /\ run' = run /\ run # 0 /\ result'[run] = res
  BY DEF Return, StopInv, TypeOK
<1>2. Asked(run)' = Asked(run)
  BY <1>1 DEF Asked
<1>3. IsAsked' = IsAsked /\ (res = "nil" => IsAsked)
  BY <1>1, <1>2 DEF IsAsked
<1>4. CASE res = "nil"
  BY <1>1, <1>3, <1>4 DEF ContractStep, Contract!Next, Contract!End, IsAsked
<1>5. CASE res # "nil"
  BY <1>1, <1>3, <1>5 DEF ContractStep, Contract!Next, Contract!Fail, IsAsked
<1> QED
  BY <1>4, <1>5

LEMMA StartContract == ASSUME StopInv, ServerInv, StartStep PROVE ContractStep
<1>1. UNCHANGED <<run, cancelled, stop, took>>
  BY DEF StartStep, StartBinds, StartBindFails, BindFailsWith, StartPublishes, StartAnnounces,
     StartWakes, Return, ctxVars, stopVars
<1>2. IsAsked' = IsAsked
  <2>1. Asked(run)' = Asked(run)
    BY <1>1 DEF Asked
  <2> QED
    BY <1>1, <2>1 DEF IsAsked
<1>3. CASE StartBinds \/ StartPublishes
  <2>1. start \in {"binding", "publishing"} /\ start' \in {"publishing", "announcing"}
    BY <1>3 DEF StartBinds, StartPublishes
  <2>2. Phase' = Phase /\ Outcome' = Outcome
    BY <2>1 DEF Phase, Outcome
  <2> QED
    BY <1>2, <2>2 DEF ContractStep, Contract!vars, Phase, Outcome, IsAsked
<1>4. CASE StartBindFails
  BY <1>1, <1>4, ReturnsStep DEF StartBindFails, BindFailsWith
<1>5. CASE StartAnnounces
  BY <1>1, <1>2, <1>5 DEF StartAnnounces, ContractStep, Contract!Next, Contract!Ready, IsAsked
<1>6. CASE StartWakes
  <2>1. CASE Return("error")
    BY <1>1, <1>6, <2>1, ReturnsStep DEF StartWakes
  <2>2. CASE ~Return("error")
    <3>1. /\ start = "waiting" /\ Return("nil")
          /\ serve[run] = "closed" \/ run \in stopClosed \/ run \in cancelled
      BY <1>6, <2>2 DEF StartWakes
    <3>2. run \in Runs
      BY <3>1 DEF StopInv, TypeOK
    <3>3. CASE serve[run] = "closed"
      <4>1. run \in shut
        BY <3>2, <3>3 DEF ServerInv, Serving
      <4>2. PICK p \in Stoppers : took[p].server = run
        BY <4>1 DEF ServerInv, Shut
      <4>3. stop[p] # "idle" /\ took[p].stopCh = run
        BY <3>2, <4>2 DEF ServerInv, Paired
      <4> QED
        BY <1>1, <3>1, <4>3, ReturnsStep DEF Asked
    <3>4. CASE run \in stopClosed \/ run \in cancelled
      <4>1. Asked(run)
        BY <3>2, <3>4 DEF StopInv, StopChannels, Asked, Took
      <4> QED
        BY <1>1, <3>1, <4>1, ReturnsStep
    <3> QED
      BY <3>1, <3>3, <3>4
  <2> QED
    BY <2>1, <2>2
<1> QED
  BY <1>3, <1>4, <1>5, <1>6 DEF StartStep

LEMMA NextContract == StopInv /\ ServerInv /\ [Next]_vars => ContractStep
<1> SUFFICES ASSUME StopInv, ServerInv, [Next]_vars PROVE ContractStep
  OBVIOUS
<1>1. CASE UNCHANGED vars \/ SupervisorCancels
  <2>1. UNCHANGED <<start, run, result, stop, took>> /\ cancelled \subseteq cancelled'
    BY <1>1 DEF vars, SupervisorCancels, startVars, ctxVars, stopVars
  <2> QED
    BY <2>1, AsideStep DEF Asked
<1>2. ASSUME NEW r \in Runs, ServeStep(r) \/ ServeFails(r) PROVE ContractStep
  <2>1. UNCHANGED <<start, run, result, stop, took, cancelled>>
    BY <1>2 DEF ServeStep, ServeBegins, ServeEnds, ServeFails, startVars, ctxVars, stopVars
  <2> QED
    BY <2>1, AsideStep DEF Asked
<1>3. ASSUME NEW p \in Stoppers, StopTakes(p) \/ StopStep(p) PROVE ContractStep
  <2>1. UNCHANGED <<start, run, result, cancelled>>
    BY <1>3 DEF StopStep, StopTakes, StopLeaves, StopSelects, StopSignals, StopShuts,
       startVars, ctxVars
  <2>2. \A q \in Stoppers : stop[q] # "idle" => stop'[q] # "idle" /\ took'[q] = took[q]
    BY <1>3 DEF StopStep, StopTakes, StopLeaves, StopSelects, StopSignals, StopShuts,
       StopInv, TypeOK
  <2>3. Asked(run) => Asked(run)'
    BY <2>1, <2>2 DEF Asked
  <2> QED
    BY <2>1, <2>3, AsideStep
<1> QED
  BY <1>1, <1>2, <1>3, BeginsStep, StartContract DEF Next

\* The component keeps its contract with the supervisor: Start returns nil only
\* when asked, also when Serve ended with ErrServerClosed, which a Stop that took
\* the server of this run brought about.
THEOREM ImplementsContract == Spec => KeepsContract
<1>1. Init => Contract!Init
  <2> SUFFICES ASSUME Init PROVE Contract!Init
    OBVIOUS
  <2>1. IsAsked \in BOOLEAN
    BY DEF IsAsked
  <2> QED
    BY <2>1 DEF Init, Contract!Init, IsAsked
<1> QED
  BY <1>1, StopInvariant, ServerInvariant, NextContract, PTL
     DEF Spec, KeepsContract, Contract!Spec, ContractStep

=============================================================================
