------------------------ MODULE HandleLifecycleProofs ------------------------
(***************************************************************************)
(* Theorems about HandleLifecycle for any calls of Stop and any number of  *)
(* runs, and for each of the five components at once; and, at the end,     *)
(* about the operations as MCHandles composes them with it.                *)
(***************************************************************************)
EXTENDS MCHandles, TLAPS

USE Assumption DEF Runs, Nil, PreClosed

-----------------------------------------------------------------------------
(* Type correctness.                                                       *)

\* What the proofs need to know of the profiles: components that close their handle
\* on Stop also close one that fails a check.
LEMMA ProfileFacts ==
    ASSUME NEW q \in Profiles
    PROVE  q.checks \in {1, 2} /\ (q.closesOnStop => q.closesFailed)
<1>1. CASE q = Redis
  BY <1>1 DEF Redis
<1>2. CASE q = Postgres
  BY <1>2 DEF Postgres
<1>3. CASE q = Sqlite
  BY <1>3 DEF Sqlite
<1>4. CASE q = S3
  BY <1>4 DEF S3
<1>5. CASE q = GrpcClient
  BY <1>5 DEF GrpcClient
<1> QED
  BY <1>1, <1>2, <1>3, <1>4, <1>5 DEF Profiles

LEMMA InitTypeOK == Init => TypeOK
<1> SUFFICES ASSUME Init PROVE TypeOK
  OBVIOUS
<1>1. 0 \in 0..profile.checks
  BY ProfileFacts DEF Init
<1> QED
  BY <1>1 DEF Init, TypeOK

LEMMA StartTypeOK == ASSUME TypeOK, StartBegins \/ StartStep PROVE TypeOK'
<1> USE DEF TypeOK
<1>1. profile.checks \in {1, 2}
  BY ProfileFacts
<1>2. ASSUME NEW state \in {"open", "closed"}, NEW res \in {"nil", "error", "ctx"},
             CheckFails(state, res)
      PROVE  TypeOK'
  BY <1>2 DEF CheckFails, Return, ctxVars, stopVars
<1>3. LeftByCheck \in {"open", "closed"} /\ CheckError \in {"nil", "error", "ctx"}
  BY <1>1 DEF LeftByCheck, CheckError
<1>4. CASE StartBegins
  BY <1>1, <1>4 DEF StartBegins, ctxVars, stopVars
<1>5. CASE StartFailsEarly
  BY <1>5 DEF StartFailsEarly, Return, ctxVars, stopVars
<1>6. CASE StartOpens
  BY <1>6 DEF StartOpens, ctxVars, stopVars
<1>7. CASE StartChecks
  BY <1>1, <1>7 DEF StartChecks, ctxVars, stopVars
<1>8. CASE StartCheckFails
  BY <1>2, <1>3, <1>8 DEF StartCheckFails
<1>9. CASE StartInstalls
  BY <1>9 DEF StartInstalls, ctxVars, stopVars
<1>10. CASE StartWakes
  BY <1>10 DEF StartWakes, Return, ctxVars, stopVars
<1> QED
  BY <1>4, <1>5, <1>6, <1>7, <1>8, <1>9, <1>10 DEF StartStep

LEMMA StopTypeOK ==
    ASSUME TypeOK, NEW p \in Stoppers, StopTakes(p) \/ StopStep(p)
    PROVE  TypeOK'
<1> USE DEF TypeOK
<1>1. CASE StopTakes(p)
  BY <1>1 DEF StopTakes, StopLeaves, startVars, ctxVars
<1>2. CASE StopSelects(p)
  BY <1>2 DEF StopSelects, StopSelectsWhen, startVars, ctxVars
<1>3. CASE StopSignals(p)
  BY <1>3 DEF StopSignals, startVars
<1>4. CASE StopCloses(p)
  BY <1>4 DEF StopCloses, ClosesThen, startVars, ctxVars
<1> QED
  BY <1>1, <1>2, <1>3, <1>4 DEF StopStep

LEMMA NextTypeOK == TypeOK /\ [Next]_vars => TypeOK'
<1> SUFFICES ASSUME TypeOK, [Next]_vars PROVE TypeOK'
  OBVIOUS
<1>1. CASE UNCHANGED vars
  BY <1>1 DEF TypeOK, vars, startVars, ctxVars, stopVars
<1>2. CASE SupervisorCancels
  BY <1>2 DEF TypeOK, SupervisorCancels, startVars, stopVars
<1> QED
  BY <1>1, <1>2, StartTypeOK, StopTypeOK DEF Next

\* Every reachable state of the five components has its type.
THEOREM TypeCorrect == Spec => []TypeOK
BY InitTypeOK, NextTypeOK, PTL DEF Spec

-----------------------------------------------------------------------------
(* The stop channels: one is held by the component or by one Stop, what is *)
(* closed was taken, and those of runs to come are in nobody's hands.      *)

StopChannels ==
    /\ cancelled \subseteq 1..run
    /\ \A c \in stopClosed : c = PreClosed \/ \E p \in Stoppers : Took(p, c)
    /\ PreClosed \in stopClosed
    /\ stopCh # PreClosed => stopCh <= run /\ stopCh \notin stopClosed
    /\ \A p \in Stoppers : stop[p] # "idle" /\ took[p].stopCh # PreClosed =>
           /\ took[p].stopCh <= run
           /\ took[p].stopCh # stopCh
           /\ \A q \in Stoppers \ {p} : ~Took(q, took[p].stopCh)

StopInv == TypeOK /\ StopChannels /\ NoDoubleClose

LEMMA InitStopInv == Init => StopInv
BY InitTypeOK DEF Init, StopInv, StopChannels, NoDoubleClose

LEMMA StartStopInv == ASSUME StopInv, StartStep PROVE StopInv'
<1>1. TypeOK'
  BY StartTypeOK DEF StopInv
<1>2. UNCHANGED <<stopCh, run, cancelled, stopClosed, stop, took>>
  BY DEF StartStep, StartFailsEarly, StartOpens, StartChecks, StartCheckFails, CheckFails,
         StartInstalls, StartWakes, Return, ctxVars, stopVars
<1> QED
  BY <1>1, <1>2 DEF StopInv, StopChannels, NoDoubleClose, Took

LEMMA BeginsStopInv == ASSUME StopInv, StartBegins PROVE StopInv'
<1> USE DEF StopInv
<1>1. TypeOK'
  BY StartTypeOK
<1>2. /\ run' = run + 1 /\ stopCh' = run + 1 /\ run < MaxRuns /\ run \in 0..MaxRuns
      /\ UNCHANGED <<cancelled, stopClosed, stop, took>>
  BY DEF StartBegins, ctxVars, stopVars, TypeOK
<1>3. \A p \in Stoppers : ~Took(p, run + 1)
  BY <1>2 DEF StopChannels, Took
<1>4. run + 1 \notin stopClosed
  BY <1>2, <1>3 DEF StopChannels
<1>5. \A p \in Stoppers : took[p].stopCh \in 0..PreClosed
  BY DEF TypeOK
<1>6. \A p \in Stoppers : \A c : Took(p, c)' <=> Took(p, c)
  BY <1>2 DEF Took
<1>7. ASSUME NEW p \in Stoppers, stop[p] # "idle", took[p].stopCh # PreClosed
      PROVE  /\ took[p].stopCh <= run'
             /\ took[p].stopCh # stopCh'
             /\ \A q \in Stoppers \ {p} : ~Took(q, took[p].stopCh)'
  BY <1>2, <1>3, <1>5, <1>6, <1>7 DEF StopChannels, Took
<1>8. StopChannels'
  BY <1>2, <1>4, <1>6, <1>7 DEF StopChannels
<1> QED
  BY <1>1, <1>2, <1>8 DEF NoDoubleClose

LEMMA StopStopInv ==
    ASSUME StopInv, NEW p \in Stoppers, StopTakes(p) \/ StopStep(p)
    PROVE  StopInv'
<1> USE DEF StopInv
<1>1. /\ TypeOK' /\ run \in 0..MaxRuns /\ took[p].stopCh \in 0..PreClosed
      /\ stop \in [Stoppers -> {"idle", "selecting", "signalling", "closing", "done"}]
      /\ took \in [Stoppers -> [stopCh : 0..PreClosed, handle : 0..MaxRuns]]
  BY StopTypeOK DEF TypeOK
<1>2. UNCHANGED <<run, cancelled>>
  BY DEF StopStep, StopTakes, StopLeaves, StopSelects, StopSelectsWhen, StopSignals,
         StopCloses, ClosesThen, startVars, ctxVars
<1>3. CASE StopTakes(p)
  <2>1. /\ stop[p] = "idle" /\ stopCh' = PreClosed /\ stopClosed' = stopClosed
        /\ \A q \in Stoppers : stop'[q] = IF q = p THEN "selecting" ELSE stop[q]
        /\ \A q \in Stoppers : took'[q].stopCh = IF q = p THEN stopCh ELSE took[q].stopCh
    BY <1>1, <1>3 DEF StopTakes, StopLeaves, ctxVars
  <2>2. \A q \in Stoppers : \A c : Took(q, c)' <=> Took(q, c) \/ (q = p /\ c = stopCh)
    BY <2>1 DEF Took
  <2>3. \A c \in stopClosed : c = PreClosed \/ \E q \in Stoppers : Took(q, c)'
    BY <2>2 DEF StopChannels
  <2>4. ASSUME NEW q \in Stoppers, stop'[q] # "idle", took'[q].stopCh # PreClosed
        PROVE  /\ took'[q].stopCh <= run
               /\ \A s \in Stoppers \ {q} :
                      ~(stop'[s] # "idle" /\ took'[s].stopCh = took'[q].stopCh)
    <3>1. CASE q = p
      BY <2>1, <2>4, <3>1 DEF StopChannels, Took
    <3>2. CASE q # p
      BY <2>1, <2>4, <3>2 DEF StopChannels, Took
    <3> QED
      BY <3>1, <3>2
  <2>5. StopChannels'
    BY <1>2, <2>1, <2>3, <2>4 DEF StopChannels, Took
  <2>6. NoDoubleClose'
    BY <2>1 DEF NoDoubleClose
  <2> QED
    BY <1>1, <2>5, <2>6
<1>4. ASSUME stop[p] # "idle", stopCh' = stopCh,
             \A q \in Stoppers : (stop'[q] # "idle") <=> (stop[q] # "idle"),
             took' = took,
             stopClosed' = stopClosed \/ stopClosed' = stopClosed \cup {took[p].stopCh},
             NoDoubleClose'
      PROVE  StopInv'
  <2>1. \A q \in Stoppers : \A c : Took(q, c)' <=> Took(q, c)
    BY <1>4 DEF Took
  <2>2. Took(p, took[p].stopCh)
    BY <1>4 DEF Took
  <2>3. \A c \in stopClosed' : c = PreClosed \/ \E q \in Stoppers : Took(q, c)'
    BY <1>4, <2>1, <2>2 DEF StopChannels
  <2>4. stopCh # PreClosed => stopCh # took[p].stopCh
    BY <1>4 DEF StopChannels
  <2>5. \A q \in Stoppers : stop'[q] # "idle" /\ took'[q].stopCh # PreClosed =>
           /\ took'[q].stopCh <= run'
           /\ took'[q].stopCh # stopCh'
           /\ \A s \in Stoppers \ {q} :
                  ~(stop'[s] # "idle" /\ took'[s].stopCh = took'[q].stopCh)
    BY <1>2, <1>4 DEF StopChannels, Took
  <2>6. PreClosed \in stopClosed' /\ (stopCh' # PreClosed => stopCh' <= run' /\ stopCh' \notin stopClosed')
    BY <1>2, <1>4, <2>4 DEF StopChannels
  <2>7. StopChannels'
    BY <1>2, <2>3, <2>5, <2>6 DEF StopChannels, Took
  <2> QED
    BY <1>1, <1>4, <2>7
<1>5. CASE StopSelects(p) \/ StopCloses(p)
  <2>1. /\ stop[p] # "idle" /\ stopCh' = stopCh /\ stopClosed' = stopClosed /\ took' = took
        /\ \A q \in Stoppers : (stop'[q] # "idle") <=> (stop[q] # "idle")
        /\ stop'[p] = "signalling" => took[p].stopCh \notin stopClosed
        /\ \A q \in Stoppers \ {p} : stop'[q] = stop[q]
    BY <1>1, <1>5 DEF StopSelects, StopSelectsWhen, StopCloses, ClosesThen, ctxVars
  <2>2. NoDoubleClose'
    BY <2>1 DEF NoDoubleClose
  <2> QED
    BY <1>4, <2>1, <2>2
<1>6. CASE StopSignals(p)
  <2>1. /\ stop[p] = "signalling" /\ stopCh' = stopCh
        /\ stopClosed' = stopClosed \cup {took[p].stopCh} /\ took' = took
        /\ \A q \in Stoppers : stop'[q] = IF q = p THEN "closing" ELSE stop[q]
    BY <1>1, <1>6 DEF StopSignals
  <2>2. took[p].stopCh # PreClosed
    BY <2>1 DEF NoDoubleClose, StopChannels
  <2>3. \A q \in Stoppers : q # p /\ stop[q] = "signalling" => took[q].stopCh # took[p].stopCh
    BY <2>1, <2>2 DEF StopChannels, Took
  <2>4. NoDoubleClose'
    BY <2>1, <2>3 DEF NoDoubleClose
  <2> QED
    BY <1>4, <2>1, <2>4
<1> QED
  BY <1>3, <1>5, <1>6 DEF StopStep

LEMMA NextStopInv == StopInv /\ [Next]_vars => StopInv'
<1> SUFFICES ASSUME StopInv, [Next]_vars PROVE StopInv'
  OBVIOUS
<1>1. TypeOK /\ TypeOK'
  BY NextTypeOK DEF StopInv
<1>2. CASE UNCHANGED vars
  BY <1>1, <1>2 DEF StopInv, StopChannels, NoDoubleClose, Took, vars, startVars, ctxVars, stopVars
<1>3. CASE SupervisorCancels
  <2>1. /\ UNCHANGED <<stopCh, run, stopClosed, stop, took>>
        /\ cancelled' \subseteq 1..run
    BY <1>1, <1>3 DEF SupervisorCancels, StopInv, StopChannels, startVars, stopVars, TypeOK
  <2> QED
    BY <1>1, <2>1 DEF StopInv, StopChannels, NoDoubleClose, Took
<1> QED
  BY <1>2, <1>3, StartStopInv, BeginsStopInv, StopStopInv DEF Next

\* Any number of concurrent Stops and restarts never close one stopCh twice: the
\* select that guards close in Stop needs no lock.
THEOREM StopIsConcurrencySafe == Spec => []NoDoubleClose
<1>1. Spec => []StopInv
  BY InitStopInv, NextStopInv, PTL DEF Spec
<1>2. StopInv => NoDoubleClose
  BY DEF StopInv
<1> QED
  BY <1>1, <1>2, PTL

-----------------------------------------------------------------------------
(* The driver's handles.  A run has its own, which nobody else has before  *)
(* the run publishes it.                                                   *)

Fresh ==
    start \in {"preparing", "checking"} =>
        /\ handle # run
        /\ \A p \in Stoppers : took[p].handle # run
Numbered ==
    /\ handle <= run
    /\ \A p \in Stoppers : took[p].handle <= run /\ (stop[p] = "idle" => took[p].handle = Nil)
    /\ \A r \in Runs : driver[r] # "none" => r <= run
Checking == start = "checking" => driver[run] = "open"
Preparing == start = "preparing" => driver[run] = "none"

HandleInv ==
    /\ TypeOK /\ Fresh /\ Numbered /\ Checking /\ Preparing
    /\ PublishedHandleOpen /\ ServingHasHandle /\ OpenHandlesOwned

LEMMA InitHandleInv == Init => HandleInv
<1> SUFFICES ASSUME Init PROVE HandleInv
  OBVIOUS
<1>1. TypeOK
  BY InitTypeOK
<1>2. Fresh /\ Numbered /\ Checking /\ Preparing
  BY DEF Init, Fresh, Numbered, Checking, Preparing
<1>3. PublishedHandleOpen /\ ServingHasHandle /\ OpenHandlesOwned
  BY DEF Init, PublishedHandleOpen, ServingHasHandle, OpenHandlesOwned
<1> QED
  BY <1>1, <1>2, <1>3 DEF HandleInv

LEMMA BeginsHandleInv == ASSUME HandleInv, StartBegins PROVE HandleInv'
<1> USE DEF HandleInv
<1>1. /\ start = "down" /\ start' = "preparing" /\ run' = run + 1 /\ run < MaxRuns
      /\ UNCHANGED <<profile, handle, driver, stop, took>>
  BY DEF StartBegins, stopVars
<1>2. /\ TypeOK' /\ run \in 0..MaxRuns /\ handle \in 0..MaxRuns
      /\ \A p \in Stoppers : took[p].handle \in 0..MaxRuns
  BY StartTypeOK DEF TypeOK
<1>3. Fresh' /\ Numbered' /\ Checking' /\ Preparing'
  <2>1. run + 1 \in Runs /\ driver \in [Runs -> {"none", "open", "closed"}]
    BY <1>1, <1>2 DEF TypeOK
  <2>2. driver[run + 1] = "none"
    BY <1>2, <2>1 DEF Numbered
  <2> QED
    BY <1>1, <1>2, <2>1, <2>2 DEF Fresh, Numbered, Checking, Preparing
<1>4. PublishedHandleOpen' /\ ServingHasHandle'
  BY <1>1 DEF PublishedHandleOpen, ServingHasHandle
<1>5. \A r \in Runs : Owned(r) => Owned(r)'
  BY <1>1 DEF Owned
<1>6. OpenHandlesOwned'
  BY <1>1, <1>5 DEF OpenHandlesOwned
<1> QED
  BY <1>2, <1>3, <1>4, <1>6

LEMMA StartHandleInv == ASSUME HandleInv, StartStep PROVE HandleInv'
<1> USE DEF HandleInv
<1>1. /\ TypeOK' /\ run \in Runs /\ handle \in 0..MaxRuns
      /\ driver \in [Runs -> {"none", "open", "closed"}]
      /\ \A p \in Stoppers : took[p].handle \in 0..MaxRuns
  BY StartTypeOK DEF TypeOK, StartStep, StartFailsEarly, StartOpens, StartChecks,
     StartCheckFails, CheckFails, StartInstalls, StartWakes
<1>2. UNCHANGED <<profile, run, stop, took>>
  BY DEF StartStep, StartFailsEarly, StartOpens, StartChecks, StartCheckFails, CheckFails,
         StartInstalls, StartWakes, Return, stopVars
<1>3. CASE StartFailsEarly \/ StartWakes \/ StartChecks
  <2>1. /\ UNCHANGED <<handle, driver>>
        /\ start' = "down" \/ start' = start
        /\ start = "checking" => start' = start
    BY <1>3 DEF StartFailsEarly, StartWakes, StartChecks, Return
  <2>2. Fresh' /\ Numbered' /\ Checking' /\ Preparing' /\ PublishedHandleOpen' /\ ServingHasHandle'
    BY <1>2, <2>1 DEF Fresh, Numbered, Checking, Preparing, PublishedHandleOpen, ServingHasHandle
  <2>3. \A r \in Runs : Owned(r) => Owned(r)'
    BY <1>2, <2>1 DEF Owned
  <2> QED
    BY <1>1, <1>2, <2>1, <2>2, <2>3 DEF OpenHandlesOwned
<1>4. CASE StartOpens
  <2>1. /\ start = "preparing" /\ start' = "checking" /\ handle' = handle
        /\ driver' = [driver EXCEPT ![run] = "open"]
    BY <1>4 DEF StartOpens
  <2>2. Fresh' /\ Numbered' /\ Checking' /\ Preparing'
    BY <1>1, <1>2, <2>1 DEF Fresh, Numbered, Checking, Preparing
  <2>3. PublishedHandleOpen' /\ ServingHasHandle'
    BY <1>1, <1>2, <2>1 DEF Fresh, PublishedHandleOpen, ServingHasHandle
  <2>4. Owned(run)'
    BY <1>2, <2>1 DEF Owned
  <2>5. ASSUME NEW r \in Runs, Owned(r) PROVE Owned(r)'
    BY <1>1, <1>2, <2>1, <2>5 DEF Owned
  <2>6. OpenHandlesOwned'
    BY <1>1, <1>2, <2>1, <2>4, <2>5 DEF OpenHandlesOwned
  <2> QED
    BY <1>1, <2>2, <2>3, <2>6
<1>5. CASE StartCheckFails
  <2>1. /\ start = "checking" /\ start' = "down" /\ handle' = handle
        /\ driver' = [driver EXCEPT ![run] = LeftByCheck]
    BY <1>5 DEF StartCheckFails, CheckFails, Return
  <2>2. Fresh' /\ Numbered' /\ Checking' /\ Preparing'
    BY <1>1, <1>2, <2>1 DEF Fresh, Numbered, Checking, Preparing
  <2>3. PublishedHandleOpen' /\ ServingHasHandle'
    BY <1>1, <1>2, <2>1 DEF Fresh, PublishedHandleOpen, ServingHasHandle
  <2>4. profile.closesOnStop => LeftByCheck = "closed"
    BY ProfileFacts DEF LeftByCheck, TypeOK
  <2>5. ASSUME NEW r \in Runs, r # run, Owned(r) PROVE Owned(r)'
    <3>1. \A q \in Runs : driver[q] # "none" => driver'[q] # "none"
      BY <1>1, <2>1 DEF LeftByCheck
    <3> QED
      BY <1>1, <1>2, <2>1, <2>5, <3>1 DEF Owned
  <2>6. OpenHandlesOwned'
    BY <1>1, <1>2, <2>1, <2>4, <2>5 DEF OpenHandlesOwned
  <2> QED
    BY <1>1, <2>2, <2>3, <2>6
<1>6. CASE StartInstalls
  <2>1. /\ start = "checking" /\ start' = "serving" /\ handle' = run /\ driver' = driver
    BY <1>6 DEF StartInstalls
  <2>2. Fresh' /\ Numbered' /\ Checking' /\ Preparing'
    BY <1>1, <1>2, <2>1 DEF Fresh, Numbered, Checking, Preparing
  <2>3. PublishedHandleOpen' /\ ServingHasHandle'
    BY <1>1, <1>2, <2>1 DEF Fresh, Checking, PublishedHandleOpen, ServingHasHandle
  <2>4. ASSUME NEW r \in Runs, Owned(r) PROVE Owned(r)'
    <3>1. CASE r = handle
      <4>1. r < run /\ driver[run] # "none"
        BY <1>1, <2>1, <3>1 DEF Fresh, Numbered, Checking
      <4>2. \A p \in Stoppers : took[p].handle # r
        BY <1>1, <2>4, <3>1 DEF PublishedHandleOpen, Numbered
      <4> QED
        BY <1>1, <1>2, <2>1, <4>1, <4>2 DEF Owned
    <3>2. CASE r # handle
      BY <1>1, <1>2, <2>1, <2>4, <3>2 DEF Owned
    <3> QED
      BY <3>1, <3>2
  <2>5. OpenHandlesOwned'
    BY <1>2, <2>1, <2>4 DEF OpenHandlesOwned
  <2> QED
    BY <1>1, <2>2, <2>3, <2>5
<1> QED
  BY <1>3, <1>4, <1>5, <1>6 DEF StartStep

LEMMA StopHandleInv ==
    ASSUME HandleInv, NEW p \in Stoppers, StopTakes(p) \/ StopStep(p)
    PROVE  HandleInv'
<1> USE DEF HandleInv
<1>1. /\ TypeOK' /\ run \in 0..MaxRuns /\ handle \in 0..MaxRuns
      /\ driver \in [Runs -> {"none", "open", "closed"}]
      /\ stop \in [Stoppers -> {"idle", "selecting", "signalling", "closing", "done"}]
      /\ took \in [Stoppers -> [stopCh : 0..PreClosed, handle : 0..MaxRuns]]
  BY StopTypeOK DEF TypeOK
<1>2. UNCHANGED <<profile, run, start>>
  BY DEF StopStep, StopTakes, StopLeaves, StopSelects, StopSelectsWhen, StopSignals,
         StopCloses, ClosesThen, startVars
<1>3. CASE StopTakes(p)
  <2>1. /\ stop[p] = "idle" /\ handle' = Nil /\ driver' = driver
        /\ \A q \in Stoppers : stop'[q] = IF q = p THEN "selecting" ELSE stop[q]
        /\ \A q \in Stoppers : took'[q].handle = IF q = p THEN handle ELSE took[q].handle
    BY <1>1, <1>3 DEF StopTakes, StopLeaves
  <2>2. Numbered' /\ Checking' /\ Preparing'
    BY <1>1, <1>2, <2>1 DEF Numbered, Checking, Preparing
  <2>3. Fresh'
    <3>1. start # "down" => run # Nil
      BY DEF TypeOK
    <3> QED
      BY <1>2, <2>1, <3>1 DEF Fresh
  <2>4. PublishedHandleOpen' /\ ServingHasHandle'
    BY <1>2, <2>1 DEF PublishedHandleOpen, ServingHasHandle
  <2>5. ASSUME NEW r \in Runs, Owned(r) PROVE Owned(r)'
    <3>1. CASE r = handle
      BY <2>1, <3>1 DEF Owned
    <3>2. CASE r # handle
      BY <1>2, <2>1, <2>5, <3>2 DEF Owned
    <3> QED
      BY <3>1, <3>2
  <2>6. OpenHandlesOwned'
    BY <1>2, <2>1, <2>5 DEF OpenHandlesOwned
  <2> QED
    BY <1>1, <2>2, <2>3, <2>4, <2>6
<1>4. CASE StopSelects(p) \/ StopSignals(p)
  <2>1. /\ UNCHANGED <<handle, driver, took>>
        /\ stop[p] \in {"selecting", "signalling"} /\ stop'[p] \in {"signalling", "closing"}
        /\ \A q \in Stoppers \ {p} : stop'[q] = stop[q]
    BY <1>1, <1>4 DEF StopSelects, StopSelectsWhen, StopSignals
  <2>2. Fresh' /\ Numbered' /\ Checking' /\ Preparing' /\ PublishedHandleOpen' /\ ServingHasHandle'
    BY <1>2, <2>1 DEF Fresh, Numbered, Checking, Preparing, PublishedHandleOpen, ServingHasHandle
  <2>3. ASSUME NEW r \in Runs, Owned(r) PROVE Owned(r)'
    <3>1. ASSUME NEW q \in Stoppers, stop[q] \in {"selecting", "signalling", "closing"}
          PROVE  stop'[q] \in {"selecting", "signalling", "closing"}
      BY <2>1, <3>1
    <3> QED
      BY <1>2, <2>1, <2>3, <3>1 DEF Owned
  <2>4. OpenHandlesOwned'
    BY <1>2, <2>1, <2>3 DEF OpenHandlesOwned
  <2> QED
    BY <1>1, <2>2, <2>4
<1>5. CASE StopCloses(p)
  <2> DEFINE h == took[p].handle
  <2>1. /\ UNCHANGED <<handle, took>>
        /\ stop[p] = "closing" /\ stop'[p] = "done"
        /\ \A q \in Stoppers \ {p} : stop'[q] = stop[q]
        /\ h # Nil /\ profile.closesOnStop => driver' = [driver EXCEPT ![h] = "closed"]
        /\ ~(h # Nil /\ profile.closesOnStop) => driver' = driver
    BY <1>1, <1>5 DEF StopCloses, ClosesThen
  <2>2. /\ \A r \in Runs : r # h => driver'[r] = driver[r]
        /\ h \in 0..MaxRuns /\ h <= run
        /\ handle # Nil => h # handle
        /\ start \in {"preparing", "checking"} => h # run
    BY <1>1, <2>1 DEF Numbered, PublishedHandleOpen, Fresh
  <2>3. \A r \in Runs : driver[r] # "none" => driver'[r] # "none"
    BY <1>1, <2>1, <2>2
  <2>4. \A r \in Runs : driver'[r] # "none" => r <= run
    BY <1>1, <2>1, <2>2 DEF Numbered
  <2>5. start # "down" => run \in Runs
    BY <1>1 DEF TypeOK
  <2>6. Fresh' /\ Numbered' /\ Checking' /\ Preparing'
    BY <1>2, <2>1, <2>2, <2>4, <2>5 DEF Fresh, Numbered, Checking, Preparing
  <2>7. PublishedHandleOpen' /\ ServingHasHandle'
    <3>1. PublishedHandleOpen'
      BY <1>1, <1>2, <2>1, <2>2 DEF PublishedHandleOpen
    <3>2. ServingHasHandle'
      BY <1>1, <1>2, <2>1 DEF ServingHasHandle
    <3> QED
      BY <3>1, <3>2
  <2>8. ASSUME NEW r \in Runs, profile.closesOnStop, driver'[r] = "open" PROVE Owned(r)'
    <3>1. r # h
      BY <1>1, <2>1, <2>8
    <3>2. Owned(r)
      BY <2>2, <2>8, <3>1 DEF OpenHandlesOwned
    <3> QED
      BY <1>2, <2>1, <2>3, <3>1, <3>2 DEF Owned
  <2>9. OpenHandlesOwned'
    BY <1>2, <2>8 DEF OpenHandlesOwned
  <2> QED
    BY <1>1, <2>6, <2>7, <2>9
<1> QED
  BY <1>3, <1>4, <1>5 DEF StopStep

LEMMA NextHandleInv == HandleInv /\ [Next]_vars => HandleInv'
<1> SUFFICES ASSUME HandleInv, [Next]_vars PROVE HandleInv'
  OBVIOUS
<1>1. TypeOK'
  BY NextTypeOK DEF HandleInv
<1>2. ASSUME UNCHANGED <<profile, handle, start, run, driver, stop, took>>
      PROVE  HandleInv'
  <2>1. \A r \in Runs : Owned(r) => Owned(r)'
    BY <1>2 DEF Owned
  <2> QED
    BY <1>1, <1>2, <2>1 DEF HandleInv, Fresh, Numbered, Checking, Preparing,
       PublishedHandleOpen, ServingHasHandle, OpenHandlesOwned
<1>3. CASE UNCHANGED vars
  BY <1>2, <1>3 DEF vars, startVars, stopVars
<1>4. CASE SupervisorCancels
  BY <1>2, <1>4 DEF SupervisorCancels, startVars, stopVars
<1> QED
  BY <1>3, <1>4, BeginsHandleInv, StartHandleInv, StopHandleInv DEF Next

\* The strengthening the next theorems rest on.
THEOREM HandleInvariant == Spec => []HandleInv
BY InitHandleInv, NextHandleInv, PTL DEF Spec

\* The handle that operations and Health find is open, and nobody is about to close
\* it, however many closing goroutines of earlier Stops are still under way.
THEOREM PublishedIsOpen == Spec => []PublishedHandleOpen
<1>1. HandleInv => PublishedHandleOpen
  BY DEF HandleInv
<1> QED
  BY <1>1, HandleInvariant, PTL

\* A run that serves has its handle, unless a Stop took it.
THEOREM ServingIsConnected == Spec => []ServingHasHandle
<1>1. HandleInv => ServingHasHandle
  BY DEF HandleInv
<1> QED
  BY <1>1, HandleInvariant, PTL

\* An open handle of the driver has somebody to close it, or a later run published
\* its own over it.
THEOREM OpenIsOwned == Spec => []OpenHandlesOwned
<1>1. HandleInv => OpenHandlesOwned
  BY DEF HandleInv
<1> QED
  BY <1>1, HandleInvariant, PTL

-----------------------------------------------------------------------------
(* The contract with the supervisor, step by step.                         *)

Phase == CASE start = "down" -> "down"
           [] start = "serving" -> "ready"
           [] OTHER -> "starting"
Outcome == IF start = "down" /\ run # 0
           THEN IF result[run] = "ctx" /\ ~profile.cleanCancel
                THEN "interrupted" ELSE result[run]
           ELSE "none"

ContractStep == [Contract!Next]_(Contract!vars)

\* A step that Start does not notice asks it to end, or changes nothing.
LEMMA AsideStep ==
    ASSUME StopInv, UNCHANGED <<profile, start, run, result>>, Asked(run) => Asked(run)'
    PROVE  ContractStep
<1>1. Phase' = Phase /\ Outcome' = Outcome
  BY DEF Phase, Outcome
<1>2. Asked(run) \in BOOLEAN /\ Asked(run)' \in BOOLEAN
  BY DEF Asked
<1>3. Asked(run)' = TRUE \/ Asked(run)' = Asked(run)
  BY <1>2
<1> QED
  BY <1>1, <1>3 DEF ContractStep, Contract!Next, Contract!Ask, Contract!vars, Phase, Outcome

LEMMA BeginsStep == ASSUME StopInv, StartBegins PROVE ContractStep
<1>1. /\ start = "down" /\ start' = "preparing" /\ run' = run + 1 /\ run \in 0..MaxRuns
      /\ run < MaxRuns /\ UNCHANGED <<cancelled, stop, took>>
  BY DEF StartBegins, ctxVars, stopVars, StopInv, TypeOK
<1>2. run + 1 \notin cancelled /\ \A p \in Stoppers : ~Took(p, run + 1)
  BY <1>1 DEF StopInv, StopChannels, Took
<1>3. Asked(run)' = FALSE
  BY <1>1, <1>2 DEF Asked, Took
<1> QED
  BY <1>1, <1>3 DEF ContractStep, Contract!Next, Contract!Begin

\* Start returns an error before ready(), or when asked nil, or the error of the
\* check that its context interrupted.
LEMMA ReturnsStep ==
    ASSUME StopInv, NEW res \in {"nil", "error", "ctx"}, Return(res), start # "down",
           UNCHANGED <<profile, cancelled, stop, took>>,
           res \in {"nil", "ctx"} => Asked(run),
           res = "ctx" => ~profile.cleanCancel,
           res # "nil" => start # "serving"
    PROVE  ContractStep
<1>1. start' = "down" /\ run' = run /\ run # 0 /\ result'[run] = res
  BY DEF Return, StopInv, TypeOK
<1>2. Asked(run)' = Asked(run)
  BY <1>1 DEF Asked, Took
<1>3. CASE res = "nil"
  BY <1>1, <1>2, <1>3 DEF ContractStep, Contract!Next, Contract!End
<1>4. CASE res = "error"
  BY <1>1, <1>2, <1>4 DEF ContractStep, Contract!Next, Contract!Fail
<1>5. CASE res = "ctx"
  <2>1. start \in {"preparing", "checking"}
    BY <1>5 DEF StopInv, TypeOK
  <2> QED
    BY <1>1, <1>2, <1>5, <2>1 DEF ContractStep, Contract!Next, Contract!Interrupt
<1> QED
  BY <1>3, <1>4, <1>5

LEMMA StartContract == ASSUME StopInv, StartStep PROVE ContractStep
<1>1. UNCHANGED <<profile, run, cancelled, stop, took>>
  BY DEF StartStep, StartFailsEarly, StartOpens, StartChecks, StartCheckFails, CheckFails,
         StartInstalls, StartWakes, Return, ctxVars, stopVars
<1>2. Asked(run)' = Asked(run)
  BY <1>1 DEF Asked, Took
<1>3. CASE StartFailsEarly
  BY <1>1, <1>3, ReturnsStep DEF StartFailsEarly
<1>4. CASE StartOpens \/ StartChecks
  <2>1. /\ start \in {"preparing", "checking"} /\ start' \in {"preparing", "checking"}
    BY <1>4 DEF StartOpens, StartChecks
  <2> QED
    BY <1>1, <1>2, <2>1 DEF ContractStep, Contract!vars
<1>5. CASE StartCheckFails
  <2>1. /\ CheckError \in {"nil", "error", "ctx"}
        /\ CheckError \in {"nil", "ctx"} => run \in cancelled
        /\ CheckError = "ctx" => ~profile.cleanCancel
    <3>1. CASE run \notin cancelled
      BY <3>1 DEF CheckError
    <3>2. CASE run \in cancelled /\ profile.cleanCancel
      BY <3>2 DEF CheckError
    <3>3. CASE run \in cancelled /\ ~profile.cleanCancel
      BY <3>3 DEF CheckError
    <3> QED
      BY <3>1, <3>2, <3>3
  <2>2. Return(CheckError) /\ start = "checking"
    BY <1>5 DEF StartCheckFails, CheckFails
  <2> QED
    BY <1>1, <2>1, <2>2, ReturnsStep DEF Asked
<1>6. CASE StartInstalls
  BY <1>1, <1>2, <1>6 DEF StartInstalls, ContractStep, Contract!Next, Contract!Ready
<1>7. CASE StartWakes
  <2>1. Return("nil") /\ start = "serving" /\ (run \in stopClosed \/ run \in cancelled)
    BY <1>7 DEF StartWakes
  <2>2. run \in 0..MaxRuns
    BY DEF StopInv, TypeOK
  <2>3. Asked(run)
    BY <2>1, <2>2 DEF StopInv, StopChannels, Asked
  <2> QED
    BY <1>1, <2>1, <2>3, ReturnsStep
<1> QED
  BY <1>3, <1>4, <1>5, <1>6, <1>7 DEF StartStep

LEMMA NextContract == StopInv /\ [Next]_vars => ContractStep
<1> SUFFICES ASSUME StopInv, [Next]_vars PROVE ContractStep
  OBVIOUS
<1>1. CASE UNCHANGED vars
  <2>1. UNCHANGED <<profile, start, run, result, cancelled, stop, took>>
    BY <1>1 DEF vars, startVars, ctxVars, stopVars
  <2> QED
    BY <2>1, AsideStep DEF Asked, Took
<1>2. CASE SupervisorCancels
  <2>1. UNCHANGED <<profile, start, run, result, stop, took>> /\ cancelled \subseteq cancelled'
    BY <1>2 DEF SupervisorCancels, startVars, stopVars
  <2> QED
    BY <2>1, AsideStep DEF Asked, Took
<1>3. ASSUME NEW p \in Stoppers, StopTakes(p) \/ StopStep(p)
      PROVE  ContractStep
  <2>1. UNCHANGED <<profile, start, run, result, cancelled>>
    BY <1>3 DEF StopStep, StopTakes, StopLeaves, StopSelects, StopSelectsWhen, StopSignals,
       StopCloses, ClosesThen, startVars, ctxVars
  <2>2. \A q \in Stoppers : stop[q] # "idle" => stop'[q] # "idle" /\ took'[q] = took[q]
    BY <1>3 DEF StopStep, StopTakes, StopLeaves, StopSelects, StopSelectsWhen, StopSignals,
       StopCloses, ClosesThen, StopInv, TypeOK
  <2>3. Asked(run) => Asked(run)'
    BY <2>1, <2>2 DEF Asked, Took
  <2> QED
    BY <2>1, <2>3, AsideStep
<1> QED
  BY <1>1, <1>2, <1>3, BeginsStep, StartContract DEF Next

\* Each of the five components keeps its contract with the supervisor: Start
\* returns nil only when its context or a Stop asked it to end, and an error only
\* before ready(); in redis, postgresql, sqlite and s3 that may be, against what
\* the tests ask for, the error of a check that a cancelled context interrupted.
THEOREM ImplementsContract == Spec => KeepsContract
<1>1. Init => Contract!Init
  <2> SUFFICES ASSUME Init PROVE Contract!Init
    OBVIOUS
  <2>1. Asked(run) \in BOOLEAN
    BY DEF Asked
  <2> QED
    BY <2>1 DEF Init, Contract!Init
<1>2. Spec => []StopInv
  BY InitStopInv, NextStopInv, PTL DEF Spec
<1> QED
  BY <1>1, <1>2, NextContract, PTL DEF Spec, KeepsContract, Contract!Spec, ContractStep

-----------------------------------------------------------------------------
(* The slot that operations find the handle in.                            *)

SlotStep == [Slot!SlotNext]_(Slot!slotVars)

TakenWasOpen == \A p \in Stoppers : took[p].handle # Nil => driver[took[p].handle] # "none"

LEMMA StartSlot ==
    ASSUME HandleInv, StartStep
    PROVE  /\ SlotStep
           /\ took' = took /\ \A r \in Runs : driver[r] # "none" => driver'[r] # "none"
<1>1. run \in Runs /\ driver \in [Runs -> {"none", "open", "closed"}]
  BY DEF HandleInv, TypeOK, StartStep, StartFailsEarly, StartOpens, StartChecks,
     StartCheckFails, CheckFails, StartInstalls, StartWakes
<1>2. took' = took
  BY DEF StartStep, StartFailsEarly, StartOpens, StartChecks, StartCheckFails, CheckFails,
     StartInstalls, StartWakes, stopVars
<1>3. CASE StartFailsEarly \/ StartChecks \/ StartWakes
  <2>1. UNCHANGED <<handle, driver>>
    BY <1>3 DEF StartFailsEarly, StartChecks, StartWakes
  <2> QED
    BY <1>2, <2>1 DEF SlotStep, Slot!slotVars
<1>4. CASE StartOpens
  <2>1. /\ driver[run] = "none" /\ driver' = [driver EXCEPT ![run] = "open"]
        /\ UNCHANGED handle
    BY <1>4 DEF StartOpens, HandleInv, Preparing
  <2> QED
    BY <1>1, <1>2, <2>1 DEF SlotStep, Slot!SlotNext, Slot!Opens
<1>5. CASE StartCheckFails
  <2>1. /\ driver[run] = "open" /\ driver' = [driver EXCEPT ![run] = LeftByCheck]
        /\ handle # run /\ UNCHANGED handle
    BY <1>5 DEF StartCheckFails, CheckFails, HandleInv, Checking, Fresh
  <2>2. CASE LeftByCheck = "closed"
    BY <1>1, <1>2, <2>1, <2>2 DEF SlotStep, Slot!SlotNext, Slot!Closes
  <2>3. CASE LeftByCheck = "open"
    <3>1. driver' = driver
      BY <1>1, <2>1, <2>3
    <3> QED
      BY <1>2, <2>1, <3>1 DEF SlotStep, Slot!slotVars
  <2> QED
    BY <2>2, <2>3 DEF LeftByCheck
<1>6. CASE StartInstalls
  <2>1. driver[run] = "open" /\ handle' = run /\ UNCHANGED driver
    BY <1>6 DEF StartInstalls, HandleInv, Checking
  <2> QED
    BY <1>1, <1>2, <2>1 DEF SlotStep, Slot!SlotNext, Slot!Published
<1> QED
  BY <1>3, <1>4, <1>5, <1>6 DEF StartStep

LEMMA StopSlot ==
    ASSUME HandleInv, TakenWasOpen, NEW p \in Stoppers, StopTakes(p) \/ StopStep(p)
    PROVE  SlotStep /\ TakenWasOpen'
<1>1. /\ handle \in 0..MaxRuns /\ driver \in [Runs -> {"none", "open", "closed"}]
      /\ took \in [Stoppers -> [stopCh : 0..PreClosed, handle : 0..MaxRuns]]
  BY DEF HandleInv, TypeOK
<1>2. CASE StopTakes(p)
  <2>1. /\ handle' = Nil /\ driver' = driver
        /\ \A q \in Stoppers : took'[q].handle = IF q = p THEN handle ELSE took[q].handle
    BY <1>1, <1>2 DEF StopTakes, StopLeaves
  <2>2. TakenWasOpen'
    BY <2>1 DEF TakenWasOpen, HandleInv, PublishedHandleOpen
  <2> QED
    BY <2>1, <2>2 DEF SlotStep, Slot!SlotNext, Slot!Taken
<1>3. CASE StopSelects(p) \/ StopSignals(p)
  <2>1. UNCHANGED <<handle, driver, took>>
    BY <1>3 DEF StopSelects, StopSelectsWhen, StopSignals
  <2> QED
    BY <2>1 DEF SlotStep, Slot!slotVars, TakenWasOpen
<1>4. CASE StopCloses(p)
  <2> DEFINE h == took[p].handle
  <2>1. /\ stop[p] = "closing" /\ UNCHANGED <<handle, took>>
        /\ \/ h # Nil /\ driver' = [driver EXCEPT ![h] = "closed"]
           \/ driver' = driver
    BY <1>4 DEF StopCloses, ClosesThen
  <2>2. CASE h # Nil /\ driver' = [driver EXCEPT ![h] = "closed"]
    <3>1. h \in Runs /\ h # handle /\ driver[h] \in {"open", "closed"}
      BY <1>1, <2>1, <2>2 DEF TakenWasOpen, HandleInv, PublishedHandleOpen
    <3>2. TakenWasOpen'
      BY <1>1, <2>1, <2>2 DEF TakenWasOpen
    <3>3. CASE driver[h] = "open"
      BY <1>1, <2>1, <2>2, <3>1, <3>2, <3>3 DEF SlotStep, Slot!SlotNext, Slot!Closes
    <3>4. CASE driver[h] = "closed"
      <4>1. driver' = driver
        BY <1>1, <2>2, <3>4
      <4> QED
        BY <2>1, <3>2, <4>1 DEF SlotStep, Slot!slotVars
    <3> QED
      BY <3>1, <3>3, <3>4
  <2>3. CASE driver' = driver
    BY <2>1, <2>3 DEF SlotStep, Slot!slotVars, TakenWasOpen
  <2> QED
    BY <2>1, <2>2, <2>3
<1> QED
  BY <1>2, <1>3, <1>4 DEF StopStep

LEMMA NextSlot == HandleInv /\ TakenWasOpen /\ [Next]_vars => SlotStep /\ TakenWasOpen'
<1> SUFFICES ASSUME HandleInv, TakenWasOpen, [Next]_vars PROVE SlotStep /\ TakenWasOpen'
  OBVIOUS
<1>1. CASE UNCHANGED vars \/ StartBegins \/ SupervisorCancels
  <2>1. UNCHANGED <<handle, driver, took>>
    BY <1>1 DEF vars, StartBegins, SupervisorCancels, stopVars
  <2> QED
    BY <2>1 DEF SlotStep, Slot!slotVars, TakenWasOpen
<1>2. CASE StartStep
  <2>1. \A p \in Stoppers : took[p].handle \in 0..MaxRuns
    BY DEF HandleInv, TypeOK
  <2> QED
    BY <1>2, <2>1, StartSlot DEF TakenWasOpen
<1> QED
  BY <1>1, <1>2, StopSlot DEF Next

\* What operations and Health of each of the five components find, whatever Start,
\* Stop and its closing goroutine do meanwhile, is a slot as HandleSlot describes
\* it, over which the calls of Operations are checked.
THEOREM ImplementsSlot == Spec => KeepsSlot
<1>1. Init => Slot!SlotInit /\ TakenWasOpen
  BY DEF Init, Slot!SlotInit, TakenWasOpen
<1>2. Spec => []TakenWasOpen
  BY <1>1, HandleInvariant, NextSlot, PTL DEF Spec
<1> QED
  BY <1>1, <1>2, HandleInvariant, NextSlot, PTL DEF Spec, KeepsSlot, Slot!SlotSpec, SlotStep

-----------------------------------------------------------------------------
(* The life of a component and the calls of its operations side by side,   *)
(* as they are model-checked: what is proved of each of the two holds of   *)
(* the composed behaviours.                                                *)

\* Refinement: the life and the operations, each seen alone in the composition,
\* behave as their own specifications say.
THEOREM EachPartBehaves == MCSpec => Spec /\ O!Spec
<1>1. MCInit => Init /\ O!Init
  BY DEF MCInit
<1>2. UNCHANGED operationVars => UNCHANGED O!vars
  BY DEF operationVars, O!vars, O!slotVars, O!callVars
<1>3. [MCNext]_<<kind, vars, operationVars>> => [Next]_vars /\ [O!Next]_O!vars
  BY <1>2 DEF MCNext
<1> QED
  BY <1>1, <1>3, PTL DEF MCSpec, Spec, O!Spec

\* A call that returns without an error has seen every key the server held all the
\* while, and deleted it or left it to the server's refusal.
THEOREM ComposedListingsMissNothing == MCSpec => []NothingMissed
BY O!ListingsMissNothing, EachPartBehaves, PTL DEF NothingMissed

\* A call that returns ErrNotReady has not called the driver, and one that called it
\* is not reported with a zero duration.
THEOREM ComposedNotReadyIsUntried == MCSpec => []NotReadyUntried
BY O!NotReadyIsUntried, EachPartBehaves, PTL DEF NotReadyUntried

=============================================================================
