------------------------ MODULE RabbitConsumerProofs ------------------------
(***************************************************************************)
(* What RabbitLifecycle promises of subscriptions, exchanges and consumer  *)
(* goroutines, for any of them and any number of Stops and runs: Stop      *)
(* never makes a consumer report itself dead, a consumer that did die is   *)
(* reported, and a serving run has all that is registered.                 *)
(*                                                                         *)
(* A Stop cancels only the run context it finds, and closes only the       *)
(* channel it finds; consumers may consume on the channel of one run under *)
(* the context of another.  The first invariant says why every consumer on *)
(* that channel has its context done all the same before the channel       *)
(* closes.                                                                 *)
(***************************************************************************)
EXTENDS RabbitLifecycleProofs

USE Assumption DEF Runs, Nil, PreClosed, Calls, Link

\* The run's context is the current one until it ends; every other is done.
EarlyOrServing == start \notin {"down", "closing", "ending"}
RunContext ==
    /\ runCtx \in {Nil, run}
    /\ EarlyOrServing => runCtx = run
    /\ start = "ending" => run \in runDone
    /\ \A r \in 1..run : r # runCtx => CtxDone(r)

\* Channels and contexts in anybody's hands belong to runs that have begun.
Numbered ==
    /\ handle <= run
    /\ \A p \in Stoppers : took[p].handle <= run
    /\ \A c \in Calls : seen[c][1] <= run /\ seen[c][2] <= run
    /\ \A k \in consumers : k.conn <= run /\ k.ctx <= run
    /\ \A r \in Runs : closer[r] = "stop" => r <= run

\* Nobody has the channel of a run that has not opened it yet.
Unopened ==
    start \in {"dialing", "opening"} =>
        /\ handle # run /\ closer[run] # "stop"
        /\ \A p \in Stoppers : took[p].handle # run
        /\ \A c \in Calls : seen[c][1] # run
        /\ \A k \in consumers : k.conn # run

\* A Stop that took channel h has cancelled, or will before it closes h, the context
\* of every consumer on h whose context is not done otherwise.
Covered(p, x) == x = took[p].runCtx \/ CtxDone(x)
StopCancels ==
    \A p \in Stoppers :
        /\ stop[p] = "idle" => took[p].handle = Nil
        /\ stop[p] \notin {"idle", "cancelling"} /\ took[p].runCtx # Nil =>
               took[p].runCtx \in runDone
        /\ took[p].handle # Nil =>
               /\ took[p].handle # handle
               /\ EarlyOrServing /\ took[p].handle = run => took[p].runCtx = run
               /\ \A k \in consumers : k.conn = took[p].handle => Covered(p, k.ctx)
               /\ \A c \in Calls : seen[c][1] = took[p].handle /\ seen[c][2] # Nil =>
                      Covered(p, seen[c][2])

StopClosed ==
    \A r \in Runs : closer[r] = "stop" =>
        /\ chan[r] = "closed"
        /\ \A k \in consumers : k.conn = r => CtxDone(k.ctx)

MarksOfBroker ==
    \A k \in consumers : k.at = "marking" =>
        k.cut \/ (chan[k.conn] = "closed" /\ closer[k.conn] # "stop")

DeathInv ==
    /\ TypeOK /\ RunContext /\ Numbered /\ Unopened
    /\ StopCancels /\ StopClosed /\ MarksOfBroker

-----------------------------------------------------------------------------
(* What one step may do to each part of the state.                         *)

RunEffect ==
    /\ runDone \subseteq runDone' /\ cancelled \subseteq cancelled'
    /\ \/ /\ run' = run /\ runCtx' = runCtx
          /\ EarlyOrServing' => EarlyOrServing
          /\ start' = "ending" => start = "ending" \/ run \in runDone'
       \/ /\ start = "down" /\ start' = "dialing" /\ (run # 0 => run \in cancelled)
          /\ run' = run + 1 /\ runCtx' = run + 1
       \/ /\ run' = run /\ runCtx' = Nil
          /\ start' \in {"closing", "down"} /\ (start = "ending" \/ run \in runDone')
    /\ start' \in {"dialing", "opening"} => run' = run + 1 \/ start \in {"dialing", "opening"}

HandleEffect ==
    handle' \in {handle, Nil} \/ (start = "opening" /\ start' = "copyingExchanges" /\ handle' = run)

SeenEffect == \A c \in Calls : seen'[c] \in {seen[c], <<Nil, Nil>>, <<handle, runCtx>>}

StopEffect ==
    \A p \in Stoppers :
        \/ stop'[p] = stop[p] /\ took'[p] = took[p]
        \/ /\ stop[p] = "idle" /\ stop'[p] = "cancelling"
           /\ took'[p].handle = handle /\ took'[p].runCtx = runCtx /\ handle' = Nil
           /\ UNCHANGED <<run, runCtx, start, seen, consumers>>
        \/ /\ stop[p] = "cancelling" /\ stop'[p] = "selecting" /\ took'[p] = took[p]
           /\ took[p].runCtx # Nil => took[p].runCtx \in runDone'
        \/ /\ stop[p] \notin {"idle", "cancelling"} /\ stop'[p] \notin {"idle", "cancelling"}
           /\ took'[p] = took[p] \/ (took'[p].handle = Nil /\ took'[p].runCtx = Nil)

LinkEffect ==
    \A r \in Runs :
        /\ closer'[r] # closer[r] => chan[r] = "open"
        /\ closer'[r] = "stop" /\ closer[r] # "stop" =>
               /\ chan'[r] = "closed"
               /\ \E p \in Stoppers : stop[p] = "closing" /\ took[p].handle = r
        /\ chan[r] = "closed" => chan'[r] = "closed" \/ (start = "opening" /\ r = run)

ConsumerEffect ==
    \A k \in consumers' :
        \/ \E j \in consumers : j.conn = k.conn /\ j.ctx = k.ctx
        \/ start = "binding" /\ k.conn = run /\ k.ctx = run /\ chan[k.conn] = "open"
        \/ \E c \in Subs : /\ seen[c][1] = k.conn /\ seen[c][2] = k.ctx
                           /\ seen[c][2] # Nil /\ chan[k.conn] = "open"

MarkEffect ==
    \A k \in consumers' : k.at = "marking" =>
        \/ \E j \in consumers : j.at = "marking" /\ j.cut = k.cut /\ j.conn = k.conn
        \/ /\ \E j \in consumers : j.conn = k.conn /\ ~CtxDone(j.ctx)
           /\ k.cut \/ chan[k.conn] = "closed"
           /\ UNCHANGED <<chan, closer>>

Effects ==
    /\ RunEffect /\ HandleEffect /\ SeenEffect /\ StopEffect
    /\ LinkEffect /\ ConsumerEffect /\ MarkEffect

\* What a step leaves alone, it does nothing to.
LEMMA NoEffect ==
    /\ UNCHANGED <<start, run, runCtx, runDone, cancelled>> => RunEffect
    /\ UNCHANGED handle => HandleEffect
    /\ UNCHANGED seen => SeenEffect
    /\ UNCHANGED <<stop, took>> => StopEffect
    /\ UNCHANGED <<chan, closer>> => LinkEffect
    /\ UNCHANGED consumers => ConsumerEffect /\ MarkEffect
<1>1. UNCHANGED <<start, run, runCtx, runDone, cancelled>> => RunEffect
  BY DEF RunEffect, EarlyOrServing
<1>2. UNCHANGED <<chan, closer>> => LinkEffect
  BY DEF LinkEffect
<1>3. UNCHANGED consumers => ConsumerEffect /\ MarkEffect
  BY DEF ConsumerEffect, MarkEffect
<1> QED
  BY <1>1, <1>2, <1>3 DEF HandleEffect, SeenEffect, StopEffect

\* A connection is closed by who.
LEMMA CloseBothEffect ==
    ASSUME TypeOK, NEW r \in Runs, NEW who \in {"broker", "start"}, CloseBoth(r, who)
    PROVE  LinkEffect
BY DEF CloseBoth, LinkEffect, TypeOK, AmqpOK

LEMMA StartRunEffect == ASSUME StartStep PROVE RunEffect
<1> USE DEF RunEffect, EarlyOrServing, Return
<1>1. CASE StartCancelledInDial \/ StartDialTimesOut \/ StartDialDone
  BY <1>1 DEF StartCancelledInDial, StartDialTimesOut, TimeOutReturns, StartDialDone,
     fieldVars, ctxVars
<1>2. CASE StartInstalls \/ StartOpenFails \/ StartCopiesExchanges
  BY <1>2 DEF StartInstalls, StartOpenFails, StartCopiesExchanges, fieldVars, ctxVars
<1>3. CASE StartDeclares \/ StartDeclareFails \/ StartCopiesSubs
  BY <1>3 DEF StartDeclares, StartDeclareFails, StartCopiesSubs, fieldVars, ctxVars
<1>4. CASE StartResetsDead \/ StartBinds \/ StartBindFails
  BY <1>4 DEF StartResetsDead, StartBinds, BindsThenReady, StartBindFails, fieldVars, ctxVars
<1>5. CASE StartClosesFailedRun \/ StartWakes \/ StartEnds
  BY <1>5 DEF StartClosesFailedRun, StartWakes, StartEnds, fieldVars, ctxVars
<1> QED
  BY <1>1, <1>2, <1>3, <1>4, <1>5 DEF StartStep

LEMMA StartEffects == ASSUME TypeOK, StartStep PROVE Effects
<1>1. RunEffect
  BY StartRunEffect
<1>2. UNCHANGED <<seen, stop, took>>
  BY DEF StartStep, StartCancelledInDial, StartDialTimesOut, TimeOutReturns, StartDialDone,
         StartInstalls, StartOpenFails, StartCopiesExchanges, StartDeclares, StartDeclareFails,
         StartCopiesSubs, StartResetsDead, StartBinds, BindsThenReady, StartBindFails,
         StartClosesFailedRun, StartWakes, StartEnds, callVars, stopVars
<1>3. HandleEffect
  BY DEF HandleEffect, StartStep, StartCancelledInDial, StartDialTimesOut, TimeOutReturns,
         StartDialDone, StartInstalls, StartOpenFails, StartCopiesExchanges, StartDeclares,
         StartDeclareFails, StartCopiesSubs, StartResetsDead, StartBinds, BindsThenReady,
         StartBindFails, StartClosesFailedRun, StartWakes, StartEnds, fieldVars
<1>4. LinkEffect /\ ConsumerEffect /\ MarkEffect
  <2>1. CASE UNCHANGED <<chan, closer, consumers>>
    BY <2>1, NoEffect
  <2>2. CASE StartInstalls
    <3>1. start = "opening" /\ chan' = [chan EXCEPT ![run] = "open"] /\ UNCHANGED <<closer, consumers>>
      BY <2>2 DEF StartInstalls
    <3>2. LinkEffect
      BY <3>1 DEF LinkEffect, TypeOK, AmqpOK
    <3> QED
      BY <3>1, <3>2, NoEffect
  <2>3. CASE StartDeclareFails \/ StartClosesFailedRun
    <3>1. run \in Runs /\ CloseBoth(run, "start") /\ UNCHANGED consumers
      BY <2>3 DEF StartDeclareFails, StartClosesFailedRun, TypeOK, StartOK
    <3> QED
      BY <3>1, CloseBothEffect, NoEffect
  <2>4. CASE StartBinds /\ Consume(Head(todo), "start", run, run)
    <3>1. /\ start = "binding" /\ chan[run] = "open" /\ UNCHANGED <<chan, closer>>
          /\ consumers' = consumers \cup {NewConsumer(Head(todo), "start", run, run)}
      BY <2>4 DEF StartBinds, BindsThenReady, Consume
    <3>2. ASSUME NEW k \in consumers'
          PROVE  k \in consumers \/ (k.conn = run /\ k.ctx = run /\ k.at = "running")
      BY <3>1, <3>2 DEF NewConsumer
    <3>3. ConsumerEffect /\ MarkEffect
      BY <3>1, <3>2 DEF ConsumerEffect, MarkEffect
    <3> QED
      BY <3>1, <3>3, NoEffect
  <2> QED
    BY <2>1, <2>2, <2>3, <2>4
    DEF StartStep, StartCancelledInDial, StartDialTimesOut, TimeOutReturns, StartDialDone,
        StartOpenFails, StartCopiesExchanges, StartDeclares, StartCopiesSubs, StartResetsDead,
        StartBinds, BindsThenReady, StartBindFails, StartWakes, StartEnds, amqpVars
<1> QED
  BY <1>1, <1>2, <1>3, <1>4, NoEffect DEF Effects

LEMMA StopEffects ==
    ASSUME TypeOK, NEW p \in Stoppers, StopTakes(p) \/ StopStep(p)
    PROVE  Effects
<1>1. /\ stop \in [Stoppers -> {"idle", "cancelling", "selecting", "signalling", "closing", "done"}]
      /\ took \in [Stoppers -> Taken]
      /\ \A q \in Stoppers : took[q].handle \in 0..MaxRuns
  BY DEF TypeOK, StopOK, Taken
<1>2. UNCHANGED <<start, run, runCtx, cancelled, seen, consumers>> /\ runDone \subseteq runDone'
  BY DEF StopStep, StopTakes, StopLeaves, StopCancelsRun, StopSelects, StopSignalsUnless,
         StopSignals, StopCloses, fieldVars, startVars, ctxVars, amqpVars, callVars
<1>3. RunEffect /\ SeenEffect /\ ConsumerEffect /\ MarkEffect
  BY <1>2, NoEffect DEF RunEffect, EarlyOrServing
<1>4. CASE StopTakes(p)
  <2>1. StopEffect
    BY <1>1, <1>2, <1>4 DEF StopTakes, StopLeaves, StopEffect
  <2>2. HandleEffect /\ UNCHANGED <<chan, closer>>
    BY <1>4 DEF StopTakes, StopLeaves, HandleEffect, amqpVars
  <2> QED
    BY <1>3, <2>1, <2>2, NoEffect DEF Effects
<1>5. CASE StopCancelsRun(p) \/ StopSelects(p) \/ StopSignals(p)
  <2>1. StopEffect
    BY <1>1, <1>5 DEF StopCancelsRun, StopSelects, StopSignalsUnless, StopSignals, StopAt, StopEffect
  <2>2. UNCHANGED <<handle, chan, closer>>
    BY <1>5 DEF StopCancelsRun, StopSelects, StopSignalsUnless, StopSignals, fieldVars, amqpVars
  <2> QED
    BY <1>3, <2>1, <2>2, NoEffect DEF Effects
<1>6. CASE StopCloses(p)
  <2>1. /\ stop[p] = "closing" /\ stop' = [stop EXCEPT ![p] = "done"] /\ handle' = handle
        /\ took' = [took EXCEPT ![p] = [stopCh |-> took[p].stopCh, handle |-> Nil, runCtx |-> Nil]]
    BY <1>6 DEF StopCloses, fieldVars
  <2>2. StopEffect
    BY <1>1, <2>1 DEF StopEffect
  <2>3. LinkEffect
    <3>1. CASE took[p].handle = Nil
      BY <1>6, <3>1, NoEffect DEF StopCloses, amqpVars
    <3>2. CASE took[p].handle # Nil
      <4>1. CloseBoth(took[p].handle, "stop")
        BY <1>6, <3>2 DEF StopCloses
      <4> QED
        BY <1>1, <2>1, <3>2, <4>1 DEF CloseBoth, LinkEffect, TypeOK, AmqpOK
    <3> QED
      BY <3>1, <3>2
  <2> QED
    BY <1>3, <2>1, <2>2, <2>3, NoEffect DEF Effects
<1> QED
  BY <1>4, <1>5, <1>6 DEF StopStep

LEMMA CallEffects ==
    ASSUME TypeOK, NEW c \in Calls, Register(c) \/ CallStep(c)
    PROVE  Effects
<1>1. UNCHANGED <<start, run, runCtx, runDone, cancelled, handle, stop, took>>
  BY DEF Register, CallStep, ReadsHandle, DefersToStart, DefersIf, AppliesLive, RejectedLive,
         fieldVars, startVars, ctxVars, stopVars
<1>2. SeenEffect
  <2>1. seen \in [Calls -> (0..MaxRuns) \X (0..MaxRuns)]
    BY DEF TypeOK, CallOK
  <2> QED
    BY <2>1 DEF SeenEffect, Register, CallStep, ReadsHandle, DefersToStart, DefersIf, AppliesLive,
       RejectedLive, CallEnds, callVars
<1>3. LinkEffect /\ ConsumerEffect /\ MarkEffect
  <2>1. CASE UNCHANGED <<chan, closer, consumers>>
    BY <2>1, NoEffect
  <2>2. CASE RejectedLive(c)
    <3>1. seen[c][1] \in Runs
      BY <2>2 DEF RejectedLive, TypeOK, CallOK
    <3>2. LinkEffect
      BY <2>2, <3>1 DEF RejectedLive, CloseChannel, LinkEffect, TypeOK, AmqpOK
    <3> QED
      BY <2>2, <3>2, NoEffect DEF RejectedLive
  <2>3. CASE /\ c \in Subs /\ seen[c][2] # Nil
             /\ Consume(c, "live", seen[c][1], seen[c][2])
    <3>1. /\ chan[seen[c][1]] = "open" /\ UNCHANGED <<chan, closer>>
          /\ consumers' = consumers \cup {NewConsumer(c, "live", seen[c][1], seen[c][2])}
      BY <2>3 DEF Consume
    <3>2. ASSUME NEW k \in consumers'
          PROVE  k \in consumers \/ (k.conn = seen[c][1] /\ k.ctx = seen[c][2] /\ k.at = "running")
      BY <3>1, <3>2 DEF NewConsumer
    <3>3. ConsumerEffect /\ MarkEffect
      BY <2>3, <3>1, <3>2 DEF ConsumerEffect, MarkEffect
    <3> QED
      BY <3>1, <3>3, NoEffect
  <2> QED
    BY <2>1, <2>2, <2>3
    DEF Register, CallStep, ReadsHandle, DefersToStart, DefersIf, AppliesLive, amqpVars
<1> QED
  BY <1>1, <1>2, <1>3, NoEffect DEF Effects

LEMMA ConsumerEffects ==
    ASSUME TypeOK, NEW k \in consumers, ConsumerStep(k) \/ BrokerCancelsConsumer(k)
    PROVE  Effects
<1>1. UNCHANGED <<start, run, runCtx, runDone, cancelled, handle, seen, stop, took, chan, closer>>
  BY DEF ConsumerStep, ConsumerStops, ConsumerStopsWhen, ConsumerSeesClose, ConsumerMarksDead,
         BrokerCancelsConsumer, fieldVars, startVars, ctxVars, callVars, stopVars
<1>2. k \in Consumer
  BY DEF TypeOK, AmqpOK
<1>3. ASSUME consumers' = consumers \ {k}
      PROVE  ConsumerEffect /\ MarkEffect
  BY <1>3 DEF ConsumerEffect, MarkEffect
<1>4. ASSUME NEW to \in {"marking", "dead"}, Moves(k, to),
             to = "marking" => DeliveriesEnded(k) /\ ~CtxDone(k.ctx)
      PROVE  ConsumerEffect /\ MarkEffect
  <2>1. \A j \in consumers' : \/ j \in consumers
                              \/ j.conn = k.conn /\ j.ctx = k.ctx /\ j.cut = k.cut /\ j.at = to
    BY <1>2, <1>4 DEF Moves, Consumer
  <2> QED
    BY <1>1, <1>4, <2>1 DEF ConsumerEffect, MarkEffect, DeliveriesEnded
<1>5. ASSUME BrokerCancelsConsumer(k)
      PROVE  ConsumerEffect /\ MarkEffect
  <2>1. \A j \in consumers' : \/ j \in consumers
                              \/ j.conn = k.conn /\ j.ctx = k.ctx /\ j.at = "running"
    BY <1>2, <1>5 DEF BrokerCancelsConsumer, Consumer
  <2> QED
    BY <2>1 DEF ConsumerEffect, MarkEffect
<1>6. ConsumerEffect /\ MarkEffect
  BY <1>3, <1>4, <1>5 DEF ConsumerStep, ConsumerStops, ConsumerStopsWhen, ConsumerSeesClose,
     ConsumerMarksDead
<1> QED
  BY <1>1, <1>6, NoEffect DEF Effects

LEMMA NextEffects == TypeOK /\ [Next]_vars => Effects
<1> SUFFICES ASSUME TypeOK, [Next]_vars PROVE Effects
  OBVIOUS
<1>1. CASE UNCHANGED vars
  BY <1>1, NoEffect DEF Effects, vars, fieldVars, startVars, ctxVars, amqpVars, callVars, stopVars
<1>2. CASE StartBegins
  <2>1. RunEffect
    BY <1>2 DEF StartBegins, RunEffect, EarlyOrServing, ctxVars
  <2> QED
    BY <1>2, <2>1, NoEffect DEF StartBegins, Effects, amqpVars, callVars, stopVars
<1>3. CASE SupervisorCancels
  <2>1. RunEffect
    BY <1>3 DEF SupervisorCancels, RunEffect, EarlyOrServing, fieldVars, startVars
  <2> QED
    BY <1>3, <2>1, NoEffect DEF SupervisorCancels, Effects, fieldVars, amqpVars, callVars, stopVars
<1>4. ASSUME NEW r \in Runs, DialReturns(r) \/ DrainDial(r)
      PROVE  Effects
  BY <1>4, NoEffect DEF DialReturns, DrainDial, Effects, fieldVars, startVars, ctxVars, callVars, stopVars
<1>5. ASSUME NEW r \in Runs, BrokerDrops(r)
      PROVE  Effects
  BY <1>5, NoEffect, CloseBothEffect DEF BrokerDrops, Effects, fieldVars, startVars, ctxVars,
     callVars, stopVars
<1> QED
  BY <1>1, <1>2, <1>3, <1>4, <1>5, StartEffects, StopEffects, CallEffects, ConsumerEffects DEF Next

-----------------------------------------------------------------------------
(* The parts of the invariant, from the effects of a step.                 *)

LEMMA DoneStaysDone == RunEffect => \A r : CtxDone(r) => CtxDone(r)'
BY DEF RunEffect, CtxDone

LEMMA RunContextStep == ASSUME DeathInv, Effects PROVE RunContext'
<1>1. run \in 0..MaxRuns
  BY DEF DeathInv, TypeOK, StartOK
<1>2. \A r : CtxDone(r) => CtxDone(r)'
  BY DoneStaysDone DEF Effects
<1>3. CASE run' = run /\ runCtx' = runCtx
  BY <1>2, <1>3 DEF DeathInv, RunContext, Effects, RunEffect, EarlyOrServing
<1>4. CASE run' = run + 1 /\ runCtx' = run + 1 /\ start' = "dialing" /\ (run # 0 => run \in cancelled)
  <2>1. \A r \in 1..run : CtxDone(r)
    BY <1>1, <1>4 DEF DeathInv, RunContext, CtxDone
  <2> QED
    BY <1>1, <1>2, <1>4, <2>1 DEF DeathInv, RunContext, Effects, RunEffect, EarlyOrServing
<1>5. CASE run' = run /\ runCtx' = Nil /\ start' \in {"closing", "down"}
           /\ (start = "ending" \/ run \in runDone')
  BY <1>1, <1>2, <1>5 DEF DeathInv, RunContext, Effects, RunEffect, EarlyOrServing, CtxDone
<1> QED
  BY <1>3, <1>4, <1>5 DEF Effects, RunEffect

\* Also the step that begins a run finds nothing numbered beyond the run before.
UpTo(n) ==
    /\ handle <= n
    /\ \A p \in Stoppers : took[p].handle <= n
    /\ \A c \in Calls : seen[c][1] <= n /\ seen[c][2] <= n
    /\ \A k \in consumers : k.conn <= n /\ k.ctx <= n
    /\ \A r \in Runs : closer[r] = "stop" => r <= n

LEMMA UpToStep == ASSUME DeathInv, Effects, NEW n \in Nat, n = run PROVE UpTo(n)'
<1> USE DEF DeathInv, Numbered, Effects
<1>1. runCtx <= run /\ run \in 0..MaxRuns
  BY DEF RunContext, TypeOK, StartOK
<1>2. handle' <= n
  BY <1>1 DEF HandleEffect
<1>3. \A p \in Stoppers : took'[p].handle <= n
  BY <1>1 DEF StopEffect
<1>4. \A c \in Calls : seen'[c][1] <= n /\ seen'[c][2] <= n
  BY <1>1 DEF SeenEffect
<1>5. \A k \in consumers' : k.conn <= n /\ k.ctx <= n
  BY <1>1 DEF ConsumerEffect
<1>6. \A r \in Runs : closer'[r] = "stop" => r <= n
  BY DEF LinkEffect
<1> QED
  BY <1>2, <1>3, <1>4, <1>5, <1>6 DEF UpTo

LEMMA NumberedStep == ASSUME DeathInv, TypeOK', Effects PROVE Numbered' /\ Unopened'
<1>1. run \in 0..MaxRuns /\ run' \in 0..MaxRuns /\ run <= run'
  BY DEF DeathInv, TypeOK, StartOK, Effects, RunEffect
<1>2. PICK n \in Nat : n = run
  BY <1>1
<1>3. UpTo(n)'
  BY <1>2, UpToStep
<1>4. Numbered'
  <2>1. /\ handle' \in 0..MaxRuns
        /\ \A p \in Stoppers : took'[p].handle \in 0..MaxRuns
    BY DEF TypeOK, FieldsOK, StopOK, Taken
  <2>2. \A c \in Calls : seen'[c][1] \in 0..MaxRuns /\ seen'[c][2] \in 0..MaxRuns
    BY DEF TypeOK, CallOK
  <2>3. \A k \in consumers' : k.conn \in Runs /\ k.ctx \in Runs
    BY DEF TypeOK, AmqpOK, Consumer
  <2> QED
    BY <1>1, <1>2, <1>3, <2>1, <2>2, <2>3 DEF Numbered, UpTo
<1>5. Unopened'
  <2> SUFFICES ASSUME start' \in {"dialing", "opening"} PROVE Unopened'
    BY DEF Unopened
  <2>1. CASE run' = run + 1
    <3>1. run' > n /\ run' \in Runs
      BY <1>1, <1>2, <2>1
    <3> QED
      BY <1>1, <1>2, <1>3, <2>1, <3>1 DEF UpTo, Unopened
  <2>2. CASE run' = run /\ start \in {"dialing", "opening"}
    <3>1. run \in Runs
      BY <1>1, <2>2 DEF DeathInv, TypeOK, StartOK
    <3>2. Unopened /\ handle # run
      BY <2>2 DEF DeathInv, Unopened
    <3>3. handle' # run /\ \A p \in Stoppers : took'[p].handle # run
      BY <2>2, <3>1, <3>2 DEF Unopened, Effects, HandleEffect, StopEffect
    <3>4. \A c \in Calls : seen'[c][1] # run
      BY <2>2, <3>1, <3>2 DEF Unopened, Effects, SeenEffect
    <3>5. \A k \in consumers' : k.conn # run
      BY <2>2, <3>1, <3>2 DEF Unopened, Effects, ConsumerEffect
    <3>6. closer'[run] # "stop"
      BY <2>2, <3>1, <3>2 DEF Unopened, Effects, LinkEffect
    <3> QED
      BY <2>2, <3>3, <3>4, <3>5, <3>6 DEF Unopened
  <2> QED
    BY <2>1, <2>2 DEF Effects, RunEffect
<1> QED
  BY <1>4, <1>5

LEMMA StopCancelsStep == ASSUME DeathInv, TypeOK', Effects PROVE StopCancels'
<1>1. \A r : CtxDone(r) => CtxDone(r)'
  BY DoneStaysDone DEF Effects
<1>2. /\ run \in 0..MaxRuns /\ \A k \in consumers : k.conn \in Runs /\ k.ctx \in Runs
      /\ \A c \in Calls : seen[c][2] \in 0..MaxRuns
      /\ \A p \in Stoppers : took[p].handle \in 0..MaxRuns
      /\ runDone \subseteq runDone'
  BY DEF DeathInv, TypeOK, StartOK, AmqpOK, Consumer, CallOK, StopOK, Taken, Effects, RunEffect
<1>3. \A r \in 1..run : r = runCtx \/ CtxDone(r)
  BY DEF DeathInv, RunContext
<1> SUFFICES ASSUME NEW p \in Stoppers
    PROVE  /\ stop'[p] = "idle" => took'[p].handle = Nil
           /\ stop'[p] \notin {"idle", "cancelling"} /\ took'[p].runCtx # Nil =>
                  took'[p].runCtx \in runDone'
           /\ took'[p].handle # Nil =>
                  /\ took'[p].handle # handle'
                  /\ EarlyOrServing' /\ took'[p].handle = run' => took'[p].runCtx = run'
                  /\ \A k \in consumers' : k.conn = took'[p].handle => Covered(p, k.ctx)'
                  /\ \A c \in Calls : seen'[c][1] = took'[p].handle /\ seen'[c][2] # Nil =>
                         Covered(p, seen[c][2])'
  BY DEF StopCancels
<1>4. StopEffect /\ StopCancels
  BY DEF Effects, DeathInv
<1>5. /\ stop'[p] = "idle" => took'[p].handle = Nil
      /\ stop'[p] \notin {"idle", "cancelling"} /\ took'[p].runCtx # Nil =>
             took'[p].runCtx \in runDone'
  BY <1>2, <1>4 DEF StopEffect, StopCancels
<1>6. CASE took'[p].handle = Nil
  BY <1>5, <1>6
<1>7. CASE /\ stop[p] = "idle" /\ took'[p].handle = handle /\ took'[p].runCtx = runCtx
           /\ handle' = Nil /\ took'[p].handle # Nil
           /\ UNCHANGED <<run, runCtx, start, seen, consumers>>
  <2>1. EarlyOrServing' => runCtx = run
    BY <1>7 DEF DeathInv, RunContext, EarlyOrServing
  <2>2. \A k \in consumers' : Covered(p, k.ctx)'
    BY <1>1, <1>2, <1>3, <1>7 DEF Covered, DeathInv, Numbered
  <2>3. \A c \in Calls : seen'[c][2] # Nil => Covered(p, seen[c][2])'
    BY <1>1, <1>2, <1>3, <1>7 DEF Covered, DeathInv, Numbered
  <2> QED
    BY <1>5, <1>7, <2>1, <2>2, <2>3
<1>8. CASE took'[p] = took[p] /\ took[p].handle # Nil
  <2> DEFINE h == took[p].handle
  <2>1. h # handle'
    BY <1>4, <1>8 DEF StopCancels, Effects, HandleEffect, DeathInv, Unopened
  <2>2. EarlyOrServing' /\ h = run' => took[p].runCtx = run'
    BY <1>2, <1>4, <1>8 DEF StopCancels, Effects, RunEffect, DeathInv, Numbered, EarlyOrServing
  <2>3. \A x : Covered(p, x) => Covered(p, x)'
    BY <1>1, <1>8 DEF Covered
  <2>4. ASSUME NEW k \in consumers', k.conn = h PROVE Covered(p, k.ctx)'
    <3>1. CASE \E j \in consumers : j.conn = k.conn /\ j.ctx = k.ctx
      BY <1>4, <1>8, <2>3, <2>4, <3>1 DEF StopCancels
    <3>2. CASE start = "binding" /\ k.conn = run /\ k.ctx = run
      <4>1. took[p].runCtx = run
        BY <1>4, <1>8, <2>4, <3>2 DEF StopCancels, EarlyOrServing
      <4> QED
        BY <2>3, <3>2, <4>1 DEF Covered
    <3>3. CASE \E c \in Subs : seen[c][1] = k.conn /\ seen[c][2] = k.ctx /\ seen[c][2] # Nil
      BY <1>4, <1>8, <2>3, <2>4, <3>3 DEF StopCancels
    <3> QED
      BY <3>1, <3>2, <3>3 DEF Effects, ConsumerEffect
  <2>5. ASSUME NEW c \in Calls, seen'[c][1] = h, seen'[c][2] # Nil PROVE Covered(p, seen[c][2])'
    <3>1. seen'[c] = seen[c]
      BY <1>4, <1>8, <2>5 DEF StopCancels, Effects, SeenEffect
    <3> QED
      BY <1>4, <1>8, <2>3, <2>5, <3>1 DEF StopCancels
  <2> QED
    BY <1>5, <1>8, <2>1, <2>2, <2>4, <2>5
<1> QED
  BY <1>4, <1>6, <1>7, <1>8 DEF StopEffect

LEMMA StopClosedStep == ASSUME DeathInv, Effects PROVE StopClosed'
<1>1. \A r : CtxDone(r) => CtxDone(r)'
  BY DoneStaysDone DEF Effects
<1> SUFFICES ASSUME NEW r \in Runs, closer'[r] = "stop"
    PROVE  chan'[r] = "closed" /\ \A k \in consumers' : k.conn = r => CtxDone(k.ctx)'
  BY DEF StopClosed
<1>2. CASE closer[r] = "stop"
  <2>1. chan[r] = "closed" /\ \A k \in consumers : k.conn = r => CtxDone(k.ctx)
    BY <1>2 DEF DeathInv, StopClosed
  <2>2. chan'[r] = "closed"
    BY <1>2, <2>1 DEF Effects, LinkEffect, DeathInv, Unopened
  <2> QED
    BY <1>1, <2>1, <2>2 DEF Effects, ConsumerEffect
<1>3. CASE closer[r] # "stop"
  <2>1. PICK p \in Stoppers : stop[p] = "closing" /\ took[p].handle = r
    BY <1>3 DEF Effects, LinkEffect
  <2>2. /\ took[p].runCtx # Nil => CtxDone(took[p].runCtx)
        /\ EarlyOrServing /\ r = run => took[p].runCtx = run
        /\ \A k \in consumers : k.conn = r => Covered(p, k.ctx)
        /\ \A c \in Calls : seen[c][1] = r /\ seen[c][2] # Nil => Covered(p, seen[c][2])
    BY <2>1 DEF DeathInv, StopCancels, CtxDone
  <2>3. \A x : x # Nil /\ Covered(p, x) => CtxDone(x)
    BY <2>2 DEF Covered
  <2>4. \A k \in consumers : k.ctx # Nil
    BY DEF DeathInv, TypeOK, AmqpOK, Consumer
  <2>5. ASSUME NEW k \in consumers', k.conn = r PROVE CtxDone(k.ctx)
    <3>1. CASE \E j \in consumers : j.conn = k.conn /\ j.ctx = k.ctx
      BY <2>2, <2>3, <2>4, <2>5, <3>1
    <3>2. CASE start = "binding" /\ k.conn = run /\ k.ctx = run
      BY <2>2, <2>5, <3>2 DEF EarlyOrServing
    <3>3. CASE \E c \in Subs : seen[c][1] = k.conn /\ seen[c][2] = k.ctx /\ seen[c][2] # Nil
      BY <2>2, <2>3, <2>5, <3>3
    <3> QED
      BY <3>1, <3>2, <3>3 DEF Effects, ConsumerEffect
  <2> QED
    BY <1>1, <1>3, <2>5 DEF Effects, LinkEffect
<1> QED
  BY <1>2, <1>3

LEMMA MarksStep == ASSUME DeathInv, Effects PROVE MarksOfBroker'
<1> SUFFICES ASSUME NEW k \in consumers', k.at = "marking", ~k.cut
    PROVE  chan'[k.conn] = "closed" /\ closer'[k.conn] # "stop"
  BY DEF MarksOfBroker
<1>1. CASE \E j \in consumers : j.at = "marking" /\ j.cut = k.cut /\ j.conn = k.conn
  <2>1. PICK j \in consumers : j.at = "marking" /\ j.cut = k.cut /\ j.conn = k.conn
    BY <1>1
  <2>2. k.conn \in Runs
    BY <2>1 DEF DeathInv, TypeOK, AmqpOK, Consumer
  <2>3. chan[k.conn] = "closed" /\ closer[k.conn] # "stop"
    BY <2>1 DEF DeathInv, MarksOfBroker
  <2> QED
    BY <2>1, <2>2, <2>3 DEF Effects, LinkEffect, DeathInv, Unopened
<1>2. CASE /\ \E j \in consumers : j.conn = k.conn /\ ~CtxDone(j.ctx)
           /\ chan[k.conn] = "closed" /\ UNCHANGED <<chan, closer>>
  <2>1. PICK j \in consumers : j.conn = k.conn /\ ~CtxDone(j.ctx)
    BY <1>2
  <2>2. k.conn \in Runs
    BY <2>1 DEF DeathInv, TypeOK, AmqpOK, Consumer
  <2> QED
    BY <1>2, <2>1, <2>2 DEF DeathInv, StopClosed
<1> QED
  BY <1>1, <1>2 DEF Effects, MarkEffect

LEMMA NextDeathInv == DeathInv /\ [Next]_vars => DeathInv'
<1> SUFFICES ASSUME DeathInv, [Next]_vars PROVE DeathInv'
  OBVIOUS
<1>1. TypeOK' /\ Effects
  BY NextTypeOK, NextEffects DEF DeathInv
<1> QED
  BY <1>1, RunContextStep, NumberedStep, StopCancelsStep, StopClosedStep, MarksStep DEF DeathInv

LEMMA InitDeathInv == Init => DeathInv
<1> SUFFICES ASSUME Init PROVE DeathInv
  OBVIOUS
<1>1. RunContext /\ Numbered /\ Unopened
  BY DEF Init, RunContext, EarlyOrServing, Numbered, Unopened
<1>2. StopCancels /\ StopClosed /\ MarksOfBroker
  BY DEF Init, StopCancels, StopClosed, MarksOfBroker
<1> QED
  BY <1>1, <1>2, InitTypeOK DEF DeathInv

\* What Stop takes, it has cancelled before it closes it, and every context but the
\* current one is done: the strengthening all theorems of this module rest on.
THEOREM DeathInvariant == Spec => []DeathInv
BY InitDeathInv, NextDeathInv, PTL DEF Spec

\* A consumer never reports itself dead because a Stop closed its channel, however
\* Stop, restarts and Subscribe interleave.
THEOREM ShutdownIsSilent == Spec => []StopNeverMarksDead
<1>1. DeathInv => StopNeverMarksDead
  BY DEF DeathInv, MarksOfBroker, StopNeverMarksDead
<1> QED
  BY <1>1, DeathInvariant, PTL

-----------------------------------------------------------------------------
(* A consumer bound by Start that died is reported.                        *)

SettingUp == {"dialing", "opening", "copyingExchanges", "declaring", "copyingSubs", "resetting"}

\* Start resets deadConsumers before it binds, so no death of this run's is forgotten.
Reported ==
    /\ start \in SettingUp => \A k \in consumers : k.by = "start" => k.ctx # run
    /\ start \in {"binding", "serving"} =>
           \A k \in consumers : k.by = "start" /\ k.ctx = run /\ k.at = "dead" => dead[k.sub] # Nil

\* Where one step may take Start.
OrderEffect ==
    /\ start' \in SettingUp => (start \in SettingUp /\ run' = run) \/ run' = run + 1
    /\ start' \in {"binding", "serving"} =>
           start \in {"resetting", "binding", "serving"} /\ run' = run

DeadEffect == \A s \in Subs : dead[s] # Nil => dead'[s] # Nil \/ start = "resetting"

BoundEffect ==
    \A k \in consumers' : k.by = "start" =>
        \/ start = "binding" /\ k.ctx = run /\ k.at = "running"
        \/ \E j \in consumers :
               /\ j.by = "start" /\ j.ctx = k.ctx
               /\ k.at = "dead" => dead'[k.sub] # Nil \/ (j.at = "dead" /\ j.sub = k.sub)

ReportEffect == OrderEffect /\ DeadEffect /\ BoundEffect

LEMMA NoReportEffect ==
    /\ UNCHANGED <<start, run>> => OrderEffect
    /\ UNCHANGED dead => DeadEffect
    /\ UNCHANGED consumers => BoundEffect
<1>1. UNCHANGED <<start, run>> => OrderEffect
  BY DEF OrderEffect, SettingUp
<1>2. UNCHANGED consumers => BoundEffect
  BY DEF BoundEffect
<1> QED
  BY <1>1, <1>2 DEF DeadEffect

LEMMA StartOrder == ASSUME TypeOK, StartStep PROVE OrderEffect
<1> USE DEF OrderEffect, SettingUp, Return
<1>1. CASE StartCancelledInDial \/ StartDialTimesOut \/ StartDialDone
  BY <1>1 DEF StartCancelledInDial, StartDialTimesOut, TimeOutReturns, StartDialDone
<1>2. CASE StartInstalls \/ StartOpenFails \/ StartCopiesExchanges
  BY <1>2 DEF StartInstalls, StartOpenFails, StartCopiesExchanges
<1>3. CASE StartDeclares \/ StartDeclareFails \/ StartCopiesSubs
  BY <1>3 DEF StartDeclares, StartDeclareFails, StartCopiesSubs
<1>4. CASE StartResetsDead \/ StartBinds \/ StartBindFails
  BY <1>4 DEF StartResetsDead, StartBinds, BindsThenReady, StartBindFails
<1>5. CASE StartClosesFailedRun \/ StartWakes \/ StartEnds
  BY <1>5 DEF StartClosesFailedRun, StartWakes, StartEnds
<1> QED
  BY <1>1, <1>2, <1>3, <1>4, <1>5 DEF StartStep

LEMMA StartReports == ASSUME TypeOK, StartStep PROVE ReportEffect
<1>1. DeadEffect
  BY DEF DeadEffect, StartStep, StartCancelledInDial, StartDialTimesOut, TimeOutReturns,
         StartDialDone, StartInstalls, StartOpenFails, StartCopiesExchanges, StartDeclares,
         StartDeclareFails, StartCopiesSubs, StartResetsDead, StartBinds, BindsThenReady,
         StartBindFails, StartClosesFailedRun, StartWakes, StartEnds, fieldVars
<1>2. CASE UNCHANGED consumers
  BY <1>1, <1>2, StartOrder, NoReportEffect DEF ReportEffect
<1>3. CASE StartBinds /\ Consume(Head(todo), "start", run, run)
  <2>1. /\ start = "binding"
        /\ consumers' = consumers \cup {NewConsumer(Head(todo), "start", run, run)}
    BY <1>3 DEF StartBinds, BindsThenReady, Consume
  <2>2. BoundEffect
    BY <2>1 DEF BoundEffect, NewConsumer
  <2> QED
    BY <1>1, <2>2, StartOrder DEF ReportEffect
<1> QED
  BY <1>2, <1>3
  DEF StartStep, StartCancelledInDial, StartDialTimesOut, TimeOutReturns, StartDialDone,
      StartInstalls, StartOpenFails, StartCopiesExchanges, StartDeclares, StartDeclareFails,
      StartCopiesSubs, StartResetsDead, StartBinds, BindsThenReady, StartBindFails,
      StartClosesFailedRun, StartWakes, StartEnds, amqpVars

LEMMA CallReports ==
    ASSUME TypeOK, NEW c \in Calls, Register(c) \/ CallStep(c)
    PROVE  ReportEffect
<1>1. UNCHANGED <<start, run, dead>>
  BY DEF Register, CallStep, ReadsHandle, DefersToStart, DefersIf, AppliesLive, RejectedLive,
         fieldVars, startVars
<1>2. CASE UNCHANGED consumers
  BY <1>1, <1>2, NoReportEffect DEF ReportEffect
<1>3. CASE Consume(c, "live", seen[c][1], seen[c][2])
  <2>1. consumers' = consumers \cup {NewConsumer(c, "live", seen[c][1], seen[c][2])}
    BY <1>3 DEF Consume
  <2>2. BoundEffect
    BY <2>1 DEF BoundEffect, NewConsumer
  <2> QED
    BY <1>1, <2>2, NoReportEffect DEF ReportEffect
<1> QED
  BY <1>2, <1>3 DEF Register, CallStep, ReadsHandle, DefersToStart, DefersIf, AppliesLive,
     RejectedLive, amqpVars

LEMMA ConsumerReports ==
    ASSUME TypeOK, NEW k \in consumers, ConsumerStep(k) \/ BrokerCancelsConsumer(k)
    PROVE  ReportEffect
<1>1. UNCHANGED <<start, run>>
  BY DEF ConsumerStep, ConsumerStops, ConsumerStopsWhen, ConsumerSeesClose, ConsumerMarksDead,
         BrokerCancelsConsumer, startVars
<1>2. k \in Consumer /\ dead \in [Subs -> 0..MaxRuns]
  BY DEF TypeOK, AmqpOK, FieldsOK
<1>3. CASE ConsumerMarksDead(k)
  <2>1. dead' = [dead EXCEPT ![k.sub] = k.conn] /\ Moves(k, "dead")
    BY <1>3 DEF ConsumerMarksDead
  <2>2. k.sub \in Subs /\ k.conn # Nil
    BY <1>2 DEF Consumer
  <2>3. DeadEffect /\ dead'[k.sub] # Nil
    BY <1>2, <2>1, <2>2 DEF DeadEffect
  <2>4. \A j \in consumers' : j \in consumers \/ (j.sub = k.sub /\ j.by = k.by /\ j.ctx = k.ctx)
    BY <1>2, <2>1 DEF Moves, Consumer
  <2>5. BoundEffect
    BY <2>3, <2>4 DEF BoundEffect
  <2> QED
    BY <1>1, <2>3, <2>5, NoReportEffect DEF ReportEffect
<1>4. CASE ConsumerStops(k) \/ ConsumerSeesClose(k) \/ BrokerCancelsConsumer(k)
  <2>1. \A j \in consumers' : j \in consumers \/ (j.at # "dead" /\ j.by = k.by /\ j.ctx = k.ctx)
    BY <1>2, <1>4 DEF ConsumerStops, ConsumerStopsWhen, ConsumerSeesClose, Moves,
       BrokerCancelsConsumer, Consumer
  <2>2. BoundEffect
    BY <2>1 DEF BoundEffect
  <2>3. UNCHANGED dead
    BY <1>4 DEF ConsumerStops, ConsumerStopsWhen, ConsumerSeesClose, BrokerCancelsConsumer, fieldVars
  <2> QED
    BY <1>1, <2>2, <2>3, NoReportEffect DEF ReportEffect
<1> QED
  BY <1>3, <1>4 DEF ConsumerStep

LEMMA NextReports == ASSUME TypeOK, [Next]_vars PROVE ReportEffect
<1>1. CASE StartBegins
  <2>1. OrderEffect
    BY <1>1 DEF StartBegins, OrderEffect, SettingUp
  <2> QED
    BY <1>1, <2>1, NoReportEffect DEF StartBegins, ReportEffect, amqpVars
<1>2. CASE UNCHANGED <<start, run, dead, consumers>>
  BY <1>2, NoReportEffect DEF ReportEffect
<1>3. CASE SupervisorCancels
  BY <1>2, <1>3 DEF SupervisorCancels, fieldVars, startVars, amqpVars
<1>4. ASSUME NEW r \in Runs, DialReturns(r) \/ DrainDial(r) \/ BrokerDrops(r)
      PROVE  ReportEffect
  BY <1>2, <1>4 DEF DialReturns, DrainDial, BrokerDrops, fieldVars, startVars
<1>5. ASSUME NEW p \in Stoppers, StopTakes(p) \/ StopStep(p)
      PROVE  ReportEffect
  BY <1>2, <1>5 DEF StopTakes, StopLeaves, StopStep, StopCancelsRun, StopSelects,
     StopSignalsUnless, StopSignals, StopCloses, fieldVars, startVars, amqpVars
<1>6. CASE UNCHANGED vars
  BY <1>2, <1>6 DEF vars, fieldVars, startVars, amqpVars
<1> QED
  BY <1>1, <1>3, <1>4, <1>5, <1>6, StartReports, CallReports, ConsumerReports DEF Next

LEMMA ReportedStep == ASSUME DeathInv, DeathInv', Reported, ReportEffect PROVE Reported'
<1>1. run \in Nat /\ \A k \in consumers : k.ctx \in Nat /\ k.ctx <= run
  BY DEF DeathInv, TypeOK, StartOK, AmqpOK, Consumer, Numbered
<1>2. \A k \in consumers' : k.sub \in Subs
  BY DEF DeathInv, TypeOK, AmqpOK, Consumer
<1>3. ASSUME start' \in SettingUp, NEW k \in consumers', k.by = "start" PROVE k.ctx # run'
  BY <1>1, <1>3 DEF ReportEffect, OrderEffect, BoundEffect, Reported, SettingUp
<1>4. ASSUME start' \in {"binding", "serving"},
             NEW k \in consumers', k.by = "start", k.ctx = run', k.at = "dead"
      PROVE  dead'[k.sub] # Nil
  <2>1. start \in {"resetting", "binding", "serving"} /\ run' = run
    BY <1>4 DEF ReportEffect, OrderEffect
  <2>2. PICK j \in consumers : /\ j.by = "start" /\ j.ctx = run
                               /\ dead'[k.sub] # Nil \/ (j.at = "dead" /\ j.sub = k.sub)
    BY <1>4, <2>1 DEF ReportEffect, BoundEffect
  <2> QED
    BY <1>2, <2>1, <2>2 DEF Reported, SettingUp, ReportEffect, DeadEffect
<1> QED
  BY <1>3, <1>4 DEF Reported

\* A consumer that Start bound and that ended while its run goes on keeps Health from
\* calling that run healthy, whatever is registered, stopped or restarted besides.
THEOREM DeathsAreReported == Spec => []StartBoundDeathVisible
<1>1. Init => Reported
  BY DEF Init, Reported, SettingUp
<1>2. DeathInv /\ DeathInv' /\ Reported /\ [Next]_vars => Reported'
  BY NextReports, ReportedStep DEF DeathInv
<1>3. DeathInv /\ Reported => StartBoundDeathVisible
  BY DEF DeathInv, TypeOK, AmqpOK, Consumer, Reported, StartBoundDeathVisible, Healthy
<1> QED
  BY <1>1, <1>2, <1>3, DeathInvariant, PTL DEF Spec

-----------------------------------------------------------------------------
(* What is registered is applied to the run that serves.                   *)

Elems(q) == {q[i] : i \in 1..Len(q)}

Listed(c) == c \in Elems(exchanges) \/ c \in Elems(subs)

\* Call c is applied to the current run.
Applied(c) ==
    \/ c \in Exchs /\ c \in declared[run]
    \/ \E k \in consumers : k.sub = c /\ k.conn = run /\ k.ctx = run

\* Start has still to copy the slice c is in, or to come to c in its copy.
Awaited(c) ==
    \/ start = "copyingExchanges"
    \/ c \in Subs /\ start \in {"declaring", "copyingSubs"}
    \/ start \in {"declaring", "resetting", "binding"} /\ c \in Elems(todo)

Settled(c) == Applied(c) \/ Awaited(c)

\* The run has installed its channel, and nothing has ended it.
Restoring == {"copyingExchanges", "declaring", "copyingSubs", "resetting", "binding", "serving"}
Up == start \in Restoring /\ handle = run /\ chan[run] = "open" /\ ~CtxDone(run)

\* A call that is over is settled, and one in progress is, or found this very run
\* when it looked: then it applies itself, or fails.
Restored ==
    /\ \A c \in Calls : call[c] # "idle" => Listed(c)
    /\ Up => \A c \in Calls :
           /\ call[c] = "returned" => Settled(c)
           /\ call[c] = "applying" => Settled(c) \/ seen[c] = <<run, run>>

\* A run that is up after a step was before, unless the step installed its channel.
Continues == Up' => (Up /\ run' = run) \/ start' = "copyingExchanges"

OpenEffect == \A r \in Runs : chan'[r] = "open" => chan[r] = "open" \/ start' = "copyingExchanges"

ListEffect == \A c \in Calls : Listed(c) => Listed(c)'

KeepsApplied == Up /\ Up' /\ run' = run => \A c \in Calls : Applied(c) => Applied(c)'

KeepsSettled == Up /\ Up' /\ run' = run => \A c \in Calls : Listed(c) /\ Settled(c) => Settled(c)'

CallEffect ==
    \A c \in Calls :
        \/ call'[c] = call[c] /\ seen'[c] = seen[c]
        \/ call[c] = "idle" /\ call'[c] = "registered" /\ Listed(c)'
        \/ call[c] = "registered" /\ call'[c] = "applying" /\ seen'[c] = <<handle, runCtx>>
        \/ call[c] = "applying" /\ call'[c] = "rejected"
        \/ /\ call[c] = "applying" /\ call'[c] = "returned"
           /\ Up /\ Up' /\ run' = run /\ seen[c] = <<run, run>> => Applied(c)'

TopologyEffect == OpenEffect /\ ListEffect /\ CallEffect /\ KeepsApplied /\ KeepsSettled

LEMMA ElemsProperties ==
    ASSUME NEW S, NEW q \in Seq(S)
    PROVE  /\ \A e \in S : Elems(Append(q, e)) = Elems(q) \cup {e}
           /\ Elems(q) \subseteq S
           /\ q # <<>> => Elems(q) \subseteq {Head(q)} \cup Elems(Tail(q))
<1>1. ASSUME NEW e \in S PROVE Elems(Append(q, e)) = Elems(q) \cup {e}
  BY <1>1 DEF Elems
<1>2. ASSUME q # <<>>, NEW i \in 1..Len(q) PROVE q[i] = Head(q) \/ q[i] \in Elems(Tail(q))
  <2>1. CASE i = 1
    BY <1>2, <2>1
  <2>2. CASE i # 1
    <3>1. i - 1 \in 1..Len(Tail(q)) /\ Tail(q)[i - 1] = q[i]
      BY <1>2, <2>2
    <3> QED
      BY <3>1 DEF Elems
  <2> QED
    BY <2>1, <2>2
<1>3. Elems(q) \subseteq S
  BY DEF Elems
<1> QED
  BY <1>1, <1>2, <1>3 DEF Elems

\* What a step leaves alone, it does nothing to.
LEMMA NoTopologyEffect ==
    /\ UNCHANGED chan => OpenEffect
    /\ UNCHANGED <<exchanges, subs>> => ListEffect
    /\ UNCHANGED <<call, seen>> => CallEffect
    /\ UNCHANGED <<declared, consumers>> => KeepsApplied
    /\ UNCHANGED <<start, todo>> /\ KeepsApplied => KeepsSettled
<1>1. UNCHANGED <<exchanges, subs>> => ListEffect
  BY DEF ListEffect, Listed, Elems
<1>2. UNCHANGED <<declared, consumers>> => KeepsApplied
  BY DEF KeepsApplied, Applied
<1>3. UNCHANGED <<start, todo>> => \A c : Awaited(c) => Awaited(c)'
  BY DEF Awaited, Elems
<1>4. UNCHANGED <<start, todo>> /\ KeepsApplied => KeepsSettled
  BY <1>3 DEF KeepsApplied, KeepsSettled, Settled
<1> QED
  BY <1>1, <1>2, <1>4 DEF OpenEffect, CallEffect

\* A step that leaves registrations and Start's loop alone, and what is applied or
\* open at most closes.
LEMMA ClosingTopology ==
    ASSUME TypeOK, UNCHANGED <<exchanges, subs, call, seen, start, todo, declared, consumers>>,
           \/ UNCHANGED chan
           \/ \E r \in Runs, who \in {"broker", "start", "stop"} : CloseBoth(r, who)
    PROVE  TopologyEffect
<1>1. OpenEffect
  BY DEF CloseBoth, OpenEffect, TypeOK, AmqpOK
<1> QED
  BY <1>1, NoTopologyEffect DEF TopologyEffect

\* Start adds to what is applied, and takes nothing away.
LEMMA StartApplies ==
    ASSUME TypeOK, StartStep
    PROVE  consumers \subseteq consumers' /\ \A r \in Runs : declared[r] \subseteq declared'[r]
<1>1. declared \in [Runs -> SUBSET Exchs]
  BY DEF TypeOK, AmqpOK
<1> QED
  BY <1>1
  DEF StartStep, StartCancelledInDial, StartDialTimesOut, TimeOutReturns, StartDialDone,
      StartInstalls, StartOpenFails, StartCopiesExchanges, StartDeclares, StartDeclareFails,
      StartCopiesSubs, StartResetsDead, StartBinds, BindsThenReady, StartBindFails,
      StartClosesFailedRun, StartWakes, StartEnds, amqpVars, Consume

LEMMA StartKeepsSettled == ASSUME TypeOK, StartStep, KeepsApplied PROVE KeepsSettled
<1> SUFFICES ASSUME Up, Up', run' = run, NEW c \in Calls, Listed(c), Awaited(c) PROVE Settled(c)'
  BY DEF KeepsApplied, KeepsSettled, Settled
<1>1. run \in Runs /\ declared \in [Runs -> SUBSET Exchs]
  BY DEF TypeOK, StartOK, AmqpOK, Up, Restoring
<1>2. Elems(subs) \subseteq Subs /\ Elems(exchanges) \subseteq Exchs
  BY ElemsProperties DEF TypeOK, FieldsOK
<1>3. CASE StartInstalls \/ StartCopiesExchanges
  BY <1>2, <1>3 DEF StartInstalls, StartCopiesExchanges, Listed, Settled, Awaited, Elems
<1>4. CASE StartCopiesSubs \/ StartResetsDead
  BY <1>2, <1>4 DEF StartCopiesSubs, StartResetsDead, Listed, Settled, Awaited, Elems
<1>5. CASE StartDeclares
  <2>1. start = "declaring" /\ todo \in Seq(Exchs)
    BY <1>5 DEF StartDeclares, TypeOK, StartOK
  <2>2. c \in Subs \/ c \in Elems(todo)
    BY <2>1 DEF Awaited
  <2>3. CASE todo = <<>>
    BY <1>5, <2>1, <2>2, <2>3 DEF StartDeclares, Settled, Awaited, Elems
  <2>4. CASE todo # <<>>
    <3>1. /\ declared' = [declared EXCEPT ![run] = @ \cup {Head(todo)}]
          /\ todo' = Tail(todo) /\ start' = start
      BY <1>5, <2>4 DEF StartDeclares
    <3>2. Elems(todo) \subseteq {Head(todo)} \cup Elems(Tail(todo)) /\ Elems(todo) \subseteq Exchs
      BY <2>1, <2>4, ElemsProperties
    <3>3. c \in Subs \/ c \in Elems(todo') \/ (c \in Exchs /\ c \in declared'[run])
      BY <1>1, <2>2, <3>1, <3>2
    <3> QED
      BY <2>1, <3>1, <3>3 DEF Settled, Awaited, Applied
  <2> QED
    BY <2>3, <2>4
<1>6. CASE StartBinds
  <2>1. start = "binding" /\ todo \in Seq(Subs) /\ c \in Elems(todo)
    BY <1>6 DEF StartBinds, BindsThenReady, TypeOK, StartOK, Awaited
  <2>2. todo # <<>>
    BY <2>1 DEF Elems
  <2>3. /\ consumers' = consumers \cup {NewConsumer(Head(todo), "start", run, run)}
        /\ todo' = Tail(todo) /\ start' = start
    BY <1>6, <2>2 DEF StartBinds, BindsThenReady, Consume
  <2>4. c = Head(todo) \/ c \in Elems(todo')
    BY <2>1, <2>2, <2>3, ElemsProperties
  <2>5. CASE c = Head(todo)
    <3>1. NewConsumer(c, "start", run, run) \in consumers'
      BY <2>3, <2>5
    <3> QED
      BY <3>1 DEF Settled, Applied, NewConsumer
  <2> QED
    BY <2>1, <2>3, <2>4, <2>5 DEF Settled, Awaited
<1> QED
  BY <1>3, <1>4, <1>5, <1>6
  DEF StartStep, StartCancelledInDial, StartDialTimesOut, TimeOutReturns, StartDialDone,
      StartOpenFails, StartDeclareFails, StartBindFails, StartClosesFailedRun, StartWakes,
      StartEnds, Return, Up, Restoring

LEMMA StartTopology == ASSUME TypeOK, StartStep PROVE TopologyEffect
<1>1. UNCHANGED <<exchanges, subs, call, seen>>
  BY DEF StartStep, StartCancelledInDial, StartDialTimesOut, TimeOutReturns, StartDialDone,
         StartInstalls, StartOpenFails, StartCopiesExchanges, StartDeclares, StartDeclareFails,
         StartCopiesSubs, StartResetsDead, StartBinds, BindsThenReady, StartBindFails,
         StartClosesFailedRun, StartWakes, StartEnds, fieldVars, callVars
<1>2. KeepsApplied
  <2>1. consumers \subseteq consumers' /\ \A r \in Runs : declared[r] \subseteq declared'[r]
    BY StartApplies
  <2>2. Up => run \in Runs
    BY DEF Up, Restoring, TypeOK, StartOK
  <2> QED
    BY <2>1, <2>2 DEF KeepsApplied, Applied
<1>3. OpenEffect
  <2>1. CASE UNCHANGED chan
    BY <2>1, NoTopologyEffect
  <2>2. CASE StartInstalls
    BY <2>2 DEF StartInstalls, OpenEffect
  <2>3. CASE StartDeclareFails \/ StartClosesFailedRun
    BY <2>3 DEF StartDeclareFails, StartClosesFailedRun, CloseBoth, OpenEffect, TypeOK, AmqpOK
  <2> QED
    BY <2>1, <2>2, <2>3
    DEF StartStep, StartCancelledInDial, StartDialTimesOut, TimeOutReturns, StartDialDone,
        StartOpenFails, StartCopiesExchanges, StartDeclares, StartCopiesSubs, StartResetsDead,
        StartBinds, BindsThenReady, StartBindFails, StartWakes, StartEnds, amqpVars, Consume
<1> QED
  BY <1>1, <1>2, <1>3, StartKeepsSettled, NoTopologyEffect DEF TopologyEffect

LEMMA CallTopology ==
    ASSUME TypeOK, NEW c \in Calls, Register(c) \/ CallStep(c)
    PROVE  TopologyEffect
<1>1. UNCHANGED <<start, run, todo, handle, runCtx>>
  BY DEF Register, CallStep, ReadsHandle, DefersToStart, DefersIf, AppliesLive, RejectedLive,
         fieldVars, startVars
<1>2. /\ call \in [Calls -> {"idle", "registered", "applying", "returned", "rejected"}]
      /\ seen \in [Calls -> (0..MaxRuns) \X (0..MaxRuns)]
      /\ declared \in [Runs -> SUBSET Exchs] /\ exchanges \in Seq(Exchs) /\ subs \in Seq(Subs)
  BY DEF TypeOK, CallOK, AmqpOK, FieldsOK
<1>3. CASE Register(c)
  <2>1. call[c] = "idle" /\ call' = [call EXCEPT ![c] = "registered"]
        /\ UNCHANGED <<seen, chan, declared, consumers>>
    BY <1>3 DEF Register, CallAt, amqpVars
  <2>2. \/ c \in Subs /\ Elems(subs') = Elems(subs) \cup {c} /\ Elems(exchanges') = Elems(exchanges)
        \/ c \in Exchs /\ Elems(exchanges') = Elems(exchanges) \cup {c} /\ Elems(subs') = Elems(subs)
    <3>1. CASE c \in Subs /\ subs' = Append(subs, c) /\ UNCHANGED exchanges
      <4>1. Elems(Append(subs, c)) = Elems(subs) \cup {c}
        BY <1>2, <3>1, ElemsProperties
      <4> QED
        BY <3>1, <4>1 DEF Elems
    <3>2. CASE c \in Exchs /\ exchanges' = Append(exchanges, c) /\ UNCHANGED subs
      <4>1. Elems(Append(exchanges, c)) = Elems(exchanges) \cup {c}
        BY <1>2, <3>2, ElemsProperties
      <4> QED
        BY <3>2, <4>1 DEF Elems
    <3> QED
      BY <1>3, <3>1, <3>2 DEF Register
  <2>3. ListEffect /\ Listed(c)'
    BY <2>2 DEF ListEffect, Listed
  <2>4. CallEffect
    BY <1>2, <2>1, <2>3 DEF CallEffect
  <2> QED
    BY <1>1, <2>1, <2>3, <2>4, NoTopologyEffect DEF TopologyEffect
<1>4. CASE ReadsHandle(c)
  <2>1. /\ call[c] = "registered" /\ call' = [call EXCEPT ![c] = "applying"]
        /\ seen' = [seen EXCEPT ![c] = <<handle, runCtx>>]
        /\ UNCHANGED <<exchanges, subs, chan, declared, consumers>>
    BY <1>4 DEF ReadsHandle, CallAt, amqpVars, fieldVars
  <2>2. CallEffect
    BY <1>2, <2>1 DEF CallEffect
  <2> QED
    BY <1>1, <2>1, <2>2, NoTopologyEffect DEF TopologyEffect
<1>5. CASE DefersToStart(c)
  <2>1. /\ call[c] = "applying" /\ call' = [call EXCEPT ![c] = "returned"] /\ NothingLive(c)
        /\ seen' = [seen EXCEPT ![c] = <<Nil, Nil>>]
        /\ UNCHANGED <<exchanges, subs, chan, declared, consumers>>
    BY <1>5 DEF DefersToStart, DefersIf, CallEnds, CallAt, amqpVars, fieldVars
  <2>2. Up /\ seen[c] = <<run, run>> => FALSE
    BY <2>1 DEF NothingLive, Up, Restoring, TypeOK, StartOK
  <2>3. CallEffect
    BY <1>2, <2>1, <2>2 DEF CallEffect
  <2> QED
    BY <1>1, <2>1, <2>3, NoTopologyEffect DEF TopologyEffect
<1>6. CASE AppliesLive(c)
  <2>1. /\ call[c] = "applying" /\ call' = [call EXCEPT ![c] = "returned"]
        /\ seen' = [seen EXCEPT ![c] = <<Nil, Nil>>] /\ seen[c][1] \in Runs
        /\ UNCHANGED <<exchanges, subs, chan>>
    BY <1>2, <1>6 DEF AppliesLive, CallEnds, CallAt, Consume, fieldVars
  <2>2. \/ /\ consumers' = consumers \cup {NewConsumer(c, "live", seen[c][1], seen[c][2])}
           /\ UNCHANGED declared
        \/ /\ c \in Exchs /\ declared' = [declared EXCEPT ![seen[c][1]] = @ \cup {c}]
           /\ UNCHANGED consumers
    BY <1>6 DEF AppliesLive, Consume
  <2>3. consumers \subseteq consumers' /\ \A r \in Runs : declared[r] \subseteq declared'[r]
    <3>1. CASE UNCHANGED declared
      BY <2>2, <3>1
    <3>2. CASE declared' = [declared EXCEPT ![seen[c][1]] = @ \cup {c}]
      <4>1. \A r \in Runs : declared[r] \subseteq declared'[r]
        BY <1>2, <2>1, <3>2
      <4>2. consumers \subseteq consumers'
        BY <2>2
      <4> QED
        BY <4>1, <4>2
    <3> QED
      BY <2>2, <3>1, <3>2
  <2>4. Up => run \in Runs
    BY DEF Up, Restoring, TypeOK, StartOK
  <2>5. KeepsApplied
    BY <1>1, <2>3, <2>4 DEF KeepsApplied, Applied
  <2>6. seen[c] = <<run, run>> => Applied(c)'
    <3>1. CASE consumers' = consumers \cup {NewConsumer(c, "live", seen[c][1], seen[c][2])}
      <4>1. NewConsumer(c, "live", seen[c][1], seen[c][2]) \in consumers'
        BY <3>1
      <4> QED
        BY <1>1, <4>1 DEF Applied, NewConsumer
    <3>2. CASE c \in Exchs /\ declared' = [declared EXCEPT ![seen[c][1]] = @ \cup {c}]
      BY <1>1, <1>2, <2>1, <3>2 DEF Applied
    <3> QED
      BY <2>2, <3>1, <3>2
  <2>7. CallEffect
    BY <1>2, <2>1, <2>6 DEF CallEffect
  <2> QED
    BY <1>1, <2>1, <2>5, <2>7, NoTopologyEffect DEF TopologyEffect
<1>7. CASE RejectedLive(c)
  <2>1. /\ call[c] = "applying" /\ call' = [call EXCEPT ![c] = "rejected"]
        /\ seen' = [seen EXCEPT ![c] = <<Nil, Nil>>] /\ seen[c][1] \in Runs
        /\ chan' = [chan EXCEPT ![seen[c][1]] = "closed"]
        /\ UNCHANGED <<exchanges, subs, declared, consumers>>
    BY <1>2, <1>7 DEF RejectedLive, CallEnds, CallAt, CloseChannel, fieldVars
  <2>2. OpenEffect
    BY <2>1 DEF OpenEffect, TypeOK, AmqpOK
  <2>3. CallEffect
    BY <1>2, <2>1 DEF CallEffect
  <2> QED
    BY <1>1, <2>1, <2>2, <2>3, NoTopologyEffect DEF TopologyEffect
<1> QED
  BY <1>3, <1>4, <1>5, <1>6, <1>7 DEF CallStep

\* While its run goes on, a consumer may die but stays known.
LEMMA ConsumerTopology ==
    ASSUME TypeOK, NEW k \in consumers, ConsumerStep(k) \/ BrokerCancelsConsumer(k)
    PROVE  TopologyEffect
<1>1. UNCHANGED <<exchanges, subs, start, run, todo, chan, declared, call, seen>>
  BY DEF ConsumerStep, ConsumerStops, ConsumerStopsWhen, ConsumerSeesClose, ConsumerMarksDead,
         BrokerCancelsConsumer, fieldVars, startVars, callVars
<1>2. k \in Consumer
  BY DEF TypeOK, AmqpOK
<1>3. ASSUME ~CtxDone(k.ctx), NEW j \in consumers
      PROVE  \E i \in consumers' : i.sub = j.sub /\ i.conn = j.conn /\ i.ctx = j.ctx
  <2>1. CASE \E at \in {"marking", "dead"} : Moves(k, at)
    <3>1. PICK at \in {"marking", "dead"} : Moves(k, at)
      BY <2>1
    <3>2. [k EXCEPT !.at = at] \in consumers' /\ consumers \ {k} \subseteq consumers'
      BY <3>1 DEF Moves
    <3> QED
      BY <1>2, <3>2 DEF Consumer
  <2>2. CASE consumers' = (consumers \ {k}) \cup {[k EXCEPT !.cut = TRUE]}
    <3>1. [k EXCEPT !.cut = TRUE] \in consumers' /\ consumers \ {k} \subseteq consumers'
      BY <2>2
    <3> QED
      BY <1>2, <3>1 DEF Consumer
  <2> QED
    BY <1>3, <2>1, <2>2 DEF ConsumerStep, ConsumerStops, ConsumerStopsWhen, ConsumerSeesClose,
       ConsumerMarksDead, BrokerCancelsConsumer
<1>4. \A j \in consumers : j.ctx # k.ctx => j \in consumers'
  BY DEF ConsumerStep, ConsumerStops, ConsumerStopsWhen, ConsumerSeesClose, ConsumerMarksDead,
     BrokerCancelsConsumer, Moves
<1>5. KeepsApplied
  <2> SUFFICES ASSUME Up, run' = run, NEW c \in Calls,
                      NEW j \in consumers, j.sub = c, j.conn = run, j.ctx = run
      PROVE  \E i \in consumers' : i.sub = c /\ i.conn = run /\ i.ctx = run
    BY <1>1 DEF KeepsApplied, Applied
  <2> QED
    BY <1>3, <1>4 DEF Up
<1> QED
  BY <1>1, <1>5, NoTopologyEffect DEF TopologyEffect

LEMMA NextTopology == ASSUME TypeOK, [Next]_vars PROVE TopologyEffect
<1>1. CASE StartBegins
  <2>1. KeepsApplied /\ KeepsSettled
    BY <1>1 DEF StartBegins, KeepsApplied, KeepsSettled, Up, Restoring
  <2> QED
    BY <1>1, <2>1, NoTopologyEffect DEF StartBegins, TopologyEffect, amqpVars, callVars
<1>2. CASE SupervisorCancels
  BY <1>2, ClosingTopology DEF SupervisorCancels, fieldVars, startVars, amqpVars, callVars
<1>3. ASSUME NEW r \in Runs, DialReturns(r) \/ DrainDial(r) \/ BrokerDrops(r)
      PROVE  TopologyEffect
  BY <1>3, ClosingTopology DEF DialReturns, DrainDial, BrokerDrops, fieldVars, startVars, callVars
<1>4. ASSUME NEW p \in Stoppers, StopTakes(p) \/ StopStep(p)
      PROVE  TopologyEffect
  <2>1. UNCHANGED <<exchanges, subs, call, seen, start, todo, declared, consumers>>
    BY <1>4 DEF StopTakes, StopLeaves, StopStep, StopCancelsRun, StopSelects,
       StopSignalsUnless, StopSignals, StopCloses, fieldVars, startVars, amqpVars, callVars
  <2>2. UNCHANGED chan \/ (took[p].handle # Nil /\ CloseBoth(took[p].handle, "stop"))
    BY <1>4 DEF StopTakes, StopLeaves, StopStep, StopCancelsRun, StopSelects,
       StopSignalsUnless, StopSignals, StopCloses, amqpVars
  <2>3. took[p].handle \in 0..MaxRuns
    BY DEF TypeOK, StopOK, Taken
  <2> QED
    BY <2>1, <2>2, <2>3, ClosingTopology
<1>5. CASE UNCHANGED vars
  BY <1>5, ClosingTopology DEF vars, fieldVars, startVars, amqpVars, callVars
<1> QED
  BY <1>1, <1>2, <1>3, <1>4, <1>5, StartTopology, CallTopology, ConsumerTopology DEF Next

LEMMA UpContinues ==
    ASSUME DeathInv, DeathInv', Effects, OrderEffect, OpenEffect
    PROVE  Continues
<1> SUFFICES ASSUME Up', start' # "copyingExchanges" PROVE Up /\ run' = run
  BY DEF Continues
<1>1. run \in 0..MaxRuns /\ run' \in Runs
  BY DEF DeathInv, TypeOK, StartOK, Up, Restoring
<1>2. run' = run /\ start \in Restoring \cup {"dialing", "opening"}
  BY <1>1 DEF Up, Restoring, OrderEffect, SettingUp, Effects, RunEffect
<1>3. handle = run
  BY <1>1, <1>2 DEF Up, Effects, HandleEffect
<1>4. start \in Restoring
  BY <1>2, <1>3 DEF DeathInv, Unopened
<1>5. chan[run] = "open"
  BY <1>1, <1>2 DEF Up, OpenEffect
<1>6. ~CtxDone(run)
  BY <1>2, DoneStaysDone DEF Up, Effects
<1> QED
  BY <1>2, <1>3, <1>4, <1>5, <1>6 DEF Up

LEMMA RestoredStep ==
    ASSUME DeathInv, DeathInv', Restored, Effects, Continues, TopologyEffect
    PROVE  Restored'
<1> USE DEF TopologyEffect
<1>1. ASSUME NEW c \in Calls, call'[c] # "idle" PROVE Listed(c)'
  BY <1>1 DEF Restored, ListEffect, CallEffect
<1>2. ASSUME Up', NEW c \in Calls, call'[c] = "returned"
      PROVE  Settled(c)'
  <2>1. CASE start' = "copyingExchanges"
    BY <2>1 DEF Settled, Awaited
  <2>2. CASE Up /\ run' = run
    <3>1. CASE call[c] = "returned"
      BY <1>2, <2>2, <3>1 DEF Restored, KeepsSettled
    <3>2. CASE call[c] = "applying" /\ Settled(c)
      BY <1>2, <2>2, <3>2 DEF Restored, KeepsSettled
    <3>3. CASE call[c] = "applying" /\ seen[c] = <<run, run>>
      BY <1>2, <2>2, <3>3 DEF CallEffect, Settled
    <3> QED
      BY <1>2, <2>2, <3>1, <3>2, <3>3 DEF Restored, CallEffect
  <2> QED
    BY <1>2, <2>1, <2>2 DEF Continues
<1>3. ASSUME Up', NEW c \in Calls, call'[c] = "applying"
      PROVE  Settled(c)' \/ seen'[c] = <<run', run'>>
  <2>1. CASE start' = "copyingExchanges"
    BY <2>1 DEF Settled, Awaited
  <2>2. CASE Up /\ run' = run
    <3>1. CASE call[c] = "applying" /\ seen'[c] = seen[c]
      BY <1>3, <2>2, <3>1 DEF Restored, KeepsSettled
    <3>2. CASE seen'[c] = <<handle, runCtx>>
      BY <2>2, <3>2 DEF DeathInv, RunContext, EarlyOrServing, Up, Restoring
    <3> QED
      BY <1>3, <3>1, <3>2 DEF CallEffect
  <2> QED
    BY <1>3, <2>1, <2>2 DEF Continues
<1> QED
  BY <1>1, <1>2, <1>3 DEF Restored

\* While a run is up, a registering call that is over is applied or awaited by Start,
\* and one in progress is, or has read this run's channel and context.
THEOREM RestoredInvariant == Spec => []Restored
<1>1. Init => Restored
  BY DEF Init, Restored, Up, Restoring
<1>2. ASSUME DeathInv, DeathInv', Restored, [Next]_vars PROVE Restored'
  <2>1. Effects /\ TopologyEffect /\ OrderEffect
    BY <1>2, NextEffects, NextTopology, NextReports DEF DeathInv, ReportEffect
  <2> QED
    BY <1>2, <2>1, UpContinues, RestoredStep DEF TopologyEffect
<1>3. DeathInv /\ DeathInv' /\ Restored /\ [Next]_vars => Restored'
  BY <1>2
<1> QED
  BY <1>1, <1>3, DeathInvariant, PTL DEF Spec

\* While a component serves and its channel is open, every subscription whose call
\* returned consumes on this run's channel under this run's context, and every such
\* exchange is declared over it, whichever way the calls raced Start, Stop and the
\* restarts.
THEOREM RegistrationsAreApplied == Spec => []TopologyRestored
<1>1. Restored => TopologyRestored
  <2> SUFFICES ASSUME Restored, start = "serving", ~CtxDone(run), handle = run, chan[run] = "open",
                      NEW c \in Calls, call[c] = "returned"
      PROVE  Applied(c)
    BY DEF TopologyRestored, Applied
  <2>1. Settled(c)
    BY DEF Restored, Up, Restoring
  <2> QED
    BY <2>1 DEF Settled, Awaited
<1> QED
  BY <1>1, RestoredInvariant, PTL

=============================================================================
