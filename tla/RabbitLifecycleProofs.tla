------------------------ MODULE RabbitLifecycleProofs ------------------------
(***************************************************************************)
(* Theorems about RabbitLifecycle for any sets of subscriptions, exchanges *)
(* and Stop calls and any number of runs.                                  *)
(***************************************************************************)
EXTENDS RabbitLifecycle, TLAPS

USE Assumption DEF Runs, Nil, PreClosed, Calls, Link

-----------------------------------------------------------------------------
(* Type correctness.                                                       *)

LEMMA InitTypeOK == Init => TypeOK
<1> SUFFICES ASSUME Init PROVE TypeOK
  OBVIOUS
<1>1. FieldsOK /\ StartOK /\ DialOK /\ CtxOK
  BY DEF Init, FieldsOK, StartOK, DialOK, CtxOK
<1>2. AmqpOK /\ CallOK /\ StopOK
  BY DEF Init, AmqpOK, CallOK, StopOK, Taken
<1> QED
  BY <1>1, <1>2 DEF TypeOK

\* A group of variables that does not change keeps its types.
LEMMA Frame ==
    /\ FieldsOK /\ UNCHANGED fieldVars => FieldsOK'
    /\ StartOK /\ UNCHANGED startVars => StartOK'
    /\ DialOK /\ UNCHANGED dialVars => DialOK'
    /\ CtxOK /\ UNCHANGED ctxVars => CtxOK'
    /\ AmqpOK /\ UNCHANGED amqpVars => AmqpOK'
    /\ CallOK /\ UNCHANGED callVars => CallOK'
    /\ StopOK /\ UNCHANGED stopVars => StopOK'
<1>1. FieldsOK /\ UNCHANGED fieldVars => FieldsOK'
  BY DEF FieldsOK, fieldVars
<1>2. StartOK /\ UNCHANGED startVars => StartOK'
  BY DEF StartOK, startVars
<1>3. DialOK /\ UNCHANGED dialVars => DialOK'
  BY DEF DialOK, dialVars
<1>4. CtxOK /\ UNCHANGED ctxVars => CtxOK'
  BY DEF CtxOK, ctxVars
<1>5. AmqpOK /\ UNCHANGED amqpVars => AmqpOK'
  BY DEF AmqpOK, amqpVars
<1>6. CallOK /\ UNCHANGED callVars => CallOK'
  BY DEF CallOK, callVars
<1>7. StopOK /\ UNCHANGED stopVars => StopOK'
  BY DEF StopOK, stopVars
<1> QED
  BY <1>1, <1>2, <1>3, <1>4, <1>5, <1>6, <1>7

\* Start returning leaves it well typed.
LEMMA ReturnTypeOK ==
    ASSUME StartOK, NEW res \in {"nil", "error"}, Return(res)
    PROVE  StartOK'
<1>1. result' \in [Runs -> {"none", "nil", "error"}]
  BY DEF StartOK, Return
<1>2. /\ start' = "down" /\ run' = run
      /\ todo' \in Seq(Calls) /\ todo' \in Seq(Exchs) /\ todo' \in Seq(Subs)
  BY DEF Return
<1> QED
  BY <1>1, <1>2 DEF StartOK

\* Closing a connection and its channel leaves them well typed.
LEMMA CloseBothTypeOK ==
    ASSUME AmqpOK, NEW r \in Runs, NEW who \in {"broker", "start", "stop"},
           CloseBoth(r, who), UNCHANGED <<declared, consumers>>
    PROVE  AmqpOK'
BY DEF AmqpOK, CloseBoth

\* A started consumer is a consumer.
LEMMA ConsumeTypeOK ==
    ASSUME AmqpOK, NEW s \in Subs, NEW who \in {"start", "live"}, NEW c \in Runs, NEW x \in Runs,
           Consume(s, who, c, x)
    PROVE  AmqpOK'
<1>1. NewConsumer(s, who, c, x) \in Consumer
  BY DEF NewConsumer, Consumer
<1> QED
  BY <1>1 DEF AmqpOK, Consume

LEMMA StartBeginsTypeOK == ASSUME TypeOK, StartBegins PROVE TypeOK'
<1>1. FieldsOK'
  BY DEF TypeOK, FieldsOK, StartOK, StartBegins
<1>2. StartOK'
  BY DEF TypeOK, StartOK, StartBegins
<1>3. DialOK'
  BY DEF TypeOK, DialOK, StartOK, StartBegins
<1> QED
  BY <1>1, <1>2, <1>3, Frame DEF TypeOK, StartBegins

LEMMA DialTypeOK ==
    ASSUME TypeOK, NEW r \in Runs, DialReturns(r) \/ DrainDial(r)
    PROVE  TypeOK'
<1>1. CASE DialReturns(r)
  <2>1. DialOK'
    BY <1>1 DEF TypeOK, DialOK, DialReturns
  <2>2. AmqpOK'
    BY <1>1 DEF TypeOK, AmqpOK, DialReturns
  <2> QED
    BY <1>1, <2>1, <2>2, Frame DEF TypeOK, DialReturns
<1>2. CASE DrainDial(r)
  <2>1. DialOK'
    BY <1>2 DEF TypeOK, DialOK, DrainDial
  <2>2. AmqpOK'
    BY <1>2 DEF TypeOK, AmqpOK, DrainDial
  <2> QED
    BY <1>2, <2>1, <2>2, Frame DEF TypeOK, DrainDial
<1> QED
  BY <1>1, <1>2

LEMMA StartTypeOK == ASSUME TypeOK, StartStep PROVE TypeOK'
<1> USE DEF TypeOK
<1>1. CASE StartCancelledInDial
  <2>1. StartOK'
    BY <1>1, ReturnTypeOK DEF StartCancelledInDial
  <2>2. DialOK'
    BY <1>1 DEF StartCancelledInDial, DialOK, StartOK
  <2> QED
    BY <1>1, <2>1, <2>2, Frame DEF StartCancelledInDial
<1>2. CASE StartDialTimesOut
  <2>1. StartOK'
    BY <1>2, ReturnTypeOK DEF StartDialTimesOut, TimeOutReturns
  <2> QED
    BY <1>2, <2>1, Frame DEF StartDialTimesOut, TimeOutReturns, dialVars
<1>3. CASE StartDialDone
  <2>1. StartOK'
    <3>1. CASE Return("error")
      BY <3>1, ReturnTypeOK
    <3>2. CASE start' = "opening" /\ UNCHANGED <<run, todo, result>> /\ start = "dialing"
      BY <3>2 DEF StartOK
    <3> QED
      BY <1>3, <3>1, <3>2 DEF StartDialDone
  <2>2. DialOK'
    BY <1>3 DEF StartDialDone, DialOK, StartOK
  <2> QED
    BY <1>3, <2>1, <2>2, Frame DEF StartDialDone
<1>4. CASE StartInstalls
  <2>1. FieldsOK'
    BY <1>4 DEF StartInstalls, FieldsOK, StartOK
  <2>2. StartOK'
    BY <1>4 DEF StartInstalls, StartOK
  <2>3. AmqpOK'
    BY <1>4 DEF StartInstalls, AmqpOK
  <2> QED
    BY <1>4, <2>1, <2>2, <2>3, Frame DEF StartInstalls
<1>5. CASE StartOpenFails
  <2>1. StartOK'
    BY <1>5, ReturnTypeOK DEF StartOpenFails
  <2>2. AmqpOK'
    BY <1>5 DEF StartOpenFails, AmqpOK
  <2> QED
    BY <1>5, <2>1, <2>2, Frame DEF StartOpenFails
<1>6. CASE StartCopiesExchanges
  <2>1. StartOK'
    <3>1. exchanges \in Seq(Exchs) /\ exchanges \in Seq(Calls)
      BY DEF FieldsOK
    <3>2. todo' \in Seq(Exchs) /\ todo' \in Seq(Calls)
      BY <1>6, <3>1 DEF StartCopiesExchanges
    <3> QED
      BY <1>6, <3>2 DEF StartCopiesExchanges, StartOK
  <2> QED
    BY <1>6, <2>1, Frame DEF StartCopiesExchanges
<1>7. CASE StartDeclares
  <2>1. StartOK'
    <3>1. CASE todo = <<>>
      BY <1>7, <3>1 DEF StartDeclares, StartOK
    <3>2. CASE todo # <<>>
      <4>1. Tail(todo) \in Seq(Exchs) /\ Tail(todo) \in Seq(Calls)
        BY <1>7, <3>2 DEF StartDeclares, StartOK
      <4>2. todo' = Tail(todo) /\ start' = "declaring" /\ UNCHANGED <<run, result>>
        BY <1>7, <3>2 DEF StartDeclares
      <4> QED
        BY <1>7, <4>1, <4>2 DEF StartDeclares, StartOK
    <3> QED
      BY <3>1, <3>2
  <2>2. AmqpOK'
    <3>1. CASE UNCHANGED amqpVars
      BY <3>1, Frame
    <3>2. CASE todo # <<>> /\ declared' = [declared EXCEPT ![run] = @ \cup {Head(todo)}]
               /\ UNCHANGED <<conn, chan, closer, consumers>>
      <4>1. Head(todo) \in Exchs
        BY <1>7, <3>2 DEF StartDeclares, StartOK
      <4> QED
        BY <3>2, <4>1 DEF AmqpOK
    <3> QED
      BY <1>7, <3>1, <3>2 DEF StartDeclares
  <2> QED
    BY <1>7, <2>1, <2>2, Frame DEF StartDeclares
<1>8. CASE StartDeclareFails
  <2>1. StartOK'
    BY <1>8, ReturnTypeOK DEF StartDeclareFails
  <2>2. AmqpOK'
    BY <1>8, CloseBothTypeOK DEF StartDeclareFails, StartOK
  <2> QED
    BY <1>8, <2>1, <2>2, Frame DEF StartDeclareFails
<1>9. CASE StartCopiesSubs
  <2>1. StartOK'
    <3>1. subs \in Seq(Subs) /\ subs \in Seq(Calls)
      BY DEF FieldsOK
    <3>2. todo' \in Seq(Subs) /\ todo' \in Seq(Calls)
      BY <1>9, <3>1 DEF StartCopiesSubs
    <3> QED
      BY <1>9, <3>2 DEF StartCopiesSubs, StartOK
  <2> QED
    BY <1>9, <2>1, Frame DEF StartCopiesSubs
<1>10. CASE StartResetsDead
  <2>1. FieldsOK'
    BY <1>10 DEF StartResetsDead, FieldsOK
  <2>2. StartOK'
    BY <1>10 DEF StartResetsDead, StartOK
  <2> QED
    BY <1>10, <2>1, <2>2, Frame DEF StartResetsDead
<1>11. CASE StartBinds
  <2>1. FieldsOK'
    BY <1>11 DEF StartBinds, BindsThenReady, FieldsOK
  <2>2. StartOK'
    <3>1. start = "binding" /\ UNCHANGED <<run, result>>
      BY <1>11 DEF StartBinds, BindsThenReady
    <3>2. CASE start' = "serving" /\ todo' = todo
      BY <3>1, <3>2 DEF StartOK
    <3>3. CASE start' = start /\ todo # <<>> /\ todo' = Tail(todo)
      <4>1. todo' \in Seq(Subs) /\ todo' \in Seq(Calls)
        BY <3>1, <3>3 DEF StartOK
      <4> QED
        BY <3>1, <3>3, <4>1 DEF StartOK
    <3> QED
      BY <1>11, <3>2, <3>3 DEF StartBinds, BindsThenReady
  <2>3. AmqpOK'
    <3>1. CASE UNCHANGED amqpVars
      BY <3>1, Frame
    <3>2. CASE todo # <<>> /\ Consume(Head(todo), "start", run, run)
      <4>1. Head(todo) \in Subs /\ run \in Runs
        BY <1>11, <3>2 DEF StartBinds, BindsThenReady, StartOK
      <4> QED
        BY <3>2, <4>1, ConsumeTypeOK
    <3> QED
      BY <1>11, <3>1, <3>2 DEF StartBinds, BindsThenReady
  <2> QED
    BY <1>11, <2>1, <2>2, <2>3, Frame DEF StartBinds, BindsThenReady
<1>12. CASE StartBindFails
  <2>1. FieldsOK'
    BY <1>12 DEF StartBindFails, FieldsOK
  <2>2. StartOK'
    BY <1>12 DEF StartBindFails, StartOK
  <2>3. CtxOK'
    BY <1>12 DEF StartBindFails, CtxOK, StartOK
  <2> QED
    BY <1>12, <2>1, <2>2, <2>3, Frame DEF StartBindFails
<1>13. CASE StartClosesFailedRun
  <2>1. StartOK'
    BY <1>13, ReturnTypeOK DEF StartClosesFailedRun
  <2>2. AmqpOK'
    BY <1>13, CloseBothTypeOK DEF StartClosesFailedRun, StartOK
  <2> QED
    BY <1>13, <2>1, <2>2, Frame DEF StartClosesFailedRun
<1>14. CASE StartWakes
  <2>1. StartOK'
    BY <1>14 DEF StartWakes, StartOK
  <2>2. CtxOK'
    BY <1>14 DEF StartWakes, CtxOK, StartOK
  <2> QED
    BY <1>14, <2>1, <2>2, Frame DEF StartWakes
<1>15. CASE StartEnds
  <2>1. FieldsOK'
    BY <1>15 DEF StartEnds, FieldsOK
  <2>2. StartOK'
    BY <1>15, ReturnTypeOK DEF StartEnds
  <2> QED
    BY <1>15, <2>1, <2>2, Frame DEF StartEnds
<1> QED
  BY <1>1, <1>2, <1>3, <1>4, <1>5, <1>6, <1>7, <1>8, <1>9, <1>10, <1>11, <1>12, <1>13,
     <1>14, <1>15 DEF StartStep

LEMMA StopTypeOK ==
    ASSUME TypeOK, NEW p \in Stoppers, StopTakes(p) \/ StopStep(p)
    PROVE  TypeOK'
<1> USE DEF TypeOK
<1>1. CASE StopTakes(p)
  <2>1. FieldsOK'
    BY <1>1 DEF StopTakes, StopLeaves, FieldsOK
  <2>2. StopOK'
    BY <1>1 DEF StopTakes, StopLeaves, FieldsOK, StopOK, Taken
  <2> QED
    BY <1>1, <2>1, <2>2, Frame DEF StopTakes, StopLeaves
<1>2. CASE StopCancelsRun(p)
  <2>1. CtxOK'
    <3>1. took[p].runCtx \in 0..MaxRuns
      BY DEF StopOK, Taken
    <3>2. {took[p].runCtx} \ {Nil} \subseteq Runs
      BY <3>1
    <3> QED
      BY <1>2, <3>2 DEF StopCancelsRun, CtxOK
  <2>2. StopOK'
    BY <1>2 DEF StopCancelsRun, StopAt, StopOK
  <2> QED
    BY <1>2, <2>1, <2>2, Frame DEF StopCancelsRun
<1>3. CASE StopSelects(p)
  <2>1. StopOK'
    BY <1>3 DEF StopSelects, StopSignalsUnless, StopAt, StopOK
  <2> QED
    BY <1>3, <2>1, Frame DEF StopSelects, StopSignalsUnless
<1>4. CASE StopSignals(p)
  <2>1. CtxOK'
    <3>1. took[p].stopCh \in 0..PreClosed
      BY DEF StopOK, Taken
    <3> QED
      BY <1>4, <3>1 DEF StopSignals, CtxOK
  <2>2. StopOK'
    BY <1>4 DEF StopSignals, StopAt, StopOK
  <2> QED
    BY <1>4, <2>1, <2>2, Frame DEF StopSignals
<1>5. CASE StopCloses(p)
  <2>1. took[p] \in Taken
    BY DEF StopOK
  <2>2. AmqpOK'
    <3>1. CASE UNCHANGED amqpVars
      BY <3>1, Frame
    <3>2. CASE /\ took[p].handle # Nil /\ CloseBoth(took[p].handle, "stop")
               /\ UNCHANGED <<declared, consumers>>
      <4>1. took[p].handle \in Runs
        BY <2>1, <3>2 DEF Taken
      <4> QED
        BY <3>2, <4>1, CloseBothTypeOK
    <3> QED
      BY <1>5, <3>1, <3>2 DEF StopCloses
  <2>3. StopOK'
    <3>1. [stopCh |-> took[p].stopCh, handle |-> Nil, runCtx |-> Nil] \in Taken
      BY <2>1 DEF Taken
    <3>2. /\ took' = [took EXCEPT ![p] = [stopCh |-> took[p].stopCh, handle |-> Nil, runCtx |-> Nil]]
          /\ stop' = [stop EXCEPT ![p] = "done"]
      BY <1>5 DEF StopCloses
    <3> QED
      BY <3>1, <3>2 DEF StopOK
  <2> QED
    BY <1>5, <2>2, <2>3, Frame DEF StopCloses
<1> QED
  BY <1>1, <1>2, <1>3, <1>4, <1>5 DEF StopStep

LEMMA CallTypeOK ==
    ASSUME TypeOK, NEW c \in Calls, Register(c) \/ CallStep(c)
    PROVE  TypeOK'
<1> USE DEF TypeOK
<1>1. CASE Register(c)
  <2>1. FieldsOK'
    <3>1. CASE c \in Subs /\ subs' = Append(subs, c) /\ UNCHANGED exchanges
      BY <1>1, <3>1 DEF Register, FieldsOK
    <3>2. CASE c \in Exchs /\ exchanges' = Append(exchanges, c) /\ UNCHANGED subs
      BY <1>1, <3>2 DEF Register, FieldsOK
    <3> QED
      BY <1>1, <3>1, <3>2 DEF Register
  <2>2. CallOK'
    BY <1>1 DEF Register, CallAt, CallOK
  <2> QED
    BY <1>1, <2>1, <2>2, Frame DEF Register
<1>2. CASE ReadsHandle(c)
  <2>1. CallOK'
    BY <1>2 DEF ReadsHandle, CallAt, CallOK, FieldsOK
  <2> QED
    BY <1>2, <2>1, Frame DEF ReadsHandle
<1>3. CASE DefersToStart(c)
  <2>1. CallOK'
    BY <1>3 DEF DefersToStart, DefersIf, CallEnds, CallAt, CallOK
  <2> QED
    BY <1>3, <2>1, Frame DEF DefersToStart, DefersIf
<1>4. CASE AppliesLive(c)
  <2>1. CallOK'
    BY <1>4 DEF AppliesLive, CallEnds, CallAt, CallOK
  <2>2. seen[c][1] \in 0..MaxRuns /\ seen[c][2] \in 0..MaxRuns
    BY DEF CallOK
  <2>3. AmqpOK'
    <3>1. CASE c \in Subs /\ seen[c][2] # Nil /\ Consume(c, "live", seen[c][1], seen[c][2])
      <4>1. seen[c][1] \in Runs /\ seen[c][2] \in Runs
        BY <1>4, <2>2, <3>1 DEF AppliesLive
      <4> QED
        BY <3>1, <4>1, ConsumeTypeOK
    <3>2. CASE /\ c \in Exchs /\ declared' = [declared EXCEPT ![seen[c][1]] = @ \cup {c}]
               /\ UNCHANGED <<conn, chan, closer, consumers>>
      BY <3>2 DEF AmqpOK
    <3> QED
      BY <1>4, <3>1, <3>2 DEF AppliesLive
  <2> QED
    BY <1>4, <2>1, <2>3, Frame DEF AppliesLive
<1>5. CASE RejectedLive(c)
  <2>1. CallOK'
    BY <1>5 DEF RejectedLive, CallEnds, CallAt, CallOK
  <2>2. AmqpOK'
    BY <1>5 DEF RejectedLive, CloseChannel, AmqpOK
  <2> QED
    BY <1>5, <2>1, <2>2, Frame DEF RejectedLive
<1> QED
  BY <1>1, <1>2, <1>3, <1>4, <1>5 DEF CallStep

LEMMA ConsumerTypeOK ==
    ASSUME TypeOK, NEW k \in consumers, ConsumerStep(k) \/ BrokerCancelsConsumer(k)
    PROVE  TypeOK'
<1> USE DEF TypeOK
<1>1. /\ k \in Consumer
      /\ [k EXCEPT !.cut = TRUE] \in Consumer
      /\ [k EXCEPT !.at = "marking"] \in Consumer
      /\ [k EXCEPT !.at = "dead"] \in Consumer
  BY DEF AmqpOK, Consumer
<1>2. CASE ConsumerStops(k)
  <2>1. AmqpOK'
    BY <1>2 DEF ConsumerStops, ConsumerStopsWhen, AmqpOK
  <2> QED
    BY <1>2, <2>1, Frame DEF ConsumerStops, ConsumerStopsWhen
<1>3. CASE ConsumerSeesClose(k)
  <2>1. AmqpOK'
    BY <1>1, <1>3 DEF ConsumerSeesClose, Moves, AmqpOK
  <2> QED
    BY <1>3, <2>1, Frame DEF ConsumerSeesClose
<1>4. CASE ConsumerMarksDead(k)
  <2>1. FieldsOK'
    <3>1. k.sub \in Subs /\ k.conn \in 0..MaxRuns
      BY <1>1 DEF Consumer
    <3>2. /\ dead' = [dead EXCEPT ![k.sub] = k.conn]
          /\ UNCHANGED <<handle, stopCh, runCtx, exchanges, subs>>
      BY <1>4 DEF ConsumerMarksDead
    <3>3. dead' \in [Subs -> 0..MaxRuns]
      BY <3>1, <3>2 DEF FieldsOK
    <3> QED
      BY <3>2, <3>3 DEF FieldsOK
  <2>2. AmqpOK'
    <3>1. /\ consumers' = (consumers \ {k}) \cup {[k EXCEPT !.at = "dead"]}
          /\ UNCHANGED <<conn, chan, closer, declared>>
      BY <1>4 DEF ConsumerMarksDead, Moves
    <3>2. consumers' \subseteq Consumer
      BY <1>1, <3>1 DEF AmqpOK
    <3> QED
      BY <3>1, <3>2 DEF AmqpOK
  <2> QED
    BY <1>4, <2>1, <2>2, Frame DEF ConsumerMarksDead
<1>5. CASE BrokerCancelsConsumer(k)
  <2>1. AmqpOK'
    BY <1>1, <1>5 DEF BrokerCancelsConsumer, AmqpOK
  <2> QED
    BY <1>5, <2>1, Frame DEF BrokerCancelsConsumer
<1> QED
  BY <1>2, <1>3, <1>4, <1>5 DEF ConsumerStep

LEMMA EnvironmentTypeOK ==
    ASSUME TypeOK, SupervisorCancels \/ \E r \in Runs : BrokerDrops(r)
    PROVE  TypeOK'
<1> USE DEF TypeOK
<1>1. CASE SupervisorCancels
  <2>1. CtxOK'
    BY <1>1 DEF SupervisorCancels, CtxOK, StartOK
  <2> QED
    BY <1>1, <2>1, Frame DEF SupervisorCancels
<1>2. ASSUME NEW r \in Runs, BrokerDrops(r)
      PROVE  TypeOK'
  <2>1. AmqpOK'
    BY <1>2, CloseBothTypeOK DEF BrokerDrops
  <2> QED
    BY <1>2, <2>1, Frame DEF BrokerDrops
<1> QED
  BY <1>1, <1>2

LEMMA NextTypeOK == TypeOK /\ [Next]_vars => TypeOK'
<1> SUFFICES ASSUME TypeOK, [Next]_vars PROVE TypeOK'
  OBVIOUS
<1>1. CASE UNCHANGED vars
  BY <1>1, Frame DEF TypeOK, vars
<1>2. CASE Next
  BY <1>2, StartBeginsTypeOK, StartTypeOK, DialTypeOK, StopTypeOK, CallTypeOK, ConsumerTypeOK,
     EnvironmentTypeOK DEF Next
<1> QED
  BY <1>1, <1>2

\* Every variable keeps its type, whatever the constants.
THEOREM TypeCorrect == Spec => []TypeOK
BY InitTypeOK, NextTypeOK, PTL DEF Spec

-----------------------------------------------------------------------------
(* Stop channels.                                                          *)

LEMMA InitStopInv == Init => StopInv
<1> SUFFICES ASSUME Init PROVE StopInv
  OBVIOUS
<1>1. TypeOK
  BY InitTypeOK
<1> QED
  BY <1>1 DEF Init, StopInv, StopChannels, NoDoubleClose, EndingAsked, NilOnlyWhenAsked, Took, Asked

\* A step that touches neither stop channels nor Stop calls, and ends no run
\* with nil that was not asked to end.
QuietForStop ==
    /\ stopCh' = stopCh /\ run' = run /\ stopClosed' = stopClosed
    /\ stop' = stop /\ took' = took
    /\ cancelled \subseteq cancelled'
    /\ start' = "ending" => start = "ending" \/ run \in cancelled \cup stopClosed
    /\ \A r \in Runs : result'[r] = "nil" =>
           result[r] = "nil" \/ (r = run /\ (start = "ending" \/ run \in cancelled))

LEMMA StopInvFrame == ASSUME StopInv, TypeOK', QuietForStop PROVE StopInv'
<1> USE DEF StopInv, QuietForStop
<1>1. \A r : Asked(r) => Asked(r)'
  BY DEF Asked, Took
<1>2. StopChannels' /\ NoDoubleClose'
  BY DEF StopChannels, NoDoubleClose, Took
<1>3. EndingAsked'
  <2> SUFFICES ASSUME start' = "ending" PROVE Asked(run)
    BY <1>1 DEF EndingAsked
  <2>1. run # PreClosed
    BY DEF TypeOK, StartOK
  <2> QED
    BY <2>1 DEF EndingAsked, StopChannels, Asked
<1>4. NilOnlyWhenAsked'
  BY <1>1 DEF NilOnlyWhenAsked, EndingAsked, Asked
<1> QED
  BY <1>2, <1>3, <1>4

LEMMA StartStopInv == ASSUME StopInv, StartStep PROVE StopInv'
<1> USE DEF StopInv
<1>1. TypeOK'
  BY StartTypeOK
<1>2. UNCHANGED <<stopCh, run, stopClosed, stop, took, cancelled>>
  BY DEF StartStep, StartCancelledInDial, StartDialTimesOut, TimeOutReturns, StartDialDone,
         StartInstalls, StartOpenFails, StartCopiesExchanges, StartDeclares, StartDeclareFails,
         StartCopiesSubs, StartResetsDead, StartBinds, BindsThenReady, StartBindFails,
         StartClosesFailedRun, StartWakes, StartEnds, Return,
         fieldVars, startVars, ctxVars, stopVars
<1>3. start' = "ending" => start = "ending" \/ run \in cancelled \cup stopClosed
  BY DEF StartStep, StartCancelledInDial, StartDialTimesOut, TimeOutReturns, StartDialDone,
         StartInstalls, StartOpenFails, StartCopiesExchanges, StartDeclares, StartDeclareFails,
         StartCopiesSubs, StartResetsDead, StartBinds, BindsThenReady, StartBindFails,
         StartClosesFailedRun, StartWakes, StartEnds, Return, startVars
<1>4. ASSUME NEW r \in Runs, result'[r] = "nil"
      PROVE  result[r] = "nil" \/ (r = run /\ (start = "ending" \/ run \in cancelled))
  <2>1. result \in [Runs -> {"none", "nil", "error"}]
    BY DEF TypeOK, StartOK
  <2>2. CASE UNCHANGED result
    BY <1>4, <2>2
  <2>3. CASE Return("error")
    BY <1>4, <2>1, <2>3 DEF Return
  <2>4. CASE Return("nil") /\ (start = "ending" \/ run \in cancelled)
    BY <1>4, <2>1, <2>4 DEF Return
  <2> QED
    BY <2>2, <2>3, <2>4
    DEF StartStep, StartCancelledInDial, StartDialTimesOut, TimeOutReturns, StartDialDone,
        StartInstalls, StartOpenFails, StartCopiesExchanges, StartDeclares, StartDeclareFails,
        StartCopiesSubs, StartResetsDead, StartBinds, BindsThenReady, StartBindFails,
        StartClosesFailedRun, StartWakes, StartEnds, startVars
<1>5. QuietForStop
  BY <1>2, <1>3, <1>4 DEF QuietForStop
<1> QED
  BY <1>1, <1>5, StopInvFrame

LEMMA BeginsStopInv == ASSUME StopInv, StartBegins PROVE StopInv'
<1> USE DEF StopInv
<1>1. TypeOK'
  BY StartBeginsTypeOK
<1>2. /\ run' = run + 1 /\ stopCh' = run + 1 /\ start' = "dialing" /\ run < MaxRuns
      /\ UNCHANGED <<result, cancelled, stopClosed, stop, took>>
  BY DEF StartBegins, ctxVars, stopVars
<1>3. run \in 0..MaxRuns
  BY DEF TypeOK, StartOK
<1>4. \A p \in Stoppers : ~Took(p, run + 1)
  BY <1>2, <1>3 DEF StopChannels, Took
<1>5. run + 1 \notin stopClosed
  BY <1>2, <1>3, <1>4 DEF StopChannels
<1>6. \A p \in Stoppers : took[p].stopCh \in 0..PreClosed
  BY DEF TypeOK, StopOK, Taken
<1>7. StopChannels'
  <2>1. stopCh' <= run' /\ stopCh' \notin stopClosed'
    BY <1>2, <1>3, <1>5
  <2>2. \A p \in Stoppers : \A c : Took(p, c)' <=> Took(p, c)
    BY <1>2 DEF Took
  <2>3. ASSUME NEW p \in Stoppers, stop[p] # "idle", took[p].stopCh # PreClosed
        PROVE  /\ took[p].stopCh <= run'
               /\ took[p].stopCh # stopCh'
               /\ \A q \in Stoppers \ {p} : ~Took(q, took[p].stopCh)'
    BY <1>2, <1>3, <1>4, <1>6, <2>2, <2>3 DEF StopChannels, Took
  <2> QED
    BY <1>2, <2>1, <2>2, <2>3 DEF StopChannels
<1>8. NoDoubleClose' /\ NilOnlyWhenAsked' /\ EndingAsked'
  BY <1>2 DEF NoDoubleClose, NilOnlyWhenAsked, EndingAsked, Asked, Took
<1> QED
  BY <1>1, <1>7, <1>8

LEMMA StopStopInv ==
    ASSUME StopInv, NEW p \in Stoppers, StopTakes(p) \/ StopStep(p)
    PROVE  StopInv'
<1> USE DEF StopInv
<1>1. TypeOK' /\ StopOK /\ took[p].stopCh \in 0..PreClosed /\ run \in 0..MaxRuns
  BY StopTypeOK DEF TypeOK, StopOK, StartOK, Taken
<1>2. UNCHANGED <<run, start, result, cancelled>>
  BY DEF StopStep, StopTakes, StopLeaves, StopCancelsRun, StopSelects, StopSignalsUnless,
         StopSignals, StopCloses, startVars, ctxVars
<1>3. CASE StopTakes(p)
  <2>1. /\ stop[p] = "idle" /\ stopCh' = PreClosed /\ stopClosed' = stopClosed
        /\ \A q \in Stoppers : stop'[q] = IF q = p THEN "cancelling" ELSE stop[q]
        /\ \A q \in Stoppers : took'[q].stopCh = IF q = p THEN stopCh ELSE took[q].stopCh
    BY <1>1, <1>3 DEF StopTakes, StopLeaves, StopOK, ctxVars
  <2>2. \A q \in Stoppers : \A c : Took(q, c)' <=> Took(q, c) \/ (q = p /\ c = stopCh)
    BY <2>1 DEF Took
  <2>3. StopChannels'
    <3>1. \A c \in stopClosed : c = PreClosed \/ \E q \in Stoppers : Took(q, c)'
      BY <2>2 DEF StopChannels
    <3>2. ASSUME NEW q \in Stoppers, stop'[q] # "idle", took'[q].stopCh # PreClosed
          PROVE  /\ took'[q].stopCh <= run
                 /\ \A s \in Stoppers \ {q} :
                        ~(stop'[s] # "idle" /\ took'[s].stopCh = took'[q].stopCh)
      <4>1. CASE q = p
        BY <2>1, <3>2, <4>1 DEF StopChannels, Took
      <4>2. CASE q # p
        BY <2>1, <3>2, <4>2 DEF StopChannels, Took
      <4> QED
        BY <4>1, <4>2
    <3> QED
      BY <1>2, <2>1, <3>1, <3>2 DEF StopChannels, Took
  <2>4. NoDoubleClose'
    BY <2>1 DEF NoDoubleClose
  <2>5. EndingAsked' /\ NilOnlyWhenAsked'
    BY <1>2, <2>2 DEF EndingAsked, NilOnlyWhenAsked, Asked
  <2> QED
    BY <1>1, <2>3, <2>4, <2>5
<1>4. ASSUME stop[p] # "idle", stopCh' = stopCh,
             \A q \in Stoppers : (stop'[q] # "idle") <=> (stop[q] # "idle"),
             \A q \in Stoppers : took'[q].stopCh = took[q].stopCh,
             stopClosed' = stopClosed \/ stopClosed' = stopClosed \cup {took[p].stopCh},
             NoDoubleClose'
      PROVE  StopInv'
  <2>1. \A q \in Stoppers : \A c : Took(q, c)' <=> Took(q, c)
    BY <1>4 DEF Took
  <2>2. Took(p, took[p].stopCh)
    BY <1>4 DEF Took
  <2>3. StopChannels'
    <3>1. \A c \in stopClosed' : c = PreClosed \/ \E q \in Stoppers : Took(q, c)'
      BY <1>4, <2>1, <2>2 DEF StopChannels
    <3>2. stopCh # PreClosed => stopCh # took[p].stopCh
      BY <1>4 DEF StopChannels
    <3>3. \A q \in Stoppers : stop'[q] # "idle" /\ took'[q].stopCh # PreClosed =>
             /\ took'[q].stopCh <= run'
             /\ took'[q].stopCh # stopCh'
             /\ \A s \in Stoppers \ {q} :
                    ~(stop'[s] # "idle" /\ took'[s].stopCh = took'[q].stopCh)
      BY <1>2, <1>4 DEF StopChannels, Took
    <3>4. PreClosed \in stopClosed' /\ (stopCh' # PreClosed => stopCh' <= run' /\ stopCh' \notin stopClosed')
      BY <1>2, <1>4, <3>2 DEF StopChannels
    <3> QED
      BY <3>1, <3>3, <3>4 DEF StopChannels, Took
  <2>4. EndingAsked' /\ NilOnlyWhenAsked'
    BY <1>2, <2>1 DEF EndingAsked, NilOnlyWhenAsked, Asked
  <2> QED
    BY <1>1, <1>4, <2>3, <2>4
<1>5. CASE StopCancelsRun(p) \/ StopSelects(p) \/ StopCloses(p)
  <2>1. /\ stop[p] # "idle" /\ stopCh' = stopCh /\ stopClosed' = stopClosed
        /\ \A q \in Stoppers : (stop'[q] # "idle") <=> (stop[q] # "idle")
        /\ \A q \in Stoppers : took'[q].stopCh = took[q].stopCh
        /\ stop'[p] = "signalling" => took[p].stopCh \notin stopClosed
        /\ \A q \in Stoppers \ {p} : stop'[q] = stop[q]
    BY <1>1, <1>5 DEF StopCancelsRun, StopSelects, StopSignalsUnless, StopCloses, StopAt, StopOK,
       fieldVars, ctxVars
  <2>2. NoDoubleClose'
    BY <2>1 DEF NoDoubleClose
  <2> QED
    BY <1>4, <2>1, <2>2
<1>6. CASE StopSignals(p)
  <2>1. /\ stop[p] = "signalling" /\ stopCh' = stopCh
        /\ stopClosed' = stopClosed \cup {took[p].stopCh} /\ took' = took
        /\ \A q \in Stoppers : stop'[q] = IF q = p THEN "closing" ELSE stop[q]
    BY <1>1, <1>6 DEF StopSignals, StopAt, StopOK, fieldVars
  <2>2. took[p].stopCh # PreClosed
    BY <2>1 DEF NoDoubleClose, StopChannels
  <2>3. \A q \in Stoppers : q # p /\ stop[q] = "signalling" => took[q].stopCh # took[p].stopCh
    BY <2>1, <2>2 DEF StopChannels, Took
  <2>4. NoDoubleClose'
    BY <2>1, <2>3 DEF NoDoubleClose
  <2> QED
    BY <1>4, <2>1, <2>4
<1> QED
  BY <1>3, <1>5, <1>6 DEF StopStep

LEMMA NextStopInv == StopInv /\ [Next]_vars => StopInv'
<1> SUFFICES ASSUME StopInv, [Next]_vars PROVE StopInv'
  OBVIOUS
<1>1. TypeOK /\ TypeOK'
  BY NextTypeOK DEF StopInv
<1>2. ASSUME UNCHANGED <<stopCh, start, run, result, stopClosed, stop, took>>,
             cancelled \subseteq cancelled'
      PROVE  StopInv'
  <2>1. QuietForStop
    BY <1>2 DEF QuietForStop
  <2> QED
    BY <1>1, <2>1, StopInvFrame
<1>3. CASE UNCHANGED vars
  BY <1>2, <1>3 DEF vars, fieldVars, startVars, ctxVars, stopVars
<1>4. CASE SupervisorCancels
  BY <1>2, <1>4 DEF SupervisorCancels, fieldVars, startVars, stopVars
<1>5. ASSUME NEW r \in Runs, DialReturns(r) \/ DrainDial(r) \/ BrokerDrops(r)
      PROVE  StopInv'
  BY <1>2, <1>5 DEF DialReturns, DrainDial, BrokerDrops, fieldVars, startVars, ctxVars, stopVars
<1>6. ASSUME NEW c \in Calls, Register(c) \/ CallStep(c)
      PROVE  StopInv'
  BY <1>2, <1>6 DEF Register, CallStep, ReadsHandle, DefersToStart, DefersIf, AppliesLive,
     RejectedLive, fieldVars, startVars, ctxVars, stopVars
<1>7. ASSUME NEW k \in consumers, ConsumerStep(k) \/ BrokerCancelsConsumer(k)
      PROVE  StopInv'
  BY <1>2, <1>7 DEF ConsumerStep, ConsumerStops, ConsumerStopsWhen, ConsumerSeesClose,
     ConsumerMarksDead, BrokerCancelsConsumer, fieldVars, startVars, ctxVars, stopVars
<1> QED
  BY <1>3, <1>4, <1>5, <1>6, <1>7, StartStopInv, BeginsStopInv, StopStopInv DEF Next

\* The strengthening the next theorems rest on.
THEOREM StopInvariant == Spec => []StopInv
BY InitStopInv, NextStopInv, PTL DEF Spec

\* However many calls of Stop race each other and restarts, no stopCh is ever
\* closed twice.
THEOREM StopIsConcurrencySafe == Spec => []NoDoubleClose
<1>1. StopInv => NoDoubleClose
  BY DEF StopInv
<1> QED
  BY <1>1, StopInvariant, PTL

\* Start returns nil only for a run whose context was cancelled or whose stopCh
\* a Stop took.
THEOREM NilIsAnAnswer == Spec => []NilOnlyWhenAsked
<1>1. StopInv => NilOnlyWhenAsked
  BY DEF StopInv
<1> QED
  BY <1>1, StopInvariant, PTL

-----------------------------------------------------------------------------
(* The contract with the supervisor, step by step.                         *)

\* Contexts of runs to come are not cancelled yet.
CancelledBegan == cancelled \subseteq 1..run

LEMMA NextCancelledBegan == TypeOK /\ CancelledBegan /\ [Next]_vars => CancelledBegan'
<1> SUFFICES ASSUME TypeOK, CancelledBegan, [Next]_vars PROVE CancelledBegan'
  OBVIOUS
<1>1. run \in 0..MaxRuns
  BY DEF TypeOK, StartOK
<1>2. ASSUME UNCHANGED <<run, cancelled>> PROVE CancelledBegan'
  BY <1>2 DEF CancelledBegan
<1>3. CASE StartBegins
  BY <1>1, <1>3 DEF CancelledBegan, StartBegins, ctxVars
<1>4. CASE SupervisorCancels
  BY <1>1, <1>4 DEF CancelledBegan, SupervisorCancels, startVars
<1>5. CASE UNCHANGED vars
  BY <1>2, <1>5 DEF vars, startVars, ctxVars
<1>6. CASE StartStep
  BY <1>2, <1>6
  DEF StartStep, StartCancelledInDial, StartDialTimesOut, TimeOutReturns, StartDialDone,
      StartInstalls, StartOpenFails, StartCopiesExchanges, StartDeclares, StartDeclareFails,
      StartCopiesSubs, StartResetsDead, StartBinds, BindsThenReady, StartBindFails,
      StartClosesFailedRun, StartWakes, StartEnds, Return, ctxVars
<1>7. ASSUME NEW r \in Runs, DialReturns(r) \/ DrainDial(r) \/ BrokerDrops(r)
      PROVE  CancelledBegan'
  BY <1>2, <1>7 DEF DialReturns, DrainDial, BrokerDrops, startVars, ctxVars
<1>8. ASSUME NEW p \in Stoppers, StopTakes(p) \/ StopStep(p)
      PROVE  CancelledBegan'
  BY <1>2, <1>8 DEF StopStep, StopTakes, StopLeaves, StopCancelsRun, StopSelects,
     StopSignalsUnless, StopSignals, StopCloses, startVars, ctxVars
<1>9. ASSUME NEW c \in Calls, Register(c) \/ CallStep(c)
      PROVE  CancelledBegan'
  BY <1>2, <1>9 DEF Register, CallStep, ReadsHandle, DefersToStart, DefersIf, AppliesLive,
     RejectedLive, startVars, ctxVars
<1>10. ASSUME NEW k \in consumers, ConsumerStep(k) \/ BrokerCancelsConsumer(k)
       PROVE  CancelledBegan'
  BY <1>2, <1>10 DEF ConsumerStep, ConsumerStops, ConsumerStopsWhen, ConsumerSeesClose,
     ConsumerMarksDead, BrokerCancelsConsumer, startVars, ctxVars
<1> QED
  BY <1>3, <1>4, <1>5, <1>6, <1>7, <1>8, <1>9, <1>10 DEF Next

Phase == CASE start = "down" -> "down"
           [] start \in {"serving", "ending"} -> "ready"
           [] OTHER -> "starting"
Outcome == IF start = "down" /\ run # 0 THEN result[run] ELSE "none"

ContractStep == [Contract!Next]_(Contract!vars)

\* A step that Start does not notice asks it to end, or changes nothing.
LEMMA AsideStep ==
    ASSUME UNCHANGED <<start, run, result>>, Asked(run) => Asked(run)'
    PROVE  ContractStep
<1>1. Phase' = Phase /\ Outcome' = Outcome
  BY DEF Phase, Outcome
<1>2. Asked(run)' = TRUE \/ Asked(run)' = Asked(run)
  BY DEF Asked
<1> QED
  BY <1>1, <1>2 DEF ContractStep, Contract!Next, Contract!Ask, Contract!vars, Phase, Outcome

LEMMA BeginsStep == ASSUME StopInv, CancelledBegan, StartBegins PROVE ContractStep
<1>1. /\ start = "down" /\ start' = "dialing" /\ run' = run + 1 /\ run \in 0..MaxRuns
      /\ run < MaxRuns /\ UNCHANGED <<cancelled, stop, took>>
  BY DEF StartBegins, ctxVars, stopVars, StopInv, TypeOK, StartOK
<1>2. run + 1 \notin cancelled /\ \A p \in Stoppers : ~Took(p, run + 1)
  BY <1>1 DEF StopInv, StopChannels, Took, CancelledBegan
<1>3. Asked(run)' = FALSE
  BY <1>1, <1>2 DEF Asked, Took
<1> QED
  BY <1>1, <1>3 DEF ContractStep, Contract!Next, Contract!Begin

\* Start returns an error before ready(), or nil when asked.
LEMMA ReturnsStep ==
    ASSUME StopInv, NEW res \in {"nil", "error"}, Return(res), start # "down",
           UNCHANGED <<cancelled, stop, took>>,
           res = "nil" => Asked(run),
           res = "error" => start \notin {"serving", "ending"}
    PROVE  ContractStep
<1>1. start' = "down" /\ run' = run /\ run # 0 /\ result'[run] = res
  BY DEF Return, StopInv, TypeOK, StartOK
<1>2. Asked(run)' = Asked(run)
  BY <1>1 DEF Asked, Took
<1>3. CASE res = "nil"
  BY <1>1, <1>2, <1>3 DEF ContractStep, Contract!Next, Contract!End
<1>4. CASE res = "error"
  BY <1>1, <1>2, <1>4 DEF ContractStep, Contract!Next, Contract!Fail
<1> QED
  BY <1>3, <1>4

LEMMA StartContract == ASSUME StopInv, StartStep PROVE ContractStep
<1>1. UNCHANGED <<run, cancelled, stop, took>>
  BY DEF StartStep, StartCancelledInDial, StartDialTimesOut, TimeOutReturns, StartDialDone,
         StartInstalls, StartOpenFails, StartCopiesExchanges, StartDeclares, StartDeclareFails,
         StartCopiesSubs, StartResetsDead, StartBinds, BindsThenReady, StartBindFails,
         StartClosesFailedRun, StartWakes, StartEnds, Return, ctxVars, stopVars
<1>2. Asked(run)' = Asked(run)
  BY <1>1 DEF Asked, Took
<1>3. CASE /\ Return("error") /\ start # "down"
           /\ start \notin {"serving", "ending"}
  BY <1>1, <1>3, ReturnsStep
<1>4. CASE /\ Return("nil") /\ start # "down"
           /\ run \in cancelled \/ start = "ending"
  <2>1. Asked(run)
    BY <1>4 DEF StopInv, EndingAsked, Asked
  <2> QED
    BY <1>1, <1>4, <2>1, ReturnsStep
<1>5. CASE /\ start \notin {"down", "serving", "ending"}
           /\ start' \notin {"down", "serving", "ending"}
  BY <1>1, <1>2, <1>5 DEF ContractStep, Contract!vars
<1>6. CASE start = "binding" /\ start' = "serving"
  BY <1>1, <1>2, <1>6 DEF ContractStep, Contract!Next, Contract!Ready
<1>7. CASE start = "serving" /\ start' = "ending"
  BY <1>1, <1>2, <1>7 DEF ContractStep, Contract!vars
<1> QED
  BY <1>3, <1>4, <1>5, <1>6, <1>7
  DEF StartStep, StartCancelledInDial, StartDialTimesOut, TimeOutReturns, StartDialDone,
      StartInstalls, StartOpenFails, StartCopiesExchanges, StartDeclares, StartDeclareFails,
      StartCopiesSubs, StartResetsDead, StartBinds, BindsThenReady, StartBindFails,
      StartClosesFailedRun, StartWakes, StartEnds

LEMMA NextContract == StopInv /\ CancelledBegan /\ [Next]_vars => ContractStep
<1> SUFFICES ASSUME StopInv, CancelledBegan, [Next]_vars PROVE ContractStep
  OBVIOUS
<1>1. ASSUME UNCHANGED <<start, run, result, stop, took>>, cancelled \subseteq cancelled'
      PROVE  ContractStep
  BY <1>1, AsideStep DEF Asked, Took
<1>2. CASE UNCHANGED vars
  BY <1>1, <1>2 DEF vars, startVars, ctxVars, stopVars
<1>3. CASE SupervisorCancels
  BY <1>1, <1>3 DEF SupervisorCancels, startVars, stopVars
<1>4. ASSUME NEW p \in Stoppers, StopTakes(p) \/ StopStep(p)
      PROVE  ContractStep
  <2>1. UNCHANGED <<start, run, result, cancelled>>
    BY <1>4 DEF StopStep, StopTakes, StopLeaves, StopCancelsRun, StopSelects,
       StopSignalsUnless, StopSignals, StopCloses, startVars, ctxVars
  <2>2. \A q \in Stoppers : stop[q] # "idle" =>
            stop'[q] # "idle" /\ took'[q].stopCh = took[q].stopCh
    BY <1>4 DEF StopStep, StopTakes, StopLeaves, StopCancelsRun, StopSelects,
       StopSignalsUnless, StopSignals, StopCloses, StopAt, StopInv, TypeOK, StopOK
  <2>3. Asked(run) => Asked(run)'
    BY <2>1, <2>2 DEF Asked, Took
  <2> QED
    BY <2>1, <2>3, AsideStep
<1>5. ASSUME NEW r \in Runs, DialReturns(r) \/ DrainDial(r) \/ BrokerDrops(r)
      PROVE  ContractStep
  BY <1>1, <1>5 DEF DialReturns, DrainDial, BrokerDrops, startVars, ctxVars, stopVars
<1>6. ASSUME NEW c \in Calls, Register(c) \/ CallStep(c)
      PROVE  ContractStep
  BY <1>1, <1>6 DEF Register, CallStep, ReadsHandle, DefersToStart, DefersIf, AppliesLive,
     RejectedLive, startVars, ctxVars, stopVars
<1>7. ASSUME NEW k \in consumers, ConsumerStep(k) \/ BrokerCancelsConsumer(k)
      PROVE  ContractStep
  BY <1>1, <1>7 DEF ConsumerStep, ConsumerStops, ConsumerStopsWhen, ConsumerSeesClose,
     ConsumerMarksDead, BrokerCancelsConsumer, startVars, ctxVars, stopVars
<1> QED
  BY <1>2, <1>3, <1>4, <1>5, <1>6, <1>7, BeginsStep, StartContract DEF Next

\* The RabbitMQ component keeps its contract with the supervisor: Start returns
\* nil only when its context or a Stop asked it to end, and an error only before
\* ready(), whatever the broker, the callers and the consumers do meanwhile.
THEOREM ImplementsContract == Spec => KeepsContract
<1>1. Init => Contract!Init /\ CancelledBegan
  <2> SUFFICES ASSUME Init PROVE Contract!Init /\ CancelledBegan
    OBVIOUS
  <2>1. Asked(run) \in BOOLEAN
    BY DEF Asked
  <2> QED
    BY <2>1 DEF Init, Contract!Init, CancelledBegan
<1>2. StopInv => TypeOK
  BY DEF StopInv
<1> QED
  BY <1>1, <1>2, StopInvariant, NextCancelledBegan, NextContract, PTL
  DEF Spec, KeepsContract, Contract!Spec, ContractStep

=============================================================================
