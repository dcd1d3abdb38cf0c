--------------------------- MODULE RabbitLifecycle ---------------------------
(***************************************************************************)
(* The life of one rabbitmq.Component: Start, Stop, Health, Subscribe,     *)
(* DeclareExchange and the consumer goroutines, as they interleave over    *)
(* the fields guarded by mu, subsMu, exchMu and consMu.                    *)
(*                                                                         *)
(* A step of the model is one critical section, one blocking call or one   *)
(* select of the code.  Runs of Start are numbered; run r dials connection *)
(* r, opens channel r on it, allocates stopCh r and runCtx r, so one       *)
(* number names them all and 0 is nil.                                     *)
(***************************************************************************)
EXTENDS Integers, Sequences

CONSTANTS Subs,      (* subscriptions handed to SubscribeWithOptions       *)
          Exchs,     (* exchanges handed to DeclareExchange                *)
          Stoppers,  (* calls of Stop, each made at most once              *)
          MaxRuns    (* bound: how many times Start is called              *)

ASSUME Assumption ==
    /\ MaxRuns \in Nat \ {0}
    /\ Subs \cap Exchs = {}

Runs == 1..MaxRuns
Nil  == 0
PreClosed == MaxRuns + 1     (* the closed channel Stop leaves in c.stopCh *)
Calls == Subs \cup Exchs     (* registering calls: Subscribe and DeclareExchange *)

VARIABLES
    \* fields of Component
    handle,      \* c.conn and c.ch, which are always assigned together
    stopCh,      \* c.stopCh
    runCtx,      \* c.runCtx and c.runCancel, assigned together
    exchanges,   \* c.exchanges
    subs,        \* c.subs
    dead,        \* c.deadConsumers: queue -> channel whose deliveries ended
    \* the goroutine running Start
    start,       \* where it is
    run,         \* number of the current, or last, run
    todo,        \* what its copied slice still holds
    result,      \* what each run of Start returned
    \* the dial goroutines
    dial,        \* outcome of the dial of each run
    drained,     \* runs whose dial result a goroutine waits to close
    \* contexts and channels
    cancelled,   \* runs whose component context is cancelled
    runDone,     \* runs whose runCancel has been called
    stopClosed,  \* stop channels that are closed
    \* the broker's side
    conn, chan,  \* state of each connection and of each channel
    closer,      \* who closed each channel first
    declared,    \* exchanges declared over each channel
    consumers,   \* consumer goroutines
    \* calls in progress
    call,        \* where each Subscribe or DeclareExchange call is
    seen,        \* the <<ch, runCtx>> such a call read under mu
    stop,        \* where each Stop call is
    took         \* what each Stop call took out of the component under mu

fieldVars == <<handle, stopCh, runCtx, exchanges, subs, dead>>
startVars == <<start, run, todo, result>>
dialVars  == <<dial, drained>>
ctxVars   == <<cancelled, runDone, stopClosed>>
amqpVars  == <<conn, chan, closer, declared, consumers>>
callVars  == <<call, seen>>
stopVars  == <<stop, took>>
vars == <<fieldVars, startVars, dialVars, ctxVars, amqpVars, callVars, stopVars>>

Link == {"none", "open", "closed"}

Consumer == [sub : Subs, by : {"start", "live"}, conn : Runs, ctx : Runs,
             cut : BOOLEAN, at : {"running", "marking", "dead"}]

Taken == [stopCh : 0..PreClosed, handle : 0..MaxRuns, runCtx : 0..MaxRuns]

FieldsOK ==
    /\ handle \in 0..MaxRuns
    /\ stopCh \in 0..PreClosed
    /\ runCtx \in 0..MaxRuns
    /\ exchanges \in Seq(Exchs)
    /\ subs \in Seq(Subs)
    /\ dead \in [Subs -> 0..MaxRuns]

StartOK ==
    /\ start \in {"down", "dialing", "opening", "copyingExchanges", "declaring",
                  "copyingSubs", "resetting", "binding", "closing", "serving", "ending"}
    /\ run \in 0..MaxRuns
    /\ start # "down" => run # 0
    /\ todo \in Seq(Calls)
    /\ start = "declaring" => todo \in Seq(Exchs)
    /\ start \in {"resetting", "binding"} => todo \in Seq(Subs)
    /\ result \in [Runs -> {"none", "nil", "error"}]

DialOK ==
    /\ dial \in [Runs -> {"none", "pending", "ok", "err", "received"}]
    /\ drained \subseteq Runs

CtxOK ==
    /\ cancelled \subseteq Runs
    /\ runDone \subseteq Runs
    /\ stopClosed \subseteq 0..PreClosed

AmqpOK ==
    /\ conn \in [Runs -> Link]
    /\ chan \in [Runs -> Link]
    /\ closer \in [Runs -> {"nobody", "broker", "start", "stop"}]
    /\ declared \in [Runs -> SUBSET Exchs]
    /\ consumers \subseteq Consumer

CallOK ==
    /\ call \in [Calls -> {"idle", "registered", "applying", "returned", "rejected"}]
    /\ seen \in [Calls -> (0..MaxRuns) \X (0..MaxRuns)]

StopOK ==
    /\ stop \in [Stoppers -> {"idle", "cancelling", "selecting", "signalling", "closing", "done"}]
    /\ took \in [Stoppers -> Taken]

TypeOK == FieldsOK /\ StartOK /\ DialOK /\ CtxOK /\ AmqpOK /\ CallOK /\ StopOK

(* New: nothing dialled, and an open stopCh so that Stop before Start is safe. *)
Init ==
    /\ handle = Nil /\ stopCh = 0 /\ runCtx = Nil
    /\ exchanges = <<>> /\ subs = <<>>
    /\ dead = [s \in Subs |-> Nil]
    /\ start = "down" /\ run = 0 /\ todo = <<>>
    /\ result = [r \in Runs |-> "none"]
    /\ dial = [r \in Runs |-> "none"] /\ drained = {}
    /\ cancelled = {} /\ runDone = {} /\ stopClosed = {PreClosed}
    /\ conn = [r \in Runs |-> "none"] /\ chan = [r \in Runs |-> "none"]
    /\ closer = [r \in Runs |-> "nobody"]
    /\ declared = [r \in Runs |-> {}]
    /\ consumers = {}
    /\ call = [c \in Calls |-> "idle"] /\ seen = [c \in Calls |-> <<Nil, Nil>>]
    /\ stop = [p \in Stoppers |-> "idle"]
    /\ took = [p \in Stoppers |-> [stopCh |-> PreClosed, handle |-> Nil, runCtx |-> Nil]]

-----------------------------------------------------------------------------
(* Contexts and AMQP objects.                                              *)

\* runCtx r is derived from the component context of run r.
CtxDone(r) == r \in cancelled \cup runDone

\* The first Close of an open channel, and of its connection, by who.
CloseBoth(r, who) ==
    /\ conn' = [conn EXCEPT ![r] = "closed"]
    /\ chan' = [chan EXCEPT ![r] = IF @ = "open" THEN "closed" ELSE @]
    /\ closer' = [closer EXCEPT ![r] = IF chan[r] = "open" THEN who ELSE @]

\* AMQP answers a rejected declare by closing the channel it came on.
CloseChannel(r) ==
    /\ chan' = [chan EXCEPT ![r] = "closed"]
    /\ closer' = [closer EXCEPT ![r] = IF chan[r] = "open" THEN "broker" ELSE @]
    /\ UNCHANGED conn

\* The delivery channel of consumer k is closed.
DeliveriesEnded(k) == k.cut \/ chan[k.conn] = "closed"

NewConsumer(s, who, c, ctx) ==
    [sub |-> s, by |-> who, conn |-> c, ctx |-> ctx, cut |-> FALSE, at |-> "running"]

\* bindAndConsume succeeded on channel c: its consumer goroutine starts.
Consume(s, who, c, ctx) ==
    /\ chan[c] = "open"
    /\ consumers' = consumers \cup {NewConsumer(s, who, c, ctx)}
    /\ UNCHANGED <<conn, chan, closer, declared>>

-----------------------------------------------------------------------------
(* Start.                                                                  *)

\* Lines 291-313.  The supervisor calls Start again only once the previous
\* call has returned and its component context is cancelled.
StartBegins ==
    /\ start = "down" /\ run < MaxRuns
    /\ run # 0 => run \in cancelled
    /\ run' = run + 1
    /\ stopCh' = run + 1
    /\ runCtx' = run + 1
    /\ start' = "dialing"
    /\ dial' = [dial EXCEPT ![run + 1] = "pending"]
    /\ UNCHANGED <<handle, exchanges, subs, dead, todo, result, drained,
                   ctxVars, amqpVars, callVars, stopVars>>

\* Start returns res without touching the fields of the component.
Return(res) ==
    /\ start' = "down"
    /\ result' = [result EXCEPT ![run] = res]
    /\ todo' = <<>>
    /\ UNCHANGED run

\* The dial goroutine delivers its result into the buffered dialDone.
DialReturns(r) ==
    /\ dial[r] = "pending"
    /\ \/ /\ dial' = [dial EXCEPT ![r] = "ok"]
          /\ conn' = [conn EXCEPT ![r] = "open"]
       \/ /\ dial' = [dial EXCEPT ![r] = "err"]
          /\ UNCHANGED conn
    /\ UNCHANGED <<fieldVars, startVars, drained, ctxVars, chan, closer, declared,
                   consumers, callVars, stopVars>>

\* case <-ctx.Done(): a goroutine drains dialDone; Start returns nil.
StartCancelledInDial ==
    /\ start = "dialing" /\ run \in cancelled
    /\ drained' = drained \cup {run}
    /\ Return("nil")
    /\ UNCHANGED <<fieldVars, dial, ctxVars, amqpVars, callVars, stopVars>>

\* Bug: the result is drained, but its connection stays open.
DrainKeepsConn(r) ==
    /\ r \in drained /\ dial[r] \in {"ok", "err"}
    /\ drained' = drained \ {r}
    /\ dial' = [dial EXCEPT ![r] = "received"]
    /\ UNCHANGED <<fieldVars, startVars, ctxVars, amqpVars, callVars, stopVars>>

\* The drain goroutine closes what the abandoned dial produced.
DrainDial(r) ==
    /\ r \in drained /\ dial[r] \in {"ok", "err"}
    /\ drained' = drained \ {r}
    /\ dial' = [dial EXCEPT ![r] = "received"]
    /\ IF conn[r] = "open"
       THEN conn' = [conn EXCEPT ![r] = "closed"]
       ELSE UNCHANGED conn
    /\ UNCHANGED <<fieldVars, startVars, ctxVars, chan, closer, declared,
                   consumers, callVars, stopVars>>

TimeOutReturns(res) ==
    /\ start = "dialing"
    /\ Return(res)
    /\ UNCHANGED <<fieldVars, dialVars, ctxVars, amqpVars, callVars, stopVars>>

\* Bug: the time-out is taken for a clean end of the run.
TimeOutReturnsNil == TimeOutReturns("nil")

\* case <-dialTimer.C: nothing drains dialDone.
StartDialTimesOut == TimeOutReturns("error")

\* case res = <-dialDone, lines 333-338.
StartDialDone ==
    /\ start = "dialing"
    /\ dial' = [dial EXCEPT ![run] = "received"]
    /\ \/ /\ dial[run] = "ok"
          /\ start' = "opening"
          /\ UNCHANGED <<run, todo, result>>
       \/ /\ dial[run] = "err"
          /\ Return("error")
    /\ UNCHANGED <<fieldVars, drained, ctxVars, amqpVars, callVars, stopVars>>

\* conn.Channel succeeds and both are published under mu, lines 341-350.
StartInstalls ==
    /\ start = "opening" /\ conn[run] = "open"
    /\ chan' = [chan EXCEPT ![run] = "open"]
    /\ handle' = run
    /\ start' = "copyingExchanges"
    /\ UNCHANGED <<stopCh, runCtx, exchanges, subs, dead, run, todo, result, dialVars,
                   ctxVars, conn, closer, declared, consumers, callVars, stopVars>>

StartOpenFails ==
    /\ start = "opening"
    /\ conn' = [conn EXCEPT ![run] = "closed"]
    /\ Return("error")
    /\ UNCHANGED <<fieldVars, dialVars, ctxVars, chan, closer, declared, consumers,
                   callVars, stopVars>>

StartCopiesExchanges ==
    /\ start = "copyingExchanges"
    /\ todo' = exchanges
    /\ start' = "declaring"
    /\ UNCHANGED <<fieldVars, run, result, dialVars, ctxVars, amqpVars, callVars, stopVars>>

StartDeclares ==
    /\ start = "declaring"
    /\ \/ /\ todo = <<>>
          /\ start' = "copyingSubs"
          /\ UNCHANGED <<todo, amqpVars>>
       \/ /\ todo # <<>> /\ chan[run] = "open"
          /\ declared' = [declared EXCEPT ![run] = @ \cup {Head(todo)}]
          /\ todo' = Tail(todo)
          /\ UNCHANGED <<start, conn, chan, closer, consumers>>
    /\ UNCHANGED <<fieldVars, run, result, dialVars, ctxVars, callVars, stopVars>>

\* Lines 363-365: both are closed, but the fields and runCtx keep their values.
StartDeclareFails ==
    /\ start = "declaring" /\ todo # <<>>
    /\ CloseBoth(run, "start")
    /\ Return("error")
    /\ UNCHANGED <<fieldVars, dialVars, ctxVars, declared, consumers, callVars, stopVars>>

StartCopiesSubs ==
    /\ start = "copyingSubs"
    /\ todo' = subs
    /\ start' = "resetting"
    /\ UNCHANGED <<fieldVars, run, result, dialVars, ctxVars, amqpVars, callVars, stopVars>>

StartResetsDead ==
    /\ start = "resetting"
    /\ dead' = [s \in Subs |-> Nil]
    /\ start' = "binding"
    /\ UNCHANGED <<handle, stopCh, runCtx, exchanges, subs, run, todo, result, dialVars,
                   ctxVars, amqpVars, callVars, stopVars>>

\* One turn of the loop of lines 382-401, or its end and ready(); deadAfter is
\* what deadConsumers holds once the run is ready.
BindsThenReady(deadAfter) ==
    /\ start = "binding"
    /\ \/ /\ todo = <<>>
          /\ start' = "serving"
          /\ dead' = deadAfter
          /\ UNCHANGED <<todo, amqpVars>>
       \/ /\ todo # <<>>
          /\ Consume(Head(todo), "start", run, run)
          /\ todo' = Tail(todo)
          /\ UNCHANGED <<start, dead>>
    /\ UNCHANGED <<handle, stopCh, runCtx, exchanges, subs, run, result, dialVars, ctxVars,
                   callVars, stopVars>>

\* Bug: deadConsumers is reset after the subscriptions are bound.
ResetsAfterBinding == BindsThenReady([s \in Subs |-> Nil])

StartBinds == BindsThenReady(dead)

\* Lines 389-395: the run is cancelled and forgotten before its channel closes.
StartBindFails ==
    /\ start = "binding" /\ todo # <<>>
    /\ runDone' = runDone \cup {run}
    /\ handle' = Nil /\ runCtx' = Nil
    /\ start' = "closing"
    /\ UNCHANGED <<stopCh, exchanges, subs, dead, run, todo, result, dialVars, cancelled,
                   stopClosed, amqpVars, callVars, stopVars>>

StartClosesFailedRun ==
    /\ start = "closing"
    /\ CloseBoth(run, "start")
    /\ Return("error")
    /\ UNCHANGED <<fieldVars, dialVars, ctxVars, declared, consumers, callVars, stopVars>>

\* select { <-stopCh; <-ctx.Done() } and runCancel, lines 406-413.
StartWakes ==
    /\ start = "serving"
    /\ run \in stopClosed \/ run \in cancelled
    /\ runDone' = runDone \cup {run}
    /\ start' = "ending"
    /\ UNCHANGED <<fieldVars, run, todo, result, dialVars, cancelled, stopClosed, amqpVars,
                   callVars, stopVars>>

StartEnds ==
    /\ start = "ending"
    /\ runCtx' = Nil
    /\ Return("nil")
    /\ UNCHANGED <<handle, stopCh, exchanges, subs, dead, dialVars, ctxVars, amqpVars,
                   callVars, stopVars>>

-----------------------------------------------------------------------------
(* Stop.                                                                   *)

\* Lines 426-436; left is what Stop leaves in c.stopCh.
StopLeaves(p, left) ==
    /\ stop[p] = "idle"
    /\ took' = [took EXCEPT ![p] = [stopCh |-> stopCh, handle |-> handle, runCtx |-> runCtx]]
    /\ stopCh' = left
    /\ handle' = Nil
    /\ stop' = [stop EXCEPT ![p] = "cancelling"]
    /\ UNCHANGED <<runCtx, exchanges, subs, dead, startVars, dialVars, ctxVars, amqpVars, callVars>>

\* Bugs: Stop leaves a nil channel behind, or the channel it is about to close.
StopLeavesNil(p) == StopLeaves(p, -1)
StopLeavesStopCh(p) == StopLeaves(p, stopCh)

StopTakes(p) == StopLeaves(p, PreClosed)

StopAt(p, from, to) ==
    /\ stop[p] = from
    /\ stop' = [stop EXCEPT ![p] = to]
    /\ UNCHANGED took

\* Bug: Stop does not cancel the run context.
StopKeepsRun(p) ==
    /\ StopAt(p, "cancelling", "selecting")
    /\ UNCHANGED <<fieldVars, startVars, dialVars, ctxVars, amqpVars, callVars>>

StopCancelsRun(p) ==
    /\ StopAt(p, "cancelling", "selecting")
    /\ runDone' = runDone \cup ({took[p].runCtx} \ {Nil})
    /\ UNCHANGED <<fieldVars, startVars, dialVars, cancelled, stopClosed, amqpVars, callVars>>

StopSignalsUnless(p, quiet) ==
    /\ \/ quiet /\ StopAt(p, "selecting", "closing")
       \/ ~quiet /\ StopAt(p, "selecting", "signalling")
    /\ UNCHANGED <<fieldVars, startVars, dialVars, ctxVars, amqpVars, callVars>>

\* Bug: Stop finds nothing connected and does not signal Start.
StopSignalsIfConnected(p) ==
    StopSignalsUnless(p, took[p].stopCh \in stopClosed \/ took[p].handle = Nil)

\* select { case <-ch: default: close(ch) }: the test, then the close.
StopSelects(p) == StopSignalsUnless(p, took[p].stopCh \in stopClosed)

StopSignals(p) ==
    /\ StopAt(p, "signalling", "closing")
    /\ stopClosed' = stopClosed \cup {took[p].stopCh}
    /\ UNCHANGED <<fieldVars, startVars, dialVars, cancelled, runDone, amqpVars, callVars>>

\* The closing goroutine.  Stop may give up waiting for it, but it goes on:
\* nothing else of the model waits for Stop to return.
StopCloses(p) ==
    /\ stop[p] = "closing"
    /\ stop' = [stop EXCEPT ![p] = "done"]
    /\ took' = [took EXCEPT ![p] = [stopCh |-> @.stopCh, handle |-> Nil, runCtx |-> Nil]]
    /\ \/ /\ took[p].handle = Nil
          /\ UNCHANGED amqpVars
       \/ /\ took[p].handle # Nil
          /\ CloseBoth(took[p].handle, "stop")
          /\ UNCHANGED <<declared, consumers>>
    /\ UNCHANGED <<fieldVars, startVars, dialVars, ctxVars, callVars>>

-----------------------------------------------------------------------------
(* SubscribeWithOptions and DeclareExchange.                               *)

CallAt(c, from, to) ==
    /\ call[c] = from
    /\ call' = [call EXCEPT ![c] = to]

\* The call is over, and forgets what it read.
CallEnds(c, res) ==
    /\ CallAt(c, "applying", res)
    /\ seen' = [seen EXCEPT ![c] = <<Nil, Nil>>]

Register(c) ==
    /\ CallAt(c, "idle", "registered")
    /\ \/ c \in Subs /\ subs' = Append(subs, c) /\ UNCHANGED exchanges
       \/ c \in Exchs /\ exchanges' = Append(exchanges, c) /\ UNCHANGED subs
    /\ UNCHANGED <<handle, stopCh, runCtx, dead, seen, startVars, dialVars, ctxVars,
                   amqpVars, stopVars>>

ReadsHandle(c) ==
    /\ CallAt(c, "registered", "applying")
    /\ seen' = [seen EXCEPT ![c] = <<handle, runCtx>>]
    /\ UNCHANGED <<fieldVars, startVars, dialVars, ctxVars, amqpVars, stopVars>>

DefersIf(c, pending) ==
    /\ CallEnds(c, "returned")
    /\ pending
    /\ UNCHANGED <<fieldVars, startVars, dialVars, ctxVars, amqpVars, stopVars>>

NothingLive(c) ==
    \/ seen[c][1] = Nil
    \/ seen[c][1] # Nil /\ chan[seen[c][1]] = "closed"
    \/ c \in Subs /\ seen[c][2] = Nil

\* Bug: a Start that has not called ready() yet is left to apply the call.
DefersUntilReady(c) == DefersIf(c, NothingLive(c) \/ start \in {"resetting", "copyingSubs"})

\* No live channel, or for a subscription no run: the next Start applies it.
DefersToStart(c) == DefersIf(c, NothingLive(c))

\* The call reaches the broker on the channel it read.
AppliesLive(c) ==
    /\ CallEnds(c, "returned")
    /\ seen[c][1] # Nil /\ chan[seen[c][1]] = "open"
    /\ \/ /\ c \in Subs /\ seen[c][2] # Nil
          /\ Consume(c, "live", seen[c][1], seen[c][2])
       \/ /\ c \in Exchs
          /\ declared' = [declared EXCEPT ![seen[c][1]] = @ \cup {c}]
          /\ UNCHANGED <<conn, chan, closer, consumers>>
    /\ UNCHANGED <<fieldVars, startVars, dialVars, ctxVars, stopVars>>

\* The broker rejects it, or the channel closed after IsClosed was checked.
RejectedLive(c) ==
    /\ CallEnds(c, "rejected")
    /\ seen[c][1] # Nil /\ (c \in Subs => seen[c][2] # Nil)
    /\ CloseChannel(seen[c][1])
    /\ UNCHANGED <<fieldVars, startVars, dialVars, ctxVars, declared, consumers, stopVars>>

-----------------------------------------------------------------------------
(* The consumer goroutines of bindAndConsume.                              *)

Moves(k, at) == consumers' = (consumers \ {k}) \cup {[k EXCEPT !.at = at]}

ConsumerStopsWhen(k, told) ==
    /\ k.at = "running" /\ told
    /\ consumers' = consumers \ {k}
    /\ UNCHANGED <<fieldVars, startVars, dialVars, ctxVars, conn, chan, closer, declared,
                   callVars, stopVars>>

\* Bug: the goroutine ranges over msgs and never selects on its context.
ConsumerIgnoresCtx(k) == ConsumerStopsWhen(k, CtxDone(k.ctx) /\ DeliveriesEnded(k))

ConsumerStops(k) == ConsumerStopsWhen(k, CtxDone(k.ctx))

\* msgs is closed: look at the context a last time before reporting.
ConsumerSeesClose(k) ==
    /\ k.at = "running" /\ DeliveriesEnded(k)
    /\ \/ CtxDone(k.ctx) /\ consumers' = consumers \ {k}
       \/ ~CtxDone(k.ctx) /\ Moves(k, "marking")
    /\ UNCHANGED <<fieldVars, startVars, dialVars, ctxVars, conn, chan, closer, declared,
                   callVars, stopVars>>

ConsumerMarksDead(k) ==
    /\ k.at = "marking"
    /\ dead' = [dead EXCEPT ![k.sub] = k.conn]
    /\ Moves(k, "dead")
    /\ UNCHANGED <<handle, stopCh, runCtx, exchanges, subs, startVars, dialVars, ctxVars,
                   conn, chan, closer, declared, callVars, stopVars>>

-----------------------------------------------------------------------------
(* The environment: the supervisor's context and the broker.               *)

SupervisorCancels ==
    /\ run # 0 /\ run \notin cancelled
    /\ cancelled' = cancelled \cup {run}
    /\ UNCHANGED <<fieldVars, startVars, dialVars, runDone, stopClosed, amqpVars, callVars, stopVars>>

BrokerDrops(r) ==
    /\ conn[r] = "open"
    /\ CloseBoth(r, "broker")
    /\ UNCHANGED <<fieldVars, startVars, dialVars, ctxVars, declared, consumers, callVars, stopVars>>

BrokerCancelsConsumer(k) ==
    /\ ~DeliveriesEnded(k) /\ k.at = "running"
    /\ consumers' = (consumers \ {k}) \cup {[k EXCEPT !.cut = TRUE]}
    /\ UNCHANGED <<fieldVars, startVars, dialVars, ctxVars, conn, chan, closer, declared,
                   callVars, stopVars>>

-----------------------------------------------------------------------------
StartStep ==
    \/ StartCancelledInDial \/ StartDialTimesOut \/ StartDialDone
    \/ StartInstalls \/ StartOpenFails
    \/ StartCopiesExchanges \/ StartDeclares \/ StartDeclareFails
    \/ StartCopiesSubs \/ StartResetsDead \/ StartBinds \/ StartBindFails
    \/ StartClosesFailedRun \/ StartWakes \/ StartEnds

StopStep(p) == StopCancelsRun(p) \/ StopSelects(p) \/ StopSignals(p) \/ StopCloses(p)

CallStep(c) == ReadsHandle(c) \/ DefersToStart(c) \/ AppliesLive(c) \/ RejectedLive(c)

ConsumerStep(k) == ConsumerStops(k) \/ ConsumerSeesClose(k) \/ ConsumerMarksDead(k)

Next ==
    \/ StartBegins \/ StartStep \/ SupervisorCancels
    \/ \E r \in Runs : DialReturns(r) \/ DrainDial(r) \/ BrokerDrops(r)
    \/ \E p \in Stoppers : StopTakes(p) \/ StopStep(p)
    \/ \E c \in Calls : Register(c) \/ CallStep(c)
    \/ \E k \in consumers : ConsumerStep(k) \/ BrokerCancelsConsumer(k)

Spec == Init /\ [][Next]_vars

(* The scheduler runs every goroutine that can run, and a dial ends at its *)
(* own time-out.  Nothing obliges anybody to call Start, Stop or Subscribe,*)
(* to cancel the context, or the broker to fail.                           *)
Fairness ==
    /\ WF_vars(StartStep)
    /\ \A r \in Runs : WF_vars(DialReturns(r)) /\ WF_vars(DrainDial(r))
    /\ \A p \in Stoppers : WF_vars(StopStep(p))
    /\ \A c \in Calls : WF_vars(CallStep(c))
    /\ \A r \in Runs : WF_vars(\E k \in consumers : k.ctx = r /\ ConsumerStep(k))

FairSpec == Spec /\ Fairness

-----------------------------------------------------------------------------
(* Health, lines 483-504.                                                  *)
Healthy ==
    /\ \A s \in Subs : dead[s] = Nil
    /\ handle # Nil
    /\ conn[handle] = "open" /\ chan[handle] = "open"

-----------------------------------------------------------------------------
(* Safety.                                                                 *)

\* While a run serves over an open channel, every registration whose call returned
\* nil has been applied to this very run, by Start or by the call itself, whichever
\* way the two raced: an exchange was declared on its channel, a subscription was
\* bound on its channel under its context.  A consumer that has died or was cut
\* since counts as bound; of those, StartBoundDeathVisible speaks.
TopologyRestored ==
    start = "serving" /\ ~CtxDone(run) /\ handle = run /\ chan[run] = "open" =>
        \A c \in Calls : call[c] = "returned" =>
            \/ c \in Exchs /\ c \in declared[run]
            \/ \E k \in consumers : k.sub = c /\ k.conn = run /\ k.ctx = run

\* Stop never makes a consumer report itself dead: it cancels the run context
\* before it closes the channel, so a consumer whose deliveries Stop ended finds
\* its context done (the comment at lines 438-441).
StopNeverMarksDead ==
    \A k \in consumers : k.at = "marking" => k.cut \/ closer[k.conn] # "stop"

\* Two calls of Stop, or Stop and a restart, never close one stopCh twice,
\* which would panic: the select that guards close is not atomic with it.
NoDoubleClose ==
    \A p \in Stoppers : stop[p] = "signalling" => took[p].stopCh \notin stopClosed

\* Start returns nil, which tells the supervisor the run ended as asked, only
\* when it was asked: its context is cancelled or a Stop took its stopCh.
Took(p, r) == stop[p] # "idle" /\ took[p].stopCh = r
Asked(r) == r \in cancelled \/ \E p \in Stoppers : Took(p, r)

NilOnlyWhenAsked == \A r \in Runs : result[r] = "nil" => Asked(r)

\* A consumer that Start bound and that ended while its run still goes on is
\* reported: Health cannot call that run healthy.
StartBoundDeathVisible ==
    start = "serving" =>
        \A k \in consumers :
            k.by = "start" /\ k.ctx = run /\ k.at = "dead" /\ ~CtxDone(run) => ~Healthy

(* What NoDoubleClose and NilOnlyWhenAsked rest on: a stop channel is held *)
(* by the component or by one Stop, and only that Stop may close it.       *)
StopChannels ==
    /\ PreClosed \in stopClosed
    /\ \A c \in stopClosed : c = PreClosed \/ \E p \in Stoppers : Took(p, c)
    /\ stopCh # PreClosed => stopCh <= run /\ stopCh \notin stopClosed
    /\ \A p \in Stoppers : stop[p] # "idle" /\ took[p].stopCh # PreClosed =>
           /\ took[p].stopCh <= run
           /\ took[p].stopCh # stopCh
           /\ \A q \in Stoppers \ {p} : ~Took(q, took[p].stopCh)

EndingAsked == start = "ending" => Asked(run)

StopInv == TypeOK /\ StopChannels /\ NoDoubleClose /\ EndingAsked /\ NilOnlyWhenAsked

-----------------------------------------------------------------------------
(* The contract with the supervisor.                                       *)

Contract == INSTANCE SupervisedComponent WITH
    MayCrash <- FALSE,
    MayInterrupt <- FALSE,
    phase    <- CASE start = "down" -> "down"
                  [] start \in {"serving", "ending"} -> "ready"
                  [] OTHER -> "starting",
    asked    <- Asked(run),
    outcome  <- IF start = "down" /\ run # 0 THEN result[run] ELSE "none"

\* The component behaves as a supervised component: Start returns nil only when
\* asked, whatever it was doing then, and fails only before ready().
KeepsContract == Contract!Spec

-----------------------------------------------------------------------------
(* Liveness, under Fairness.                                               *)

\* A run that its context or a Stop asks to end returns, at whatever point of
\* Start the request finds it.
AskedRunsEnd == Contract!Answers

\* A consumer goroutine does not outlive the run it belongs to, also when it
\* was started by a Subscribe that raced the end of the run.
ConsumersEnd ==
    \A r \in Runs :
        (result[r] = "nil") ~>
            (\A k \in consumers : k.ctx = r => k.at = "dead")

\* A dial abandoned because the context was cancelled leaves no connection.
AbandonedDialClosed ==
    \A r \in Runs : (r \in drained) ~> (conn[r] # "open" /\ dial[r] # "pending")

-----------------------------------------------------------------------------
(* What comments and documents say and the code does not do.               *)

\* rabbitmq.go:300-302: the dial goroutine "can close the connection cleanly if
\* we bail early".  Any run that returned without installing its connection
\* ends with that connection closed.
BailedDialClosed ==
    \A r \in Runs :
        (result[r] # "none" /\ chan[r] = "none") ~> (dial[r] # "pending" /\ conn[r] # "open")

\* rabbitmq.go:183-184: deadConsumers "is reset on every Start so a supervisor
\* restart clears the condition".  What a serving run reports is about itself.
RestartClearsDead ==
    start = "serving" => \A s \in Subs : dead[s] \in {Nil, run}

\* rabbitmq.go:478-482: Health fails "if any consumer goroutine has died while
\* the component is still running".  Every consumer of the serving run, the
\* ones Subscribe bound included.
DeathVisible ==
    start = "serving" =>
        \A k \in consumers : k.ctx = run /\ k.at = "dead" /\ ~CtxDone(run) => ~Healthy

=============================================================================
