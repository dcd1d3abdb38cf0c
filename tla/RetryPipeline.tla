---------------------------- MODULE RetryPipeline ----------------------------
(***************************************************************************)
(* The way of a message through one subscription of rabbitmq.Component:    *)
(* the consumer goroutine of bindAndConsume, handleFailure, republish and  *)
(* publish, against the work queue, the retry queue and the dead-letter    *)
(* queue, while connections break and the component stops and restarts.    *)
(*                                                                         *)
(* Publishing and acknowledging put frames on the wire of a channel, which *)
(* the broker reads in order; a broken connection loses what is on its     *)
(* wire and returns to the work queue what was not acknowledged.  Run r of *)
(* the component has channel r and consumer goroutine r.                   *)
(***************************************************************************)
EXTENDS Integers, Sequences

CONSTANTS Msgs,      (* messages                                           *)
          Policies,  (* retry policies the subscription may be given       *)
          Stamps,    (* x-retry-count the messages may carry when they are *)
                     (* published, 0 for none: a set for each policy       *)
          Tick,      (* ticks in a millisecond: a million in the code      *)
          MaxRuns,   (* bound: runs of the component                       *)
          MaxCopies, (* bound: copies of messages that exist at once       *)
          Starts     (* bound: how often it starts, for each policy        *)

ASSUME Assumption ==
    /\ MaxRuns \in Nat \ {0} /\ MaxCopies \in Nat \ {0}
    /\ \A p \in Policies : Starts[p] \in 1..MaxRuns

\* retryCount takes any number, negative ones too.  republish writes an int32,
\* which the counts that follow stay within when the first and the limit are.
MaxInt32 == 2147483647
ASSUME PolicyAssumption ==
    /\ Tick \in Nat \ {0}
    /\ \A p \in Policies :
           /\ p.retry \in BOOLEAN /\ p.maxRetries \in Int /\ p.maxRetries <= MaxInt32
           /\ p.backoff \in Int /\ p.multiplier \in Int /\ p.maxBackoff \in Int
           /\ Stamps[p] \subseteq (-MaxInt32)..MaxInt32

Runs == 1..MaxRuns
Nil  == 0
Ids  == 1..MaxCopies

-----------------------------------------------------------------------------
(* RetryPolicy.  Durations are whole ticks; the multiplier, a float in the *)
(* code, is given in tenths.                                               *)

MaxRetries(p) == CASE p.maxRetries = 0 -> 3
                   [] p.maxRetries < 0 -> 0
                   [] p.maxRetries > 0 -> p.maxRetries

Base(p)   == IF p.backoff <= 0 THEN 1000 * Tick ELSE p.backoff
Tenths(p) == CASE p.multiplier = 0 -> 20
               [] p.multiplier # 0 /\ p.multiplier < 10 -> 10
               [] p.multiplier >= 10 -> p.multiplier
Cap(p)    == IF p.maxBackoff <= 0 THEN 300000 * Tick ELSE p.maxBackoff

\* One round of the loop, on a delay of num / den ticks.  It returns the
\* cap once that is reached; a further round would leave the cap as it is.
Round(p, d) ==
    IF d.num * Tenths(p) >= Cap(p) * (d.den * 10)
    THEN [num |-> Cap(p), den |-> 1]
    ELSE [num |-> d.num * Tenths(p), den |-> d.den * 10]

\* The delay after n rounds.
Rounds(p) ==
    LET after[n \in Nat] == IF n = 0 THEN [num |-> Base(p), den |-> 1]
                            ELSE Round(p, after[n - 1])
    IN  after

\* The loop does not run for the first retry, nor for one of a negative count.
Backoff(p, attempt) ==
    LET d     == Rounds(p)[IF attempt < 1 THEN 0 ELSE attempt - 1]
        ticks == d.num \div d.den
    IN  IF ticks > Cap(p) THEN Cap(p) ELSE ticks

\* The expiration of a message: whole milliseconds, so that a delay below one is
\* sent as 0, and the message leaves the retry queue at once; without one it
\* stays there.
Expiration(p, attempt) == Backoff(p, attempt) \div Tick
NoExpiration == -1

-----------------------------------------------------------------------------
VARIABLES
    policy,     \* the subscription's RetryPolicy
    stamp,      \* the x-retry-count each message is published with
    sent,       \* messages published
    handle,     \* c.ch
    run,        \* the current, or last, run of Start
    cancelled,  \* runs whose context is done
    stopping,   \* channels a Stop has taken and not closed yet
    chan,       \* state of each channel
    wire,       \* frames sent on each channel and not read by the broker
    copies,     \* the copies of messages that exist
    cons,       \* what each consumer goroutine is doing
    fails,      \* handler errors of each message, up to MaxFails(m)
    done,       \* messages a handler accepted
    dropped,    \* messages a handler answered with ErrDropToDLX
    dead,       \* messages a copy of which is in the dead-letter queue
    lost        \* messages a copy of which was lost with a channel other than
                \* the one its original was delivered on

lifeVars  == <<handle, run, cancelled, stopping>>
tallyVars == <<fails, done, dropped>>
vars == <<policy, stamp, sent, lifeVars, chan, wire, copies, cons, tallyVars, dead, lost>>

\* The retries the policy leaves a message, above the count it is published with.
\* Bound: the count of handler errors saturates above all it is compared with.
RetriesLeft(m) ==
    IF stamp[m] > MaxRetries(policy) THEN 0 ELSE MaxRetries(policy) - stamp[m]
MaxFails(m) == RetriesLeft(m) + 2

\* A copy of a message: in the work queue, sent to a consumer, held by its
\* goroutine, on its way to the other two queues or in the retry queue.  exp is
\* the expiration it has in the retry queue or has had there; on the channel it
\* travels or waits on; origin the channel of the delivery it was
\* republished from, Nil for a publisher's copy.
Copy == [msg : Msgs, hdr : Int, exp : Nat \cup {NoExpiration}, origin : 0..MaxRuns, on : 0..MaxRuns,
         at : {"work", "delivered", "held", "toRetry", "toDLQ", "retry"}]
Free == [at |-> "free"]

Frame == [kind : {"publish", "ack", "requeue", "discard"}, copy : Ids]

\* A goroutine, the delivery it works on and the channel it publishes over.
Goroutine == [at : {"none", "idle", "handling", "retrying", "deadLettering",
                    "sendingRetry", "sendingDLQ", "acking", "requeueing", "discarding"},
              id : 0..MaxCopies, d : Copy \cup {Free}, over : 0..MaxRuns]

Gone == [at |-> "none", id |-> 0, d |-> Free, over |-> Nil]
Idle == [Gone EXCEPT !.at = "idle"]

TypeOK ==
    /\ policy \in Policies
    /\ stamp \in [Msgs -> Stamps[policy]] /\ sent \subseteq Msgs
    /\ handle \in 0..MaxRuns /\ run \in 0..MaxRuns
    /\ cancelled \subseteq Runs /\ stopping \subseteq Runs
    /\ chan \in [Runs -> {"none", "open", "closed"}]
    /\ wire \in [Runs -> Seq(Frame)]
    /\ copies \in [Ids -> Copy \cup {Free}]
    /\ cons \in [Runs -> Goroutine]
    /\ fails \in [Msgs -> Nat]
    /\ done \subseteq Msgs /\ dropped \subseteq Msgs
    /\ dead \subseteq Msgs /\ lost \subseteq Msgs

Init ==
    /\ policy \in Policies
    /\ stamp \in [Msgs -> Stamps[policy]] /\ sent = {}
    /\ handle = Nil /\ run = 0 /\ cancelled = {} /\ stopping = {}
    /\ chan = [r \in Runs |-> "none"]
    /\ wire = [r \in Runs |-> <<>>]
    /\ copies = [c \in Ids |-> Free]
    /\ cons = [r \in Runs |-> Gone]
    /\ fails = [m \in Msgs |-> 0]
    /\ done = {} /\ dropped = {} /\ dead = {} /\ lost = {}

-----------------------------------------------------------------------------
(* The broker and the publisher: external.                                 *)

FreshId == CHOOSE c \in Ids : /\ copies[c] = Free
                             /\ \A b \in Ids : copies[b] = Free => c <= b
SomeFree == \E c \in Ids : copies[c] = Free

PublisherSends(m) ==
    /\ m \notin sent /\ SomeFree
    /\ sent' = sent \cup {m}
    /\ copies' = [copies EXCEPT ![FreshId] =
          [msg |-> m, hdr |-> stamp[m], exp |-> NoExpiration,
           origin |-> Nil, on |-> Nil, at |-> "work"]]
    /\ UNCHANGED <<policy, stamp, lifeVars, chan, wire, cons, tallyVars, dead, lost>>

Delivers(c) ==
    /\ copies[c].at = "work"
    /\ \E r \in Runs :
           /\ chan[r] = "open"
           /\ copies' = [copies EXCEPT ![c].at = "delivered", ![c].on = r]
    /\ UNCHANGED <<policy, stamp, sent, lifeVars, chan, wire, cons, tallyVars, dead, lost>>

\* The broker reads the next frame of channel r.
BrokerReads(r) ==
    /\ wire[r] # <<>>
    /\ LET f == Head(wire[r])
           c == copies[f.copy]
       IN  /\ copies' = [copies EXCEPT ![f.copy] =
                 CASE f.kind = "publish" /\ c.at = "toRetry" -> [c EXCEPT !.on = Nil, !.at = "retry"]
                   [] f.kind = "requeue" -> [c EXCEPT !.on = Nil, !.at = "work"]
                   [] OTHER -> Free]
           /\ dead' = IF f.kind = "publish" /\ c.at = "toDLQ" THEN dead \cup {c.msg} ELSE dead
    /\ wire' = [wire EXCEPT ![r] = Tail(@)]
    /\ UNCHANGED <<policy, stamp, sent, lifeVars, chan, cons, tallyVars, lost>>

\* The time-to-live of a copy in the retry queue is over; then is what becomes of
\* it.
ExpiresTo(c, then) ==
    /\ copies[c].at = "retry" /\ copies[c].exp # NoExpiration
    /\ copies' = [copies EXCEPT ![c] = then]
    /\ UNCHANGED <<policy, stamp, sent, lifeVars, chan, wire, cons, tallyVars, dead, lost>>

\* Bug: the retry queue is declared without its dead-letter arguments.
ExpiresAway(c) == ExpiresTo(c, Free)

\* x-dead-letter-exchange and x-dead-letter-routing-key bring it back to the work
\* queue.
Expires(c) == ExpiresTo(c, [copies[c] EXCEPT !.at = "work"])

\* Channel r is gone, and its wire with it; unacknowledged deliveries return to
\* the work queue.
Closes(r) ==
    /\ chan' = [chan EXCEPT ![r] = "closed"]
    /\ wire' = [wire EXCEPT ![r] = <<>>]
    /\ copies' = [c \in Ids |->
          CASE copies[c].at \in {"delivered", "held"} /\ copies[c].on = r ->
                 [copies[c] EXCEPT !.at = "work", !.on = Nil]
            [] copies[c].at \in {"toRetry", "toDLQ"} /\ copies[c].on = r -> Free
            [] OTHER -> copies[c]]
    /\ lost' = lost \cup {copies[c].msg : c \in {b \in Ids :
          copies[b].at \in {"toRetry", "toDLQ"} /\ copies[b].on = r /\ copies[b].origin # r}}

Drops(r) ==
    /\ chan[r] = "open"
    /\ Closes(r)
    /\ UNCHANGED <<policy, stamp, sent, lifeVars, cons, tallyVars, dead>>

-----------------------------------------------------------------------------
(* Start and Stop, as far as messages can tell.                            *)

\* A new channel is published in c.ch and its consumer is bound.  Whether Stop
\* ended the previous run, or only its context was cancelled, is left open.
Installs ==
    /\ run < Starts[policy] /\ (run # 0 => run \in cancelled)
    /\ run' = run + 1 /\ handle' = run + 1
    /\ chan' = [chan EXCEPT ![run + 1] = "open"]
    /\ cons' = [cons EXCEPT ![run + 1] = Idle]
    /\ UNCHANGED <<policy, stamp, sent, cancelled, stopping, wire, copies, tallyVars, dead, lost>>

Cancels ==
    /\ run # 0 /\ run \notin cancelled
    /\ cancelled' = cancelled \cup {run}
    /\ UNCHANGED <<policy, stamp, sent, handle, run, stopping, chan, wire, copies, cons, tallyVars, dead, lost>>

\* Bug: Stop does not look whether there is a channel to close.
StopTakesAnything ==
    /\ run # 0
    /\ handle' = Nil
    /\ stopping' = stopping \cup {handle}
    /\ cancelled' = cancelled \cup {run}
    /\ UNCHANGED <<policy, stamp, sent, run, chan, wire, copies, cons, tallyVars, dead, lost>>

\* Stop takes the channel and cancels the run.
StopTakes ==
    /\ handle # Nil
    /\ handle' = Nil
    /\ stopping' = stopping \cup {handle}
    /\ cancelled' = cancelled \cup {run}
    /\ UNCHANGED <<policy, stamp, sent, run, chan, wire, copies, cons, tallyVars, dead, lost>>

\* Its goroutine closes the channel, which the broker does after what is on the
\* wire: maybe long after Stop gave up waiting, and the next run has begun.
StopCloses(r) ==
    /\ r \in stopping
    /\ stopping' = stopping \ {r}
    /\ \/ chan[r] = "open" /\ wire[r] = <<>> /\ Closes(r)
       \/ chan[r] = "closed" /\ UNCHANGED <<chan, wire, copies, lost>>
    /\ UNCHANGED <<policy, stamp, sent, handle, run, cancelled, cons, tallyVars, dead>>

-----------------------------------------------------------------------------
(* The consumer goroutine of run r.                                        *)

Turns(r, to) == cons' = [cons EXCEPT ![r].at = to]

Takes(r, c) ==
    /\ cons[r].at = "idle"
    /\ copies[c].at = "delivered" /\ copies[c].on = r
    /\ cons' = [cons EXCEPT ![r] = [at |-> "handling", id |-> c, d |-> copies[c], over |-> Nil]]
    /\ copies' = [copies EXCEPT ![c].at = "held"]
    /\ UNCHANGED <<policy, stamp, sent, lifeVars, chan, wire, tallyVars, dead, lost>>

\* The goroutine returns: its context is done, or its deliveries have ended.
Exits(r) ==
    /\ cons[r].at = "idle"
    /\ r \in cancelled \/ chan[r] = "closed"
    /\ cons' = [cons EXCEPT ![r] = Gone]
    /\ UNCHANGED <<policy, stamp, sent, lifeVars, chan, wire, copies, tallyVars, dead, lost>>

HandlerAccepts(r) ==
    /\ cons[r].at = "handling"
    /\ done' = done \cup {cons[r].d.msg}
    /\ Turns(r, "acking")
    /\ UNCHANGED <<policy, stamp, sent, lifeVars, chan, wire, copies, fails, dropped, dead, lost>>

\* handleFailure, for an error that is not ErrDropToDLX; last says for which
\* retry count the message has had its retries.
HandlerFailsWhen(r, last) ==
    /\ cons[r].at = "handling"
    /\ fails' = [fails EXCEPT ![cons[r].d.msg] =
          IF @ < MaxFails(cons[r].d.msg) THEN @ + 1 ELSE @]
    /\ \/ ~policy.retry /\ Turns(r, "requeueing")
       \/ policy.retry /\ last /\ Turns(r, "deadLettering")
       \/ policy.retry /\ ~last /\ Turns(r, "retrying")
    /\ UNCHANGED <<policy, stamp, sent, lifeVars, chan, wire, copies, done, dropped, dead, lost>>

\* Bugs: one retry too few, one too many.
FailsEarly(r) == HandlerFailsWhen(r, cons[r].d.hdr + 1 >= MaxRetries(policy))
FailsLate(r) == HandlerFailsWhen(r, cons[r].d.hdr > MaxRetries(policy))

HandlerFails(r) == HandlerFailsWhen(r, cons[r].d.hdr >= MaxRetries(policy))

\* handleFailure, for ErrDropToDLX.
HandlerDrops(r) ==
    /\ cons[r].at = "handling"
    /\ dropped' = dropped \cup {cons[r].d.msg}
    /\ Turns(r, IF policy.retry THEN "deadLettering" ELSE "discarding")
    /\ UNCHANGED <<policy, stamp, sent, lifeVars, chan, wire, copies, fails, done, dead, lost>>

\* publish reads c.ch, which need not be the channel of the delivery.
ReadsChannel(r) ==
    /\ cons[r].at \in {"retrying", "deadLettering"}
    /\ IF handle = Nil \/ (handle # Nil /\ chan[handle] = "closed")
       THEN Turns(r, "requeueing")
       ELSE cons' = [cons EXCEPT ![r].over = handle,
                        ![r].at = IF @ = "retrying" THEN "sendingRetry" ELSE "sendingDLQ"]
    /\ UNCHANGED <<policy, stamp, sent, lifeVars, chan, wire, copies, tallyVars, dead, lost>>

\* Bug: the first retry is sent without an expiration.
RetryCopyFirstAtOnce(r, hdr) ==
    [msg |-> cons[r].d.msg, hdr |-> hdr,
     exp |-> IF hdr > 1 THEN Expiration(policy, cons[r].d.hdr + 1) ELSE NoExpiration,
     origin |-> r, on |-> cons[r].over, at |-> "toRetry"]

\* What republish sends: retry copies count one more retry and carry a delay.
RetryCopy(r, hdr) ==
    [msg |-> cons[r].d.msg, hdr |-> hdr, exp |-> Expiration(policy, cons[r].d.hdr + 1),
     origin |-> r, on |-> cons[r].over, at |-> "toRetry"]
DeadCopy(r) ==
    [msg |-> cons[r].d.msg, hdr |-> cons[r].d.hdr, exp |-> NoExpiration,
     origin |-> r, on |-> cons[r].over, at |-> "toDLQ"]

\* PublishWithContext, with the copy it sends for a retry, and what the
\* goroutine does when it fails: its channel is closed, or its context is done,
\* which the AMQP client may or may not look at.
Publishes(r, retryCopy, onError) ==
    /\ cons[r].at \in {"sendingRetry", "sendingDLQ"}
    /\ \/ /\ chan[cons[r].over] = "open" /\ SomeFree
          /\ copies' = [copies EXCEPT ![FreshId] =
                IF cons[r].at = "sendingRetry" THEN retryCopy ELSE DeadCopy(r)]
          /\ wire' = [wire EXCEPT ![cons[r].over] =
                Append(@, [kind |-> "publish", copy |-> FreshId])]
          /\ Turns(r, "acking")
       \/ /\ chan[cons[r].over] = "closed" \/ r \in cancelled
          /\ Turns(r, onError)
          /\ UNCHANGED <<copies, wire>>
    /\ UNCHANGED <<policy, stamp, sent, lifeVars, chan, tallyVars, dead, lost>>

\* Bug: a failed publish is acked too.
RepublishesOrAcks(r) == Publishes(r, RetryCopy(r, cons[r].d.hdr + 1), "acking")

Republishes(r) == Publishes(r, RetryCopy(r, cons[r].d.hdr + 1), "requeueing")

\* Ack or Nack, on the channel of the delivery; on a closed one it only fails.
Answers(r) ==
    /\ cons[r].at \in {"acking", "requeueing", "discarding"}
    /\ IF chan[r] = "open"
       THEN wire' = [wire EXCEPT ![r] = Append(@,
              [kind |-> CASE cons[r].at = "acking" -> "ack"
                          [] cons[r].at = "requeueing" -> "requeue"
                          [] cons[r].at = "discarding" -> "discard",
               copy |-> cons[r].id])]
       ELSE UNCHANGED wire
    /\ cons' = [cons EXCEPT ![r] = Idle]
    /\ UNCHANGED <<policy, stamp, sent, lifeVars, chan, copies, tallyVars, dead, lost>>

-----------------------------------------------------------------------------
ConsumerStep(r) ==
    \/ \E c \in Ids : Takes(r, c)
    \/ HandlerAccepts(r) \/ HandlerFails(r) \/ HandlerDrops(r)
    \/ ReadsChannel(r) \/ Republishes(r) \/ Answers(r) \/ Exits(r)

BrokerStep ==
    \/ \E c \in Ids : Delivers(c) \/ Expires(c)
    \/ \E r \in Runs : BrokerReads(r)

Next ==
    \/ \E m \in Msgs : PublisherSends(m)
    \/ Installs \/ Cancels \/ StopTakes
    \/ BrokerStep
    \/ \E r \in Runs : ConsumerStep(r) \/ StopCloses(r) \/ Drops(r)

Spec == Init /\ [][Next]_vars

(* Goroutines run and handlers return; the broker reads, delivers and      *)
(* expires.  Nobody has to publish, start, stop, cancel or break anything. *)
Fairness ==
    /\ \A r \in Runs : WF_vars(ConsumerStep(r)) /\ WF_vars(StopCloses(r)) /\ WF_vars(BrokerReads(r))
    /\ \A c \in Ids : WF_vars(Delivers(c)) /\ WF_vars(Expires(c))

FairSpec == Spec /\ Fairness

-----------------------------------------------------------------------------
(* Safety.                                                                 *)

Sent(m) == m \in sent
AtBroker(m) == \E c \in Ids : /\ copies[c].at \notin {"free", "toRetry", "toDLQ"}
                             /\ copies[c].msg = m
OnWire(m) == \E c \in Ids : copies[c].at \in {"toRetry", "toDLQ"} /\ copies[c].msg = m
Crossing(m) == \E c \in Ids : /\ copies[c].at \in {"toRetry", "toDLQ"}
                             /\ copies[c].msg = m /\ copies[c].origin # copies[c].on
Finished(m) == m \in done \cup dead \/ (m \in dropped /\ ~policy.retry)

\* Until a handler accepts it, a message is in one of the three queues or
\* unacknowledged: the copy is sent before the original is acknowledged, and both
\* go the same way, except when the component restarted while the handler ran
\* and the copy went over the new channel.
KeptOnOneChannel ==
    \A m \in Msgs : Sent(m) => Finished(m) \/ AtBroker(m) \/ Crossing(m) \/ m \in lost

\* A message reaches the dead-letter queue when a handler asked for it, or after
\* MaxRetries retries failed, duplicates and redeliveries included
\* (RetryPolicy, lines 74-76).
DeadLettersEarned ==
    \A m \in dead : m \in dropped \/ stamp[m] + fails[m] > MaxRetries(policy)

\* As long as nothing broke or restarted, a handler fails on a message once and
\* then at most as many times as the policy has retries left above the count the
\* message was published with.
Undisturbed == run <= 1 /\ cancelled = {} /\ \A r \in Runs : chan[r] # "closed"
RetriesBounded ==
    Undisturbed /\ policy.retry => \A m \in Msgs : fails[m] <= RetriesLeft(m) + 1

\* A copy on its way to or in the retry queue counts a retry that the policy
\* allows and that was not made before the message was published.  It carries an
\* expiration, without which it would stay there for ever: one within the cap, and
\* not 0 when the policy's durations are a millisecond or more.  A copy with more
\* retries than another does not wait, or has not waited, shorter than that.
RetryCopiesDelayed ==
    /\ \A c \in Ids : copies[c].at \in {"toRetry", "retry"} =>
           /\ copies[c].hdr \in (stamp[copies[c].msg] + 1)..MaxRetries(policy)
           /\ copies[c].exp \in 0..(Cap(policy) \div Tick)
           /\ Tick <= Base(policy) /\ Tick <= Cap(policy) => copies[c].exp # 0
    /\ \A b, c \in {i \in Ids : copies[i] # Free /\ copies[i].exp # NoExpiration} :
           copies[b].hdr <= copies[c].hdr => copies[b].exp <= copies[c].exp

-----------------------------------------------------------------------------
(* Liveness, under Fairness.                                               *)

\* Once one run goes on undisturbed and no other channel is left open, every
\* message sent is accepted or dead-lettered in the end, except one a copy of
\* which was lost on its way over another channel than its original's (see
\* KeptOnOneChannel).
Stable == /\ run # 0 /\ handle = run /\ run \notin cancelled
          /\ \A r \in Runs : chan[r] = "open" <=> r = run
Settles ==
    policy.retry /\ <>[]Stable =>
        \A m \in Msgs : [](m \notin lost) => (Sent(m) ~> m \in done \cup dead)

-----------------------------------------------------------------------------
(* What the documentation says and the code does not do.                   *)

\* rabbitmq/README.md:115-116: "If the republish itself fails, the message is
\* nacked with requeue so nothing is lost."
NothingLost == \A m \in Msgs : Sent(m) => Finished(m) \/ AtBroker(m) \/ OnWire(m)

=============================================================================
