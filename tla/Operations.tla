------------------------------ MODULE Operations ------------------------------
(***************************************************************************)
(* Calls of the operations a component offers over its driver handle: the  *)
(* KV interface of redis, the DB interfaces of postgresql and sqlite, the  *)
(* Storage interface of s3, Publish of rabbitmq, and Health.  Start and    *)
(* Stop change the handle meanwhile, as HandleSlot says, and other clients *)
(* of the server add and remove keys.                                      *)
(*                                                                         *)
(* A caller makes one call.  What other calls do to the keys is what other *)
(* clients do.                                                             *)
(***************************************************************************)
EXTENDS HandleSlot, FiniteSets

CONSTANTS Callers,     (* calls                                            *)
          Keys,        (* the keys that match the pattern, or the prefix   *)
          MaxDelete    (* keys the S3 API takes in one DeleteObjects       *)

-----------------------------------------------------------------------------
(* Operations.  gate says where the missing handle is seen: ahead of the   *)
(* clock, inside what is timed, in a Health nobody measures, or nowhere.   *)
(* replies are the errors a call with a handle may end with: "ok", the     *)
(* "nothing" of a missing key or row, one of the "driver", that of a       *)
(* "malformed" request, and, out of the caller's own callback, body or     *)
(* cause, "callback" or a "foreign" ErrNotReady.                           *)

Op(form, gate, replies) == [form |-> form, gate |-> gate, replies |-> replies]

RedisSet      == Op("command", "ahead", {"ok", "driver"})
RedisSetNX    == Op("command", "ahead", {"ok", "driver"})
RedisGet      == Op("command", "ahead", {"ok", "nothing", "driver"})
RedisNumbers  == Op("command", "ahead", {"ok", "driver"})
RedisScan     == Op("listing", "ahead", {"ok", "driver"})
RedisScanFunc == Op("scanning", "ahead", {"ok", "driver", "callback", "foreign"})

PgSelect   == Op("command", "ahead", {"ok", "driver"})
PgGet      == Op("command", "ahead", {"ok", "nothing", "driver"})
PgExec     == Op("command", "ahead", {"ok", "driver"})
PgCommitTx == Op("commit", "none", {"ok", "driver", "callback", "foreign"})

SqliteSelect   == Op("command", "ahead", {"ok", "driver"})
SqliteGet      == Op("command", "ahead", {"ok", "nothing", "driver"})
SqliteExec     == Op("command", "ahead", {"ok", "driver"})
SqliteCommitTx == Op("commit", "none", {"ok", "driver", "callback", "foreign"})

S3Upload         == Op("command", "inside", {"ok", "driver", "callback", "foreign"})
S3Download       == Op("command", "inside", {"ok", "driver"})
S3Delete         == Op("command", "inside", {"ok", "driver"})
S3ListKeys       == Op("listing", "inside", {"ok", "driver"})
S3DeleteByPrefix == Op("deleting", "inside", {"ok", "driver"})
S3Presign        == Op("local", "inside", {"ok", "driver"})
S3Malformed      == {Op(form, "inside", {"malformed"}) : form \in {"command", "local", "listing", "deleting"}}

RabbitPublish == Op("publish", "inside", {"ok", "driver"})

RedisHealth      == Op("command", "unmeasured", {"ok", "driver"})
PgHealth         == Op("command", "unmeasured", {"ok", "driver"})
SqliteHealth     == Op("command", "unmeasured", {"ok", "driver"})
S3Health         == Op("command", "unmeasured", {"ok", "driver"})
GrpcClientHealth == Op("command", "unmeasured", {"ok", "driver"})

Ops ==
    {RedisSet, RedisSetNX, RedisGet, RedisNumbers, RedisScan, RedisScanFunc,
     PgSelect, PgGet, PgExec, PgCommitTx,
     SqliteSelect, SqliteGet, SqliteExec, SqliteCommitTx,
     S3Upload, S3Download, S3Delete, S3ListKeys, S3DeleteByPrefix, S3Presign,
     RabbitPublish,
     RedisHealth, PgHealth, SqliteHealth, S3Health, GrpcClientHealth}
    \cup S3Malformed

Errors == {"none", "ok", "nothing", "driver", "malformed", "notready", "callback", "foreign"}

-----------------------------------------------------------------------------
VARIABLES
    store,     \* the keys the server holds
    op,        \* what each caller calls
    at,        \* where the call is
    with,      \* the handle it read
    left,      \* the keys its iteration has not passed
    batch,     \* the keys of its page still to hand to the callback
    found,     \* the keys it has collected, or handed to the callback
    refused,   \* the keys the server refused to delete for it
    err,       \* what it returned
    report,    \* the duration it reported to OnOperation: "none", "zero" or "timed"
    tried,     \* calls that have called the driver
    stayed     \* history: keys the server has held since it began

callVars == <<op, at, with, left, batch, found, refused, err, report, tried>>
vars == <<slotVars, store, callVars, stayed>>

TypeOK ==
    /\ store \subseteq Keys
    /\ op \in [Callers -> Ops]
    /\ at \in [Callers -> {"idle", "fetching", "asking", "refetching", "paging", "calling", "listed", "done"}]
    /\ with \in [Callers -> 0..MaxRuns]
    /\ \A keys \in {left, batch, found, refused, stayed} : keys \in [Callers -> SUBSET Keys]
    /\ err \in [Callers -> Errors]
    /\ report \in [Callers -> {"none", "zero", "timed"}] /\ tried \subseteq Callers

Init ==
    /\ SlotInit
    /\ store \in SUBSET Keys
    /\ op \in [Callers -> Ops]
    /\ at = [c \in Callers |-> "idle"] /\ with = [c \in Callers |-> 0]
    /\ left = [c \in Callers |-> Keys] /\ batch = [c \in Callers |-> {}]
    /\ found = [c \in Callers |-> {}] /\ refused = [c \in Callers |-> {}]
    /\ err = [c \in Callers |-> "none"] /\ report = [c \in Callers |-> "none"]
    /\ tried = {}
    /\ stayed = [c \in Callers |-> {}]

Goes(c, from, to) == at[c] = from /\ at' = [at EXCEPT ![c] = to]

\* The store becomes kept, and nothing that is gone has stayed.
StoreBecomes(kept) ==
    /\ store' = kept
    /\ stayed' = [c \in Callers |-> stayed[c] \cap kept]

-----------------------------------------------------------------------------
(* observe, observeTx and observePublish.                                   *)

IsNotReady(e) == e \in {"notready", "foreign"}

\* The duration is zero where the missing handle is seen ahead of the clock, and
\* where ErrNotReady comes out of what is timed.
Zero(c, e) == IF op[c].gate = "inside" THEN IsNotReady(e) ELSE e = "notready"

Report(c, e) == CASE op[c].gate = "unmeasured" -> "none"
                  [] op[c].gate # "unmeasured" /\ Zero(c, e) -> "zero"
                  [] op[c].gate # "unmeasured" /\ ~Zero(c, e) -> "timed"

Returns(c, e) ==
    /\ at' = [at EXCEPT ![c] = "done"]
    /\ err' = [err EXCEPT ![c] = e]
    /\ report' = [report EXCEPT ![c] = Report(c, e)]

\* The call goes on.
GoesOn == UNCHANGED <<err, report>>

FirstStep(form) ==
    CASE form \in {"listing", "scanning"} -> "paging"
      [] form = "deleting" -> "refetching"
      [] OTHER -> "asking"

\* A call of CommitTx acts on its transaction and needs no handle.
Begins(c) ==
    /\ Goes(c, "idle", IF op[c].gate = "none" THEN "asking" ELSE "fetching")
    /\ stayed' = [stayed EXCEPT ![c] = store]
    /\ GoesOn
    /\ UNCHANGED <<slotVars, store, op, with, left, batch, found, refused, tried>>

\* The bucket, the key or the body is missing, which is seen after a missing handle.
Malformed(c) == op[c].replies = {"malformed"}

\* getClient, getPool, getDB, getEngine or getPresigner, under mu.
Fetches(c) ==
    /\ Goes(c, "fetching", FirstStep(op[c].form))
    /\ handle # 0
    /\ with' = [with EXCEPT ![c] = handle]
    /\ GoesOn
    /\ UNCHANGED <<slotVars, store, op, left, batch, found, refused, tried, stayed>>

\* listKeys reads the client once more, for DeleteByPrefix.
Refetches(c) ==
    /\ Goes(c, "refetching", "paging")
    /\ handle # 0 /\ ~Malformed(c)
    /\ GoesOn
    /\ UNCHANGED <<slotVars, store, op, with, left, batch, found, refused, tried, stayed>>

\* ErrNotReady: no handle, or an AMQP channel the broker has closed.
NoHandleAt(c, points) ==
    /\ at[c] \in points /\ ~(at[c] = "refetching" /\ Malformed(c))
    /\ handle = 0 \/ op[c].form = "publish"
    /\ Returns(c, "notready")
    /\ UNCHANGED <<slotVars, store, op, with, left, batch, found, refused, tried, stayed>>

\* Bugs: the second read of the client waits for one; every page reads it again.
WaitsForHandle(c) == NoHandleAt(c, {"fetching"})
ReadsForEveryPage(c) == NoHandleAt(c, {"fetching", "refetching", "paging"})

FindsNoHandle(c) == NoHandleAt(c, {"fetching", "refetching"})

\* The driver is called, and may send a request.
Tries(c) == tried' = tried \cup {c}

\* A Stop has closed the handle meanwhile; the client of s3 is never closed, and
\* then this is one of the requests that fail.
HandleClosed(c) == with[c] # 0 /\ driver[with[c]] = "closed" /\ op[c].form # "local"

Answers(c) ==
    /\ at[c] = "asking"
    /\ \E e \in op[c].replies :
        /\ HandleClosed(c) => e \notin {"ok", "nothing"}
        /\ Returns(c, e)
    /\ IF Malformed(c) THEN UNCHANGED tried ELSE Tries(c)
    /\ UNCHANGED <<slotVars, store, op, with, left, batch, found, refused, stayed>>

-----------------------------------------------------------------------------
(* SCAN and ListObjectsV2, page by page.                                   *)

Refuses(c) ==
    /\ at[c] \in {"refetching", "paging"} /\ Malformed(c)
    /\ Returns(c, "malformed")
    /\ UNCHANGED <<slotVars, store, op, with, left, batch, found, refused, tried, stayed>>

\* A page passes a part of the keys, of which the server may hold none, and leads
\* to the next until none is left.  last says whether the code takes it for the
\* last one.
PageOf(c, part, last) ==
    LET page == part \cap store IN
    /\ at[c] = "paging" /\ ~Malformed(c) /\ ~HandleClosed(c)
    /\ left' = [left EXCEPT ![c] = @ \ part]
    /\ IF op[c].form = "scanning"
       THEN /\ batch' = [batch EXCEPT ![c] = page]
            /\ at' = [at EXCEPT ![c] = "calling"]
            /\ UNCHANGED found
       ELSE /\ found' = [found EXCEPT ![c] = @ \cup page]
            /\ at' = [at EXCEPT ![c] = IF last THEN "listed" ELSE "paging"]
            /\ UNCHANGED batch
    /\ Tries(c) /\ GoesOn
    /\ UNCHANGED <<slotVars, store, op, with, refused, stayed>>

\* Bug: an empty page is taken for the last.
PageUntilEmpty(c, part) == PageOf(c, part, part = left[c] \/ part \cap store = {})

Page(c, part) == PageOf(c, part, part = left[c])

PageFails(c) ==
    /\ at[c] = "paging" /\ ~Malformed(c)
    /\ Tries(c) /\ Returns(c, "driver")
    /\ UNCHANGED <<slotVars, store, op, with, left, batch, found, refused, stayed>>

\* fn is called with the next key of the batch.
CallsBack(c) ==
    /\ at[c] = "calling"
    /\ \E k \in batch[c] :
        /\ batch' = [batch EXCEPT ![c] = @ \ {k}]
        /\ found' = [found EXCEPT ![c] = @ \cup {k}]
    /\ GoesOn
    /\ UNCHANGED <<slotVars, store, op, at, with, left, refused, tried, stayed>>

\* Its first error is what ScanFunc returns.
CallbackFails(c) ==
    /\ at[c] = "calling" /\ batch[c] # {}
    /\ \E e \in {"callback", "foreign"} : Returns(c, e)
    /\ UNCHANGED <<slotVars, store, op, with, left, batch, found, refused, tried, stayed>>

BatchEnds(c) ==
    /\ at[c] = "calling" /\ batch[c] = {}
    /\ IF left[c] = {} THEN Returns(c, "ok") ELSE Goes(c, "calling", "paging") /\ GoesOn
    /\ UNCHANGED <<slotVars, store, op, with, left, batch, found, refused, tried, stayed>>

\* Scan and ListKeys return the keys; DeleteByPrefix returns 0 if there are none.
ReturnsList(c) ==
    /\ at[c] = "listed"
    /\ op[c].form = "listing" \/ found[c] = {}
    /\ Returns(c, "ok")
    /\ UNCHANGED <<slotVars, store, op, with, left, batch, found, refused, tried, stayed>>

-----------------------------------------------------------------------------
(* DeleteObjects.                                                          *)

\* Quiet: the keys the server refuses to delete come back in the response, which
\* is not looked at.
Deletes(c, kept) ==
    /\ at[c] = "listed" /\ op[c].form = "deleting" /\ found[c] # {}
    /\ Cardinality(found[c]) <= MaxDelete
    /\ StoreBecomes(store \ (found[c] \ kept))
    /\ refused' = [refused EXCEPT ![c] = kept]
    /\ Returns(c, "ok")
    /\ UNCHANGED <<slotVars, op, with, left, batch, found, tried>>

\* The request fails, perhaps after the server has served it.
DeleteFails(c) ==
    /\ at[c] = "listed" /\ op[c].form = "deleting" /\ found[c] # {}
    /\ \E gone \in {{}, found[c]} : StoreBecomes(store \ gone)
    /\ Returns(c, "driver")
    /\ UNCHANGED <<slotVars, op, with, left, batch, found, refused, tried>>

-----------------------------------------------------------------------------
(* Other clients of the server.                                            *)

OthersChange ==
    /\ \E k \in Keys : StoreBecomes(store \ {k}) \/ StoreBecomes(store \cup {k})
    /\ UNCHANGED <<slotVars, callVars>>

-----------------------------------------------------------------------------
CallStep(c) ==
    \/ Fetches(c) \/ Refetches(c) \/ FindsNoHandle(c) \/ Answers(c)
    \/ Refuses(c) \/ PageFails(c) \/ \E part \in SUBSET left[c] \ {{}} : Page(c, part)
    \/ CallsBack(c) \/ CallbackFails(c) \/ BatchEnds(c)
    \/ ReturnsList(c) \/ DeleteFails(c) \/ \E kept \in SUBSET found[c] : Deletes(c, kept)

Next ==
    \/ \E c \in Callers : Begins(c) \/ CallStep(c)
    \/ OthersChange
    \/ SlotNext /\ UNCHANGED <<store, callVars, stayed>>

Spec == Init /\ [][Next]_vars

(* The goroutine of a caller runs, and a request ends, with its context at *)
(* the latest.                                                             *)
Fairness == \A c \in Callers : WF_vars(CallStep(c))

FairSpec == Spec /\ Fairness

-----------------------------------------------------------------------------
(* Safety.                                                                 *)

\* A call that returns the component's ErrNotReady, on its first or its second
\* read of the handle, has not called the driver: it may be made again, and its
\* zero duration says so (redis.go, lines 84-87, and the other modules).  A call
\* that was attempted is reported with a duration, Stop and Start coming between
\* its pages, too, unless the caller's own callback, body or cause is the ErrNotReady.
NotReadyUntried ==
    \A c \in Callers :
        /\ err[c] = "notready" => c \notin tried
        /\ report[c] = "zero" => c \notin tried \/ err[c] = "foreign"

\* Scan, ScanFunc, ListKeys: a key the server held during the whole call is seen,
\* in spite of empty pages, of keys that come and go, and of a handle that is
\* closed or replaced meanwhile.  DeleteByPrefix leaves such a key only if the
\* server refused to delete it.
NothingMissed ==
    \A c \in Callers : at[c] = "done" /\ err[c] = "ok" =>
        /\ op[c].form \in {"listing", "scanning"} => stayed[c] \subseteq found[c]
        /\ op[c].form = "deleting" => stayed[c] \subseteq refused[c]

-----------------------------------------------------------------------------
(* Liveness, under Fairness.                                               *)

\* A call returns, whatever Stop and Start do to the handle meanwhile.
CallsReturn == \A c \in Callers : (at[c] \notin {"idle", "done"}) ~> (at[c] = "done")

=============================================================================
