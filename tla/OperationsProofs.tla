--------------------------- MODULE OperationsProofs ---------------------------
(***************************************************************************)
(* Theorems about Operations for any calls, any keys and any limit of the  *)
(* S3 API, while the slot changes as HandleSlot says and other clients     *)
(* change the keys.                                                        *)
(***************************************************************************)
EXTENDS Operations, TLAPS

-----------------------------------------------------------------------------
(* Type correctness.                                                       *)

Steps  == {"idle", "fetching", "asking", "refetching", "paging", "calling", "listed", "done"}
Told   == {"none", "zero", "timed"}
KeySets == [Callers -> SUBSET Keys]

\* TypeOK, one variable at a time, without the handles.
CallTypes ==
    /\ store \subseteq Keys /\ op \in [Callers -> Ops] /\ at \in [Callers -> Steps]
    /\ left \in KeySets /\ batch \in KeySets /\ found \in KeySets
    /\ refused \in KeySets /\ stayed \in KeySets
    /\ err \in [Callers -> Errors] /\ report \in [Callers -> Told] /\ tried \subseteq Callers

HandleTypes == handle \in 0..MaxRuns /\ with \in [Callers -> 0..MaxRuns]

LEMMA TypesSuffice == CallTypes /\ HandleTypes => TypeOK
BY DEF CallTypes, HandleTypes, TypeOK, Steps, Told, KeySets

Iterating == {"listing", "scanning", "deleting"}

\* What the steps use of the operations: CommitTx, which needs no handle, lists
\* nothing.
LEMMA OpFacts ==
    \A o \in Ops : /\ o.replies \subseteq Errors \ {"notready"}
                   /\ o.gate = "none" => o.form \notin Iterating
<1> USE DEF Op, Errors, Iterating
<1>1. \A o \in S3Malformed : o.replies \subseteq Errors \ {"notready"} /\ o.gate # "none"
  BY DEF S3Malformed
<1>2. \A o \in Ops \ S3Malformed : /\ o.replies \subseteq Errors \ {"notready"}
                                   /\ o.gate = "none" => o.form \notin Iterating
  BY DEF Ops, RedisSet, RedisSetNX, RedisGet, RedisNumbers, RedisScan, RedisScanFunc,
     PgSelect, PgGet, PgExec, PgCommitTx, SqliteSelect, SqliteGet, SqliteExec, SqliteCommitTx,
     S3Upload, S3Download, S3Delete, S3ListKeys, S3DeleteByPrefix, S3Presign, RabbitPublish,
     RedisHealth, PgHealth, SqliteHealth, S3Health, GrpcClientHealth
<1> QED
  BY <1>1, <1>2

\* What a call that returns e leaves.
LEMMA ReturnsTypes ==
    ASSUME CallTypes, NEW c \in Callers, NEW e \in Errors, Returns(c, e)
    PROVE  /\ at' \in [Callers -> Steps] /\ err' \in [Callers -> Errors]
           /\ report' \in [Callers -> Told]
           /\ at'[c] = "done" /\ err'[c] = e
           /\ report'[c] = "zero" => IsNotReady(e)
           /\ \A d \in Callers \ {c} : at'[d] = at[d] /\ err'[d] = err[d] /\ report'[d] = report[d]
<1>1. Report(c, e) \in Told /\ (Report(c, e) = "zero" => IsNotReady(e))
  <2>1. Zero(c, e) => IsNotReady(e)
    BY DEF Zero, IsNotReady
  <2>2. Report(c, e) = "zero" => Zero(c, e)
    BY DEF Report
  <2>3. Report(c, e) \in Told
    BY DEF Report, Told
  <2> QED
    BY <2>1, <2>2, <2>3
<1> QED
  BY <1>1 DEF Returns, CallTypes, Steps

-----------------------------------------------------------------------------
(* A call keeps the keys that have stayed in what it found, has in its     *)
(* batch or has yet to pass, and has not called the driver where it may    *)
(* still find no handle.                                                   *)

Kept(c) ==
    /\ stayed[c] \subseteq store
    /\ at[c] \in {"idle", "fetching", "asking", "refetching"} =>
           left[c] = Keys /\ batch[c] = {} /\ found[c] = {}
    /\ at[c] = "paging" => batch[c] = {}
    /\ at[c] \in {"paging", "calling"} => stayed[c] \subseteq found[c] \cup batch[c] \cup left[c]
    /\ at[c] = "listed" => stayed[c] \subseteq found[c]

InForm(c) ==
    /\ at[c] = "asking" => op[c].form \notin Iterating
    /\ at[c] = "refetching" => op[c].form = "deleting"
    /\ at[c] \in {"paging", "calling", "listed"} => op[c].form \in Iterating
    /\ at[c] = "calling" => op[c].form = "scanning"
    /\ at[c] = "listed" => op[c].form # "scanning"

Complete(c) ==
    at[c] = "done" /\ err[c] = "ok" =>
        /\ op[c].form \in {"listing", "scanning"} => stayed[c] \subseteq found[c]
        /\ op[c].form = "deleting" => stayed[c] \subseteq refused[c]

Untried(c) ==
    /\ at[c] \in {"idle", "fetching", "refetching"} => c \notin tried
    /\ at[c] # "done" => err[c] # "notready" /\ report[c] # "zero"
    /\ err[c] = "notready" => c \notin tried
    /\ report[c] = "zero" => c \notin tried \/ err[c] = "foreign"

CallInv(c) == Kept(c) /\ InForm(c) /\ Complete(c) /\ Untried(c)

OperationInv == CallTypes /\ \A c \in Callers : CallInv(c)

LEMMA InitOperationInv == Init => OperationInv
<1> SUFFICES ASSUME Init PROVE OperationInv
  OBVIOUS
<1>1. CallTypes
  BY DEF Init, CallTypes, Steps, KeySets, Errors, Told
<1>2. ASSUME NEW c \in Callers PROVE CallInv(c)
  BY DEF Init, CallInv, Kept, InForm, Complete, Untried
<1> QED
  BY <1>1, <1>2 DEF OperationInv

\* A call that others take a step beside.
LEMMA Beside ==
    ASSUME NEW d \in Callers, CallInv(d), op' = op,
           at'[d] = at[d], left'[d] = left[d], batch'[d] = batch[d], found'[d] = found[d],
           refused'[d] = refused[d], err'[d] = err[d], report'[d] = report[d],
           d \in tried' => d \in tried,
           stayed'[d] \subseteq stayed[d], stayed'[d] \subseteq store'
    PROVE  CallInv(d)'
BY DEF CallInv, Kept, InForm, Complete, Untried

\* A call that returns e.
LEMMA ReturnsInv ==
    ASSUME OperationInv, NEW c \in Callers, NEW e \in Errors, Returns(c, e), at[c] # "done",
           UNCHANGED <<store, op, left, batch, found, refused, stayed>>,
           tried' \in {tried, tried \cup {c}}, e = "notready" => c \notin tried',
           e = "ok" => /\ op[c].form \in {"listing", "scanning"} => stayed[c] \subseteq found[c]
                       /\ op[c].form = "deleting" => stayed[c] \subseteq refused[c]
    PROVE  OperationInv'
<1> USE DEF OperationInv
<1>1. CallTypes'
  BY ReturnsTypes DEF CallTypes
<1>2. CallInv(c)'
  <2>1. at'[c] = "done" /\ err'[c] = e /\ (report'[c] = "zero" => IsNotReady(e))
    BY ReturnsTypes
  <2>2. Untried(c)'
    BY <2>1 DEF Untried, IsNotReady
  <2> QED
    BY <2>1, <2>2 DEF CallInv, Kept, InForm, Complete
<1>3. ASSUME NEW d \in Callers \ {c} PROVE CallInv(d)'
  <2>1. stayed[d] \subseteq store
    BY DEF CallInv, Kept
  <2> QED
    BY <2>1, ReturnsTypes, Beside
<1> QED
  BY <1>1, <1>2, <1>3

\* A call that goes on.
LEMMA GoesOnInv ==
    ASSUME OperationInv, NEW c \in Callers, NEW next \in Steps \ {"idle", "done"},
           at' = [at EXCEPT ![c] = next], at[c] # "done", GoesOn,
           UNCHANGED <<store, op, refused>>,
           tried' \in {tried, tried \cup {c}},
           next \in {"fetching", "refetching"} =>
               at[c] \in {"idle", "fetching"} /\ tried' = tried,
           left' \in KeySets, batch' \in KeySets, found' \in KeySets, stayed' \in KeySets,
           \A d \in Callers \ {c} : /\ left'[d] = left[d] /\ batch'[d] = batch[d]
                                    /\ found'[d] = found[d] /\ stayed'[d] = stayed[d],
           Kept(c)', InForm(c)'
    PROVE  OperationInv'
<1> USE DEF OperationInv, GoesOn
<1>1. CallTypes'
  BY DEF CallTypes
<1>2. at'[c] = next /\ \A d \in Callers \ {c} : at'[d] = at[d]
  BY DEF CallTypes
<1>3. CallInv(c)'
  <2>1. Untried(c)'
    BY <1>2 DEF CallInv, Untried
  <2> QED
    BY <1>2, <2>1 DEF CallInv, Complete
<1>4. ASSUME NEW d \in Callers \ {c} PROVE CallInv(d)'
  <2>1. stayed[d] \subseteq store
    BY DEF CallInv, Kept
  <2> QED
    BY <1>2, <2>1, Beside
<1> QED
  BY <1>1, <1>3, <1>4

-----------------------------------------------------------------------------
(* The steps of a call.                                                    *)

LEMMA BeginsInv == ASSUME OperationInv, NEW c \in Callers, Begins(c) PROVE OperationInv'
<1> DEFINE next == IF op[c].gate = "none" THEN "asking" ELSE "fetching"
<1>1. /\ at[c] = "idle" /\ at' = [at EXCEPT ![c] = next] /\ at'[c] = next
      /\ stayed' = [stayed EXCEPT ![c] = store]
      /\ UNCHANGED <<store, op, left, batch, found, refused, tried>> /\ GoesOn
  BY DEF Begins, Goes, OperationInv, CallTypes
<1>2. stayed' \in KeySets /\ stayed'[c] = store /\ \A d \in Callers \ {c} : stayed'[d] = stayed[d]
  BY <1>1 DEF OperationInv, CallTypes, KeySets
<1>3. Kept(c)'
  BY <1>1, <1>2 DEF OperationInv, CallInv, Kept
<1>4. InForm(c)'
  BY <1>1, OpFacts DEF OperationInv, CallTypes, InForm
<1> QED
  BY <1>1, <1>2, <1>3, <1>4, GoesOnInv DEF OperationInv, CallTypes, Steps

LEMMA FetchesInv ==
    ASSUME OperationInv, NEW c \in Callers, Fetches(c) \/ Refetches(c)
    PROVE  OperationInv'
<1> DEFINE next == at'[c]
<1>1. /\ at' = [at EXCEPT ![c] = next] /\ GoesOn
      /\ UNCHANGED <<store, op, left, batch, found, refused, tried, stayed>>
      /\ \/ at[c] = "fetching" /\ next = FirstStep(op[c].form)
         \/ at[c] = "refetching" /\ next = "paging"
  BY DEF Fetches, Refetches, Goes, OperationInv, CallTypes
<1>2. FirstStep(op[c].form) \in {"paging", "refetching", "asking"}
  BY DEF FirstStep
<1>3. Kept(c)'
  BY <1>1, <1>2 DEF OperationInv, CallInv, Kept, CallTypes, KeySets
<1>4. InForm(c)'
  BY <1>1 DEF OperationInv, CallInv, InForm, FirstStep, Iterating
<1> QED
  BY <1>1, <1>2, <1>3, <1>4, GoesOnInv DEF OperationInv, CallTypes, Steps

LEMMA AnswersInv ==
    ASSUME OperationInv, NEW c \in Callers,
           FindsNoHandle(c) \/ Answers(c) \/ Refuses(c) \/ PageFails(c) \/ CallbackFails(c)
    PROVE  OperationInv'
<1>1. /\ at[c] # "done" /\ UNCHANGED <<store, op, left, batch, found, refused, stayed>>
      /\ tried' \in {tried, tried \cup {c}}
  BY DEF FindsNoHandle, NoHandleAt, Answers, Refuses, PageFails, CallbackFails, Tries
<1>2. CASE Answers(c)
  <2>1. PICK e \in op[c].replies : Returns(c, e)
    BY <1>2 DEF Answers
  <2>2. e \in Errors \ {"notready"}
    BY <2>1, OpFacts DEF OperationInv, CallTypes
  <2>3. op[c].form \notin Iterating
    BY <1>2 DEF Answers, OperationInv, CallInv, InForm
  <2> QED
    BY <1>1, <2>1, <2>2, <2>3, ReturnsInv DEF Iterating
<1>3. CASE FindsNoHandle(c)
  <2>1. /\ at[c] \in {"fetching", "refetching"} /\ tried' = tried
        /\ Returns(c, "notready") /\ "notready" \in Errors
    BY <1>3 DEF FindsNoHandle, NoHandleAt, Errors
  <2>2. c \notin tried'
    BY <2>1 DEF OperationInv, CallInv, Untried
  <2> QED
    BY <1>1, <2>1, <2>2, ReturnsInv
<1>4. CASE Refuses(c) \/ PageFails(c) \/ CallbackFails(c)
  <2>1. \E e \in Errors \ {"ok", "notready"} : Returns(c, e)
    BY <1>4 DEF Refuses, PageFails, CallbackFails, Errors
  <2> QED
    BY <1>1, <2>1, ReturnsInv
<1> QED
  BY <1>2, <1>3, <1>4

LEMMA PageInv ==
    ASSUME OperationInv, NEW c \in Callers, NEW part \in SUBSET left[c], Page(c, part)
    PROVE  OperationInv'
<1> DEFINE page == part \cap store
           next == at'[c]
<1>1. /\ at[c] = "paging" /\ GoesOn /\ UNCHANGED <<store, op, refused, stayed>>
      /\ left' = [left EXCEPT ![c] = left[c] \ part] /\ tried' = tried \cup {c}
  BY DEF Page, PageOf, Tries
<1>2. /\ left \in KeySets /\ batch \in KeySets /\ found \in KeySets /\ stayed \in KeySets
      /\ store \subseteq Keys /\ at \in [Callers -> Steps]
      /\ stayed[c] \subseteq store /\ batch[c] = {} /\ op[c].form \in Iterating
      /\ stayed[c] \subseteq found[c] \cup left[c]
  BY <1>1 DEF OperationInv, CallTypes, CallInv, Kept, InForm
<1>3. left' \in KeySets /\ left'[c] = left[c] \ part /\ \A d \in Callers \ {c} : left'[d] = left[d]
  BY <1>1, <1>2 DEF KeySets
<1>4. CASE op[c].form = "scanning"
  <2>1. batch' = [batch EXCEPT ![c] = page] /\ at' = [at EXCEPT ![c] = "calling"] /\ found' = found
    BY <1>4 DEF Page, PageOf
  <2>2. /\ batch' \in KeySets /\ batch'[c] = page /\ at'[c] = "calling"
        /\ \A d \in Callers \ {c} : batch'[d] = batch[d]
    BY <1>2, <2>1 DEF KeySets
  <2>3. Kept(c)'
    BY <1>1, <1>2, <1>3, <2>1, <2>2 DEF Kept
  <2>4. InForm(c)'
    BY <1>1, <1>4, <2>2 DEF InForm, Iterating
  <2> QED
    BY <1>1, <1>2, <1>3, <2>1, <2>2, <2>3, <2>4, GoesOnInv DEF Steps
<1>5. CASE op[c].form # "scanning"
  <2>1. /\ found' = [found EXCEPT ![c] = found[c] \cup page] /\ batch' = batch
        /\ at' = [at EXCEPT ![c] = IF part = left[c] THEN "listed" ELSE "paging"]
    BY <1>5 DEF Page, PageOf
  <2>2. /\ found' \in KeySets /\ found'[c] = found[c] \cup page
        /\ at'[c] = IF part = left[c] THEN "listed" ELSE "paging"
        /\ \A d \in Callers \ {c} : found'[d] = found[d]
    BY <1>2, <2>1 DEF KeySets
  <2>3. Kept(c)'
    BY <1>1, <1>2, <1>3, <2>1, <2>2 DEF Kept
  <2>4. InForm(c)'
    BY <1>1, <1>2, <1>5, <2>2 DEF InForm
  <2>5. at' = [at EXCEPT ![c] = next]
    <3>1. next = IF part = left[c] THEN "listed" ELSE "paging"
      BY <2>2
    <3> QED
      BY <2>1, <3>1
  <2>6. next \in Steps \ {"idle", "done"}
    BY <2>2 DEF Steps
  <2> QED
    BY <1>1, <1>2, <1>3, <2>1, <2>2, <2>3, <2>4, <2>5, <2>6, GoesOnInv
<1> QED
  BY <1>4, <1>5

LEMMA BatchInv ==
    ASSUME OperationInv, NEW c \in Callers, CallsBack(c) \/ BatchEnds(c)
    PROVE  OperationInv'
<1>1. at[c] = "calling" /\ UNCHANGED <<store, op, left, refused, tried, stayed>>
  BY DEF CallsBack, BatchEnds
<1>2. /\ left \in KeySets /\ batch \in KeySets /\ found \in KeySets /\ stayed \in KeySets
      /\ at \in [Callers -> Steps]
      /\ stayed[c] \subseteq store /\ op[c].form = "scanning"
      /\ stayed[c] \subseteq found[c] \cup batch[c] \cup left[c]
  BY <1>1 DEF OperationInv, CallTypes, CallInv, Kept, InForm
<1>3. CASE CallsBack(c)
  <2>1. PICK k \in batch[c] : /\ batch' = [batch EXCEPT ![c] = batch[c] \ {k}]
                              /\ found' = [found EXCEPT ![c] = found[c] \cup {k}]
    BY <1>3 DEF CallsBack
  <2>2. /\ batch' \in KeySets /\ batch'[c] = batch[c] \ {k}
        /\ found' \in KeySets /\ found'[c] = found[c] \cup {k}
        /\ \A d \in Callers \ {c} : batch'[d] = batch[d] /\ found'[d] = found[d]
    BY <1>2, <2>1 DEF KeySets
  <2>3. at' = at /\ GoesOn /\ at' = [at EXCEPT ![c] = "calling"]
    BY <1>1, <1>2, <1>3 DEF CallsBack
  <2>4. Kept(c)' /\ InForm(c)'
    BY <1>1, <1>2, <2>2, <2>3 DEF Kept, InForm, Iterating
  <2> QED
    BY <1>1, <1>2, <2>2, <2>3, <2>4, GoesOnInv DEF Steps
<1>4. CASE BatchEnds(c) /\ left[c] = {}
  <2>1. Returns(c, "ok") /\ batch[c] = {} /\ UNCHANGED <<batch, found>>
    BY <1>4 DEF BatchEnds
  <2>2. stayed[c] \subseteq found[c] /\ "ok" \in Errors
    BY <1>2, <1>4, <2>1 DEF Errors
  <2> QED
    BY <1>1, <1>2, <2>1, <2>2, ReturnsInv
<1>5. CASE BatchEnds(c) /\ left[c] # {}
  <2>1. /\ at' = [at EXCEPT ![c] = "paging"] /\ at'[c] = "paging" /\ GoesOn
        /\ batch[c] = {} /\ UNCHANGED <<batch, found>>
    BY <1>2, <1>5 DEF BatchEnds, Goes
  <2>2. Kept(c)' /\ InForm(c)'
    BY <1>1, <1>2, <2>1 DEF Kept, InForm, Iterating
  <2> QED
    BY <1>1, <1>2, <2>1, <2>2, GoesOnInv DEF Steps
<1> QED
  BY <1>3, <1>4, <1>5

LEMMA ListedInv == ASSUME OperationInv, NEW c \in Callers, ReturnsList(c) PROVE OperationInv'
<1>1. /\ at[c] = "listed" /\ UNCHANGED <<store, op, left, batch, found, refused, tried, stayed>>
      /\ Returns(c, "ok") /\ "ok" \in Errors
      /\ op[c].form = "listing" \/ found[c] = {}
  BY DEF ReturnsList, Errors
<1>2. stayed[c] \subseteq found[c] /\ op[c].form # "scanning"
  BY <1>1 DEF OperationInv, CallInv, Kept, InForm
<1> QED
  BY <1>1, <1>2, ReturnsInv

\* DeleteObjects ends the call and takes keys from the server.
LEMMA DeletesInv ==
    ASSUME OperationInv, NEW c \in Callers,
           DeleteFails(c) \/ \E kept \in SUBSET found[c] : Deletes(c, kept)
    PROVE  OperationInv'
<1>1. PICK gone \in SUBSET found[c], kept \in SUBSET found[c], e \in {"ok", "driver"} :
          /\ StoreBecomes(store \ gone) /\ Returns(c, e)
          /\ e = "ok" => gone = found[c] \ kept /\ refused' = [refused EXCEPT ![c] = kept]
          /\ refused' = refused \/ refused' = [refused EXCEPT ![c] = kept]
  <2>1. CASE DeleteFails(c)
    <3>1. PICK gone \in {{}, found[c]} : StoreBecomes(store \ gone)
      BY <2>1 DEF DeleteFails
    <3>2. gone \in SUBSET found[c] /\ {} \in SUBSET found[c]
      OBVIOUS
    <3> QED
      BY <2>1, <3>1, <3>2 DEF DeleteFails
  <2>2. CASE \E kept \in SUBSET found[c] : Deletes(c, kept)
    <3>1. PICK kept \in SUBSET found[c] : Deletes(c, kept)
      BY <2>2
    <3>2. found[c] \ kept \in SUBSET found[c]
      OBVIOUS
    <3> QED
      BY <3>1, <3>2 DEF Deletes
  <2> QED
    BY <2>1, <2>2
<1>2. /\ at[c] = "listed" /\ UNCHANGED <<op, left, batch, found, tried>> /\ op[c].form = "deleting"
      /\ stayed[c] \subseteq found[c] /\ e \in Errors
  BY DEF DeleteFails, Deletes, OperationInv, CallInv, Kept, Errors
<1>3. /\ store' = store \ gone
      /\ stayed' = [d \in Callers |-> stayed[d] \cap (store \ gone)]
  BY <1>1 DEF StoreBecomes
<1>4. stayed' \in KeySets /\ refused' \in KeySets /\ store' \subseteq Keys
  <2>1. found \in KeySets /\ stayed \in KeySets /\ refused \in KeySets /\ store \subseteq Keys
    BY DEF OperationInv, CallTypes
  <2>2. kept \in SUBSET Keys
    BY <2>1 DEF KeySets
  <2> QED
    BY <1>1, <1>3, <2>1, <2>2 DEF KeySets
<1>5. CallTypes
  BY DEF OperationInv
<1>6. CallTypes'
  BY <1>1, <1>2, <1>4, <1>5, ReturnsTypes DEF CallTypes
<1>7. /\ at'[c] = "done" /\ err'[c] = e
      /\ report'[c] # "zero"
      /\ \A d \in Callers \ {c} : at'[d] = at[d] /\ err'[d] = err[d] /\ report'[d] = report[d]
  BY <1>1, <1>2, <1>5, ReturnsTypes DEF IsNotReady
<1>8. CallInv(c)'
  <2>2. Untried(c)'
    BY <1>1, <1>7 DEF Untried
  <2>3. e = "ok" => refused'[c] = kept
    BY <1>1, <1>5 DEF CallTypes, KeySets
  <2>4. stayed'[c] \subseteq store' /\ stayed'[c] \subseteq found[c] \ gone
    BY <1>2, <1>3
  <2>5. Complete(c)'
    BY <1>1, <1>2, <1>7, <2>3, <2>4 DEF Complete
  <2> QED
    BY <1>7, <2>2, <2>4, <2>5 DEF CallInv, Kept, InForm
<1>9. ASSUME NEW d \in Callers \ {c} PROVE CallInv(d)'
  <2>1. refused'[d] = refused[d]
    BY <1>1, <1>5 DEF CallTypes, KeySets
  <2>2. stayed'[d] \subseteq stayed[d] /\ stayed'[d] \subseteq store'
    BY <1>3
  <2>3. CallInv(d)
    BY DEF OperationInv
  <2> QED
    BY <1>2, <1>7, <2>1, <2>2, <2>3, Beside
<1> QED
  BY <1>6, <1>8, <1>9 DEF OperationInv

-----------------------------------------------------------------------------
(* The steps of others.                                                    *)

LEMMA OthersInv == ASSUME OperationInv, OthersChange PROVE OperationInv'
<1>1. PICK kept \in SUBSET Keys : StoreBecomes(kept)
  BY DEF OthersChange, OperationInv, CallTypes
<1>2. /\ store' = kept /\ stayed' = [d \in Callers |-> stayed[d] \cap kept]
      /\ UNCHANGED <<op, at, left, batch, found, refused, err, report, tried>>
  BY <1>1 DEF StoreBecomes, OthersChange, callVars
<1>3. CallTypes'
  BY <1>1, <1>2 DEF OperationInv, CallTypes, KeySets
<1>4. ASSUME NEW d \in Callers PROVE CallInv(d)'
  <2>1. stayed'[d] \subseteq stayed[d] /\ stayed'[d] \subseteq store'
    BY <1>2
  <2> QED
    BY <1>2, <2>1, Beside DEF OperationInv
<1> QED
  BY <1>3, <1>4 DEF OperationInv

LEMMA NextOperationInv == OperationInv /\ [Next]_vars => OperationInv'
<1> SUFFICES ASSUME OperationInv, [Next]_vars PROVE OperationInv'
  OBVIOUS
<1>1. CASE UNCHANGED <<store, callVars, stayed>>
  <2>1. UNCHANGED <<store, op, at, left, batch, found, refused, err, report, tried, stayed>>
    BY <1>1 DEF callVars
  <2>2. CallTypes'
    BY <2>1 DEF OperationInv, CallTypes
  <2>3. ASSUME NEW d \in Callers PROVE CallInv(d)'
    <3>1. CallInv(d) /\ stayed[d] \subseteq store
      BY DEF OperationInv, CallInv, Kept
    <3> QED
      BY <2>1, <3>1, Beside
  <2> QED
    BY <2>2, <2>3 DEF OperationInv
<1>2. ASSUME NEW c \in Callers, CallStep(c) PROVE OperationInv'
  BY <1>2, FetchesInv, AnswersInv, PageInv, BatchInv, ListedInv, DeletesInv DEF CallStep
<1> QED
  BY <1>1, <1>2, BeginsInv, OthersInv DEF Next, vars

\* The strengthening that the theorems below rest on.
THEOREM OperationInvariant == Spec => []OperationInv
BY InitOperationInv, NextOperationInv, PTL DEF Spec

\* A listing that ends well has seen every key the server held all along, and
\* DeleteByPrefix leaves only the keys the server refused.
THEOREM ListingsMissNothing == Spec => []NothingMissed
<1>1. OperationInv => NothingMissed
  BY DEF OperationInv, CallInv, Complete, NothingMissed
<1> QED
  BY <1>1, OperationInvariant, PTL

\* A call that returns the component's ErrNotReady has not called the driver, and
\* one that called it is not reported with a zero duration, whatever Stop and
\* Start do between its reads of the handle and its pages.
THEOREM NotReadyIsUntried == Spec => []NotReadyUntried
<1>1. OperationInv => NotReadyUntried
  BY DEF OperationInv, CallInv, Untried, NotReadyUntried
<1> QED
  BY <1>1, OperationInvariant, PTL

-----------------------------------------------------------------------------
(* Type correctness, with the handles.                                     *)

LEMMA NextHandleTypes ==
    ASSUME MaxRuns \in Nat, HandleTypes, [Next]_vars
    PROVE  HandleTypes'
<1> USE DEF HandleTypes
<1>1. CASE SlotNext /\ UNCHANGED <<store, callVars, stayed>>
  BY <1>1 DEF SlotNext, Taken, Opens, Published, Closes, callVars
<1>2. CASE \E c \in Callers : Fetches(c)
  BY <1>2 DEF Fetches, slotVars
<1>3. CASE UNCHANGED vars \/ OthersChange
  BY <1>3 DEF vars, OthersChange, slotVars, callVars
<1>4. ASSUME NEW c \in Callers, Begins(c) \/ CallStep(c), ~Fetches(c) PROVE HandleTypes'
  BY <1>4 DEF Begins, CallStep, Refetches, FindsNoHandle, NoHandleAt, Answers, Refuses, PageFails,
     Page, PageOf, CallsBack, CallbackFails, BatchEnds, ReturnsList, DeleteFails, Deletes, slotVars
<1> QED
  BY <1>1, <1>2, <1>3, <1>4 DEF Next

\* Every reachable state of the calls has its type.
THEOREM TypeCorrect == ASSUME MaxRuns \in Nat PROVE Spec => []TypeOK
<1>1. Init => HandleTypes
  BY DEF Init, SlotInit, HandleTypes
<1>2. HandleTypes /\ [Next]_vars => HandleTypes'
  BY NextHandleTypes
<1>3. OperationInv /\ HandleTypes => TypeOK
  BY TypesSuffice DEF OperationInv
<1> QED
  BY <1>1, <1>2, <1>3, OperationInvariant, PTL DEF Spec

=============================================================================
