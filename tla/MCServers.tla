------------------------------ MODULE MCServers ------------------------------
(***************************************************************************)
(* Model-checking instance of the three components that serve a port:      *)
(* GrpcServer, with its variables, and FiberServer and PrometheusServer,   *)
(* with variables of their own.  A process holds one of the three, kind    *)
(* says which, and the others stay at their initial states.                *)
(*                                                                         *)
(* The two are taken with their theorems, which GrpcServerProofs carries   *)
(* over to MCSpec.                                                         *)
(***************************************************************************)
EXTENDS GrpcServer

CONSTANT GrpcStops      (* bound: the calls of Stop that reach grpc        *)

VARIABLES
    kind,
    \* fiber
    fApp, fListening, fStopCh, fStart, fRun, fResult, fPort, fSrv, fCancelled,
    fStopClosed, fAt, fTook, fWatched,
    \* prometheus
    pServer, pStopCh, pStart, pRun, pResult, pPort, pShut, pServe, pCancelled,
    pStopClosed, pStop, pTook

F == INSTANCE FiberServerProofs WITH
    app <- fApp, listening <- fListening, stopCh <- fStopCh, start <- fStart,
    run <- fRun, result <- fResult, port <- fPort, srv <- fSrv,
    cancelled <- fCancelled, stopClosed <- fStopClosed, at <- fAt, took <- fTook,
    watched <- fWatched

P == INSTANCE PrometheusServerProofs WITH
    server <- pServer, stopCh <- pStopCh, start <- pStart, run <- pRun,
    result <- pResult, port <- pPort, shut <- pShut, serve <- pServe,
    cancelled <- pCancelled, stopClosed <- pStopClosed, stop <- pStop, took <- pTook

fVars == <<fApp, fListening, fStopCh, fStart, fRun, fResult, fPort, fSrv, fCancelled,
           fStopClosed, fAt, fTook, fWatched>>
pVars == <<pServer, pStopCh, pStart, pRun, pResult, pPort, pShut, pServe, pCancelled,
           pStopClosed, pStop, pTook>>

MCInit == kind \in {"grpc", "fiber", "prometheus"} /\ Init /\ F!Init /\ P!Init

MCNext ==
    /\ \/ kind = "grpc" /\ Next /\ UNCHANGED <<fVars, pVars>>
          /\ \A p \in Stoppers \ GrpcStops : at'[p] = "idle"
       \/ kind = "fiber" /\ F!Next /\ UNCHANGED <<vars, pVars>>
       \/ kind = "prometheus" /\ P!Next /\ UNCHANGED <<vars, fVars>>
    /\ UNCHANGED kind

\* No fair action of a component is enabled at its initial state.
MCSpec ==
    /\ MCInit /\ [][MCNext]_<<kind, vars, fVars, pVars>>
    /\ Fairness /\ F!Fairness /\ P!Fairness

-----------------------------------------------------------------------------
\* fiber and prometheus, too, return nil from Start only when asked.
HttpKeepsContract == F!KeepsContract /\ P!KeepsContract

\* fiber: the run that serves is the one Stop, App and Health find.
ServingIsPublished == F!ServingIsPublished

\* prometheus: a bound port has somebody to close it, Health tells, and no stop
\* channel is closed twice.
PortOwned      == P!PortOwned
HealthyIsBound == P!HealthyIsBound
StopsCloseOnce == P!NoDoubleClose

\* fiber, prometheus: a run that is asked to end ends.
HttpRunsEnd == F!AskedRunsEnd /\ P!AskedRunsEnd

=============================================================================
