------------------------------ MODULE MCHandles ------------------------------
(***************************************************************************)
(* Model-checking instance of the components that hold a driver handle:    *)
(* either the life of one of them moves, as HandleLifecycle says, or the   *)
(* calls of its operations over a slot of their own; the other stays at    *)
(* its initial state.                                                      *)
(*                                                                         *)
(* Operations is taken with its theorems, which HandleLifecycleProofs      *)
(* carries over to MCSpec.                                                 *)
(***************************************************************************)
EXTENDS HandleLifecycle

CONSTANTS Callers, Keys, MaxDelete,
          SlotRuns   (* bound: handles the slot holds, one after the other *)

VARIABLES
    kind,
    slotHandle, slotDriver, store, op, at, with, left, batch, found, refused,
    err, report, tried, stayed

O == INSTANCE OperationsProofs WITH
    MaxRuns <- SlotRuns, handle <- slotHandle, driver <- slotDriver

operationVars == <<slotHandle, slotDriver, store, op, at, with, left, batch, found,
                   refused, err, report, tried, stayed>>

\* The component that stays at its initial state stays at one of them.
MCInit ==
    /\ kind \in {"life", "operations"}
    /\ Init /\ (kind = "operations" => profile = Redis)
    /\ O!Init /\ (kind = "life" => store = {} /\ op = [c \in Callers |-> O!RedisSet])

MCNext ==
    /\ \/ kind = "life" /\ Next /\ UNCHANGED operationVars
       \/ kind = "operations" /\ O!Next /\ UNCHANGED vars
    /\ UNCHANGED kind

\* No fair action of a component is enabled at its initial state.
MCSpec == MCInit /\ [][MCNext]_<<kind, vars, operationVars>> /\ Fairness /\ O!Fairness

-----------------------------------------------------------------------------
\* A call of an operation that is not ready asks nothing; it misses no key and
\* returns.
NotReadyUntried == O!NotReadyUntried
NothingMissed   == O!NothingMissed
CallsReturn     == O!CallsReturn

=============================================================================
