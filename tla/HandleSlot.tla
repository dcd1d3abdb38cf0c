------------------------------ MODULE HandleSlot ------------------------------
(***************************************************************************)
(* What Start and Stop do, abstractly, to the one driver handle a          *)
(* component holds for its operations: a handle is opened, published while *)
(* it is open, taken out, and closed only when it is not, or no longer,    *)
(* the published one.  Run r of Start opens handle r; 0 is nil.            *)
(***************************************************************************)
EXTENDS Integers

CONSTANT MaxRuns     (* bound: how many times Start is called              *)

VARIABLES handle,    \* c.client, c.pool, c.db or c.conn
          driver     \* state of the driver's handle of each run

slotVars == <<handle, driver>>

SlotInit == handle = 0 /\ driver = [r \in 1..MaxRuns |-> "none"]

Opens(r) ==
    /\ driver[r] = "none"
    /\ driver' = [driver EXCEPT ![r] = "open"]
    /\ UNCHANGED handle

Published(r) ==
    /\ driver[r] = "open"
    /\ handle' = r
    /\ UNCHANGED driver

Taken ==
    /\ handle' = 0
    /\ UNCHANGED driver

Closes(r) ==
    /\ driver[r] = "open" /\ handle # r
    /\ driver' = [driver EXCEPT ![r] = "closed"]
    /\ UNCHANGED handle

SlotNext == Taken \/ \E r \in 1..MaxRuns : Opens(r) \/ Published(r) \/ Closes(r)

SlotSpec == SlotInit /\ [][SlotNext]_slotVars

=============================================================================
