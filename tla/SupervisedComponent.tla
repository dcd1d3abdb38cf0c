------------------------- MODULE SupervisedComponent -------------------------
(***************************************************************************)
(* What every component promises the supervisor that runs it, abstractly:  *)
(* Start runs until it is asked to end, by its context or by Stop, and     *)
(* then returns nil; a non-nil return is a crash the supervisor answers    *)
(* with a restart, and happens only before ready(), or also after it for   *)
(* components that serve and may lose their listener (MayCrash).           *)
(*                                                                         *)
(* Some components break the first half: cancelled before ready(), they    *)
(* return the error of the call that the cancellation interrupted          *)
(* (MayInterrupt).  That is an outcome of its own, and no Fail.            *)
(***************************************************************************)
CONSTANTS MayCrash, MayInterrupt   (* BOOLEAN *)

VARIABLES phase,    \* of Start: down, starting, or ready once ready() was called
          asked,    \* the current run was asked to end
          outcome   \* what the last run returned, "none" while it runs

vars == <<phase, asked, outcome>>

Init == phase = "down" /\ asked \in BOOLEAN /\ outcome = "none"

Begin ==
    /\ phase = "down" /\ phase' = "starting"
    /\ asked' = FALSE
    /\ outcome' = "none"

Ready ==
    /\ phase = "starting" /\ phase' = "ready"
    /\ UNCHANGED <<asked, outcome>>

Ask ==
    /\ asked' = TRUE
    /\ UNCHANGED <<phase, outcome>>

End ==
    /\ phase # "down" /\ phase' = "down"
    /\ asked
    /\ outcome' = "nil"
    /\ UNCHANGED asked

Fail ==
    /\ phase = "starting" \/ (MayCrash /\ phase = "ready")
    /\ phase' = "down"
    /\ outcome' = "error"
    /\ UNCHANGED asked

Interrupt ==
    /\ MayInterrupt
    /\ phase = "starting" /\ phase' = "down"
    /\ asked
    /\ outcome' = "interrupted"
    /\ UNCHANGED asked

Next == Begin \/ Ready \/ Ask \/ End \/ Fail \/ Interrupt

Spec == Init /\ [][Next]_vars

\* A run that was asked to end returns.
Answers == (asked /\ phase # "down") ~> (phase = "down")

=============================================================================
