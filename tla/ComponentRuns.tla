----------------------------- MODULE ComponentRuns -----------------------------
(***************************************************************************)
(* What the models of a component's life have in common: the calls of Stop *)
(* and the numbered runs of Start.  0 is nil.                              *)
(***************************************************************************)
EXTENDS Integers

CONSTANTS Stoppers,    (* calls of Stop, each made at most once            *)
          MaxRuns      (* bound: how many times Start is called            *)

Runs == 1..MaxRuns
Nil  == 0

ASSUME Assumption == MaxRuns \in Nat \ {0} /\ Stoppers \cap Runs = {}

=============================================================================
