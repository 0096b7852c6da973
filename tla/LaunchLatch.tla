---------------------------- MODULE LaunchLatch ----------------------------
(***************************************************************************)
(* What a state monitor of the bring-up promises, without its topics, its  *)
(* queues and its table of states: the launch it guards is started once,   *)
(* and not before every target has been active.  LifecycleGate implements  *)
(* it; Bringup composes it.                                                *)
(***************************************************************************)
EXTENDS Naturals

CONSTANT Targets

VARIABLES
  ever,    \* the targets that have been active at some time
  starts   \* how many times the guarded launch was started

vars == <<ever, starts>>

Init ==
  /\ ever = {}
  /\ starts = 0

\* A target becomes active, for the first time or again.
BecomeActive(c) ==
  /\ ever' = ever \union {c}
  /\ UNCHANGED starts

\* The monitor starts the launch.
Start ==
  /\ ever = Targets
  /\ starts = 0
  /\ starts' = 1
  /\ UNCHANGED ever

Next ==
  \/ \E c \in Targets : BecomeActive(c)
  \/ Start

Spec == Init /\ [][Next]_vars
=============================================================================
