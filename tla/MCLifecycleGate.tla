--------------------------- MODULE MCLifecycleGate ---------------------------
(***************************************************************************)
(* LifecycleGate for TLC.  c1 and c2 are the two targets of                *)
(* ControllersStateMonitor (mechanum_controller, joint_state_broadcaster); *)
(* the 15 targets of BringupMoveitMonitor differ in number only.           *)
(***************************************************************************)
EXTENDS LifecycleGate

CONSTANTS c1, c2, c3

TwoTargets   == {c1, c2}
ThreeTargets == {c1, c2, c3}
=============================================================================
