--------------------------- MODULE MCTfStaticGate ---------------------------
(***************************************************************************)
(* TfStaticGate for TLC: the two publishers of a static transform at start *)
(* (robot_state_publisher and camera1_static_tf).                          *)
(***************************************************************************)
EXTENDS TfStaticGate

CONSTANTS m1, m2

OneMonitor  == {m1}
TwoMonitors == {m1, m2}
TwoSources  == {"robot_state_publisher", "camera1_static_tf"}
=============================================================================
