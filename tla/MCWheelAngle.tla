---------------------------- MODULE MCWheelAngle ----------------------------
(***************************************************************************)
(* WheelAngle for TLC: the code's own constants, with one wheel (the four  *)
(* of the code share nothing).                                             *)
(***************************************************************************)
EXTENDS WheelAngle

OneWheel == {0}

\* One wheel, +-13602 and 13000: the largest steps the assumption allows, and
\* two that make every residue reachable.  Three wraps each way.
RealSteps     == {-601, -600, 0, 601}
RealFirst     == {-13602, 0, 13602}
RealPositions == -70000..70000
=============================================================================
