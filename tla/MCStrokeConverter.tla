-------------------------- MODULE MCStrokeConverter --------------------------
(***************************************************************************)
(* StrokeConverter for TLC: the names of driver_settings.yaml (without     *)
(* "_joint") in their order, and from each csv table its ends, its zero    *)
(* and some points between.                                                *)
(***************************************************************************)
EXTENDS StrokeConverter, TLC

RealNames ==
  << "waist_y", "waist_p", "waist_r", "l_shoulder_p", "l_shoulder_r",
    "l_shoulder_y", "l_elbow", "l_wrist_y", "l_wrist_p", "l_wrist_r",
    "l_thumb", "neck_y", "neck_p", "neck_r", "r_shoulder_p", "r_shoulder_r",
    "r_shoulder_y", "r_elbow", "r_wrist_y", "r_wrist_p", "r_wrist_r",
    "r_thumb", "knee", "ankle", "wheel_front_left", "wheel_front_right",
    "wheel_rear_left", "wheel_rear_right">>

RealTables ==
  [shoulder_p |-> (-17) :> 9992 @@ 0 :> 0 @@ 89 :> -45305,
   shoulder_r |-> (-8) :> -3663 @@ 0 :> 0 @@ 90 :> 52181,
   elbow_p    |-> (-90) :> 16391 @@ 0 :> 0 @@ 90 :> -26035,
   wrist_p    |-> (-7) :> -2891 @@ (-6) :> -2471 @@ 0 :> 0 @@ 6 :> 2385 @@ 7 :> 2773,
   wrist_r    |-> (-20) :> 2340 @@ 0 :> 0 @@ 90 :> -16984,
   neck_p     |-> (-20) :> -3506 @@ 0 :> 0 @@ 30 :> 4847,
   neck_r     |-> (-20) :> -8126 @@ 0 :> 0 @@ 20 :> 7982,
   waist_p    |-> (-10) :> -6255 @@ 0 :> 0 @@ 40 :> 31091,
   waist_r    |-> (-7) :> -6297 @@ (-6) :> -5445 @@ 0 :> 0 @@ 6 :> 5823 @@ 7 :> 6825,
   leg        |-> 0 :> 0 @@ 45 :> 33805 @@ 90 :> 63294]

\* Some strokes, one, none, less than one.
SmallAngles == {-8000, -1500, 0, 999}

\* Less than 1 degree per second, some, and 300.
WheelSpeeds == {-3000, -25, -5, 0, 5, 25, 3000}

\* Each joint by itself, each pair together, and no joint (the wheels).
AllGroups ==
  { {j} : j \in DOMAIN Direct \union DOMAIN Single }
    \union { Range(Dual[q].in) : q \in DOMAIN Dual }
    \union { {} }
=============================================================================
