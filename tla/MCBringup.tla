----------------------------- MODULE MCBringup -----------------------------
(***************************************************************************)
(* Bringup for TLC: three of the fifteen controllers, in the order of      *)
(* controller_defs; aero_controller stands for those without a timer of    *)
(* their own.  A session starts clean, beside the robot of an earlier one, *)
(* beside its move_group, or beside parts of both.                         *)
(***************************************************************************)
EXTENDS Bringup

ThreeControllers ==
  <<"joint_state_broadcaster", "mechanum_controller", "aero_controller">>
TwoTargets == {"joint_state_broadcaster", "mechanum_controller"}
AllThree == TwoTargets \union {"aero_controller"}
FewLeftovers ==
  {{}, {"controller_manager", "urg_node2", "laser_filter"}, {"moveit_launch", "move_group"}}
\* Every kind of leftover at once but a LiDAR driver, without which the filter
\* passes on the scans of this session: so navigation is not excused.
Remains == {{}, {"controller_manager", "laser_filter", "moveit_launch", "move_group"}}

\* The lists of the code, which are too long to run: that of the launch file
\* and those of the two monitors have to name the same controllers.
AllControllers ==
  <<"rarm_controller", "larm_controller", "head_controller", "waist_controller",
    "lifter_controller", "rhand_controller", "lhand_controller",
    "joint_state_broadcaster", "mechanum_controller", "diagnostic_controller",
    "aero_controller", "status_controller", "robotstatus_controller",
    "motion_player", "config_controller">>
moveit_nodes ==
  {"mechanum_controller", "joint_state_broadcaster", "rarm_controller",
   "larm_controller", "head_controller", "waist_controller", "lifter_controller",
   "rhand_controller", "lhand_controller", "aero_controller", "status_controller",
   "robotstatus_controller", "motion_player", "config_controller",
   "diagnostic_controller"}
ASSUME ListsAgree ==
  /\ moveit_nodes = { AllControllers[i] : i \in DOMAIN AllControllers }
  /\ TwoTargets \subseteq moveit_nodes
=============================================================================
