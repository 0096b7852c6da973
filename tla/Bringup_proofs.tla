--------------------------- MODULE Bringup_proofs ---------------------------
(***************************************************************************)
(* Theorems about Bringup, for every list of controllers, every pair of    *)
(* targets, everything an earlier session may leave behind and every       *)
(* number of faults: the order the gates impose across processes, and what *)
(* a shutdown still lets start.                                            *)
(***************************************************************************)
EXTENDS Bringup, TLAPS, FiniteSetTheorems

\* The inductive invariant.  What the properties say of a process at the end
\* of a chain is only inductive when every link of the chain is known.

\* What the fork callback has still to do is a rest of its list.
RealLidar == {"urg_node2", "laser_filter"}
TodoIsRest ==
  todo \in {<<>>} \union
    (IF ~triggered_ THEN {}
     ELSE {Commands} \union
            (IF simulation THEN {} ELSE {<<"urg_node2", "laser_filter">>, <<"laser_filter">>}))

\* The source of /scan belongs to the mode, and the fork of the manager came
\* before those of the LiDAR.
SourceFitsMode ==
  /\ RealLidar \intersect started # {} => ~simulation /\ Tried("controller_manager")
  /\ {"controllers_state_monitor", "dummy_lidar"} \intersect started # {} => simulation

\* A launch behind a lifecycle monitor has its controllers; move_group has the
\* launch it belongs to.
LaunchesHeard ==
  /\ "dummy_lidar" \in started => LidarTargets \subseteq heard["controllers_state_monitor"]
  /\ "moveit_launch" \in started => MoveitTargets \subseteq heard["moveit_monitor"]
  /\ "move_group" \in started => "moveit_launch" \in started

\* Navigation has had a scan, of one LiDAR or the other.
NavigationHasScan ==
  "navigation" \in started =>
    \/ RealLidar \subseteq started \union left
    \/ "dummy_lidar" \in started \union left

\* Before a shutdown the rviz2 monitor only ends for move_group, or dies.
RvizMonitorEnd ==
  "rviz2_monitor" \in gone /\ ~shutdown =>
    \/ "move_group" \in started \union left
    \/ "rviz2_monitor" \in crashed

IInv ==
  /\ TypeOK
  /\ TodoIsRest
  /\ SourceFitsMode
  /\ LaunchesHeard
  /\ NavigationHasScan
  /\ RvizMonitorEnd
  /\ RvizAfterMoveGroup

-----------------------------------------------------------------------------
(* The spawner timers.                                                     *)

\* There are finitely many timers, and at least the one of all others.
LEMMA TimersType == IsFiniteSet(priority_defs) /\ Timers \in Nat /\ Timers > 0
<1>1. DOMAIN controller_defs = 1..Len(controller_defs) /\ Len(controller_defs) \in Nat
  BY DefsAssumption
<1>2. IsFiniteSet(DOMAIN controller_defs)
  BY <1>1, FS_Interval
<1>3. priority_defs \subseteq DOMAIN controller_defs
  BY DEF priority_defs
<1>4. IsFiniteSet(priority_defs)
  BY <1>2, <1>3, FS_Subset
<1>5. Cardinality(priority_defs) \in Nat
  BY <1>4, FS_CardinalityType
<1>. QED  BY <1>4, <1>5 DEF Timers

\* No controller is lost between the two parts of controller_defs: when the
\* last timer has fired, each of them has its spawner, whatever the two lists
\* of launch_setup hold (bringup_robot_model.launch.py:170-211).
THEOREM EveryControllerSpawned == Spawned(Timers) = Controllers
<1>. SUFFICES ASSUME NEW c \in Controllers PROVE c \in Spawned(Timers)
  BY DEF Spawned
<1>1. CASE c \notin priority_controllers
  BY <1>1 DEF Spawned
<1>2. CASE c \in priority_controllers
  <2>1. PICK i \in DOMAIN controller_defs : controller_defs[i] = c
    BY DEF Controllers
  <2>2. i \in priority_defs
    BY <1>2, <2>1 DEF priority_defs
  <2>3. TimerOf[i] <= Timers
    <3>. DEFINE upto == { j \in priority_defs : j <= i }
    <3>1. Cardinality(upto) \in Nat /\ Cardinality(upto) <= Cardinality(priority_defs)
      BY TimersType, FS_Subset, FS_CardinalityType
    <3>2. Cardinality(priority_defs) \in Nat
      BY TimersType, FS_CardinalityType
    <3>3. TimerOf[i] = Cardinality(upto)
      BY <2>2 DEF TimerOf
    <3>. HIDE DEF upto
    <3>. QED  BY <3>1, <3>2, <3>3 DEF Timers
  <2>. QED  BY <1>2, <2>1, <2>2, <2>3 DEF Spawned
<1>. QED  BY <1>1, <1>2

-----------------------------------------------------------------------------
(* The invariant.                                                          *)

LEMMA InitInv == Init => IInv
<1>. SUFFICES ASSUME Init PROVE IInv
  OBVIOUS
<1>1. TypeOK
  <2>1. spawned \in 0..Timers
    BY TimersType DEF Init
  <2>2. heard \in [LifecycleMonitors -> SUBSET active]
    BY DEF Init
  <2>3. left \in Leftovers /\ simulation \in BOOLEAN /\ display_rviz2 \in BOOLEAN
    BY DEF Init
  <2>4. triggered_ \in BOOLEAN /\ todo \in Seq(Detached)
    <3>1. triggered_ = FALSE /\ todo = <<>>
      BY DEF Init
    <3>2. <<>> \in Seq(Detached)
      OBVIOUS
    <3>. QED  BY <3>1, <3>2
  <2>5. started \subseteq Processes /\ gone \subseteq started /\ active \subseteq Controllers
        /\ shutdown \in BOOLEAN /\ crashed \subseteq gone
    BY DEF Init
  <2>. QED  BY <2>1, <2>2, <2>3, <2>4, <2>5 DEF TypeOK
<1>2. TodoIsRest /\ SourceFitsMode /\ LaunchesHeard /\ NavigationHasScan
  BY DEF Init, TodoIsRest, SourceFitsMode, LaunchesHeard, NavigationHasScan
<1>3. RvizMonitorEnd /\ RvizAfterMoveGroup
  BY DEF Init, RvizMonitorEnd, RvizAfterMoveGroup
<1>. QED  BY <1>1, <1>2, <1>3 DEF IInv

\* The part of the invariant about the forks depends on nothing else.
LEMMA ForksUnchanged ==
  ASSUME IInv, UNCHANGED <<simulation, forks>>
  PROVE  TodoIsRest' /\ (Tried("controller_manager") => Tried("controller_manager")')
BY DEF IInv, TodoIsRest, Commands, Tried, forks

\* A launch starts one of its own nodes, in its mode and on its event.
LEMMA LaunchNodePreserves ==
  ASSUME IInv, NEW p \in LaunchNodes, LaunchNode(p)
  PROVE  IInv'
<1>. USE DEF IInv, LaunchNode, LaunchNodes
<1>0. UNCHANGED <<simulation, forks>>
  BY DEF session
<1>1. TypeOK'
  BY DEF TypeOK, Processes, session, forks, controllers
<1>2. SourceFitsMode'
  <2>1. p = "controllers_state_monitor" => simulation
    BY DEF LaunchCondition, RobotModel
  <2>. QED  BY <1>0, <2>1, ForksUnchanged DEF SourceFitsMode, RealLidar
<1>3. LaunchesHeard' /\ NavigationHasScan'
  BY DEF LaunchesHeard, NavigationHasScan, RealLidar, session, controllers
<1>4. RvizMonitorEnd' /\ RvizAfterMoveGroup'
  BY DEF RvizMonitorEnd, RvizAfterMoveGroup, LaunchCondition, session
<1>. QED  BY <1>0, <1>1, <1>2, <1>3, <1>4, ForksUnchanged

\* A step that ends processes and starts none keeps the invariant if the rviz2
\* monitor does not end by it, ends for move_group or dies, or in a shutdown.
LEMMA EndingPreserves ==
  ASSUME IInv,
         UNCHANGED <<session, started, forks, controllers>>,
         gone \subseteq gone', gone' \subseteq started,
         crashed \subseteq crashed', crashed' \subseteq gone',
         shutdown' \in BOOLEAN, shutdown => shutdown',
         "rviz2_monitor" \in gone' \ gone /\ ~shutdown' =>
            \/ "move_group" \in started \union left
            \/ "rviz2_monitor" \in crashed'
  PROVE  IInv'
<1>. USE DEF IInv, session
<1>1. TypeOK'
  BY DEF TypeOK, forks, controllers
<1>2. TodoIsRest' /\ SourceFitsMode'
  BY ForksUnchanged DEF SourceFitsMode
<1>3. LaunchesHeard' /\ NavigationHasScan'
  BY DEF LaunchesHeard, NavigationHasScan, controllers
<1>4. RvizMonitorEnd' /\ RvizAfterMoveGroup'
  BY DEF RvizMonitorEnd, RvizAfterMoveGroup
<1>. QED  BY <1>1, <1>2, <1>3, <1>4

\* A step that starts a process in the background keeps the invariant if it is
\* one of its mode, behind the signs it waited for.
LEMMA StartPreserves ==
  ASSUME IInv, NEW p \in Detached, Start(p), p \notin RealLidar,
         p = "dummy_lidar" =>
            simulation /\ LidarTargets \subseteq heard["controllers_state_monitor"],
         p = "moveit_launch" => MoveitTargets \subseteq heard["moveit_monitor"],
         p = "move_group" => "moveit_launch" \in started,
         p = "navigation" => RealScan \/ DummyScan
  PROVE  IInv'
<1>. USE DEF IInv, Start, session
<1>1. TypeOK'
  BY DEF TypeOK, Processes, forks, controllers
<1>2. TodoIsRest' /\ SourceFitsMode'
  BY ForksUnchanged DEF SourceFitsMode, Detached
<1>3. LaunchesHeard'
  BY DEF LaunchesHeard, controllers
<1>4. NavigationHasScan'
  BY DEF NavigationHasScan, RealScan, DummyScan, Present, Alive, RealLidar
<1>5. RvizMonitorEnd' /\ RvizAfterMoveGroup'
  BY DEF RvizMonitorEnd, RvizAfterMoveGroup, Detached
<1>. QED  BY <1>1, <1>2, <1>3, <1>4, <1>5

\* The message starts the list of its mode, once.
LEMMA ReadyPreserves ==
  ASSUME IInv, tf_static_ready
  PROVE  IInv'
<1>. USE DEF IInv, session
<1>1. gone \subseteq gone' /\ gone' \subseteq started
  BY DEF tf_static_ready, TypeOK, Alive
<1>2. CASE UNCHANGED forks
  BY <1>1, <1>2, EndingPreserves DEF tf_static_ready, TypeOK
<1>3. CASE ~triggered_ /\ triggered_' = TRUE /\ todo' = Commands
  <2>1. Commands \in Seq(Detached)
    <3>1. <<"controller_manager">> \in Seq(Detached)
      BY DEF Detached
    <3>2. <<"controller_manager", "urg_node2", "laser_filter">> \in Seq(Detached)
      BY DEF Detached
    <3>. QED  BY <3>1, <3>2 DEF Commands
  <2>2. TypeOK'
    BY <1>1, <1>3, <2>1 DEF TypeOK, tf_static_ready, controllers
  <2>3. TodoIsRest'
    BY <1>3 DEF TodoIsRest, Commands, tf_static_ready
  <2>4. SourceFitsMode'
    BY <1>3 DEF SourceFitsMode, tf_static_ready, Tried
  <2>5. LaunchesHeard' /\ NavigationHasScan'
    BY DEF LaunchesHeard, NavigationHasScan, tf_static_ready, controllers
  <2>6. RvizMonitorEnd' /\ RvizAfterMoveGroup'
    BY DEF RvizMonitorEnd, RvizAfterMoveGroup, tf_static_ready
  <2>. QED  BY <2>2, <2>3, <2>4, <2>5, <2>6
<1>. QED  BY <1>2, <1>3 DEF tf_static_ready

\* Each call leaves a rest of the list, and a LiDAR process is only forked by a
\* call that comes after that for the manager.
LEMMA LaunchProcessPreserves ==
  ASSUME IInv, launch_process
  PROVE  IInv'
<1>. USE DEF IInv, session
<1>1. PICK p \in Detached :
        /\ p = Head(todo)
        /\ started \subseteq started' /\ started' \subseteq started \union {p}
  BY DEF launch_process, TypeOK
<1>2. /\ triggered_ /\ triggered_' /\ todo' = Tail(todo)
      /\ UNCHANGED <<session, gone, controllers, shutdown, crashed>>
  BY DEF launch_process, TodoIsRest
<1>3. \/ /\ todo = <<"controller_manager">> /\ simulation
         /\ p = "controller_manager" /\ todo' = <<>>
      \/ /\ todo = <<"controller_manager", "urg_node2", "laser_filter">> /\ ~simulation
         /\ p = "controller_manager" /\ todo' = <<"urg_node2", "laser_filter">>
      \/ /\ todo = <<"urg_node2", "laser_filter">> /\ ~simulation
         /\ p = "urg_node2" /\ todo' = <<"laser_filter">>
      \/ /\ todo = <<"laser_filter">> /\ ~simulation
         /\ p = "laser_filter" /\ todo' = <<>>
  <2>1. CASE todo = <<"controller_manager">> /\ simulation
    BY <1>1, <1>2, <2>1
  <2>2. CASE todo = <<"controller_manager", "urg_node2", "laser_filter">> /\ ~simulation
    BY <1>1, <1>2, <2>2
  <2>3. CASE todo = <<"urg_node2", "laser_filter">> /\ ~simulation
    BY <1>1, <1>2, <2>3
  <2>4. CASE todo = <<"laser_filter">> /\ ~simulation
    BY <1>1, <1>2, <2>4
  <2>5. todo # <<>> /\ triggered_ /\ TodoIsRest
    BY <1>2 DEF launch_process
  <2>. QED  BY <2>1, <2>2, <2>3, <2>4, <2>5 DEF TodoIsRest, Commands
<1>4. TypeOK'
  <2>1. todo' \in Seq(Detached)
    BY <1>2 DEF TypeOK, launch_process
  <2>. QED  BY <1>1, <1>2, <2>1 DEF TypeOK, Processes, controllers
<1>5. TodoIsRest'
  BY <1>2, <1>3 DEF TodoIsRest
<1>6. Tried("controller_manager")'
  BY <1>2, <1>3 DEF Tried, ToSet
<1>7. SourceFitsMode'
  BY <1>1, <1>2, <1>3, <1>6 DEF SourceFitsMode, RealLidar
<1>8. LaunchesHeard' /\ NavigationHasScan'
  BY <1>1, <1>2, <1>3 DEF LaunchesHeard, NavigationHasScan, RealLidar, controllers
<1>9. RvizMonitorEnd' /\ RvizAfterMoveGroup'
  BY <1>1, <1>2, <1>3 DEF RvizMonitorEnd, RvizAfterMoveGroup
<1>. QED  BY <1>4, <1>5, <1>7, <1>8, <1>9

\* An activation only adds to what the monitors have heard.
LEMMA ActivatePreserves ==
  ASSUME IInv, NEW c \in Controllers, Activate(c)
  PROVE  IInv'
<1>. USE DEF IInv, Activate, session
<1>1. heard \in [LifecycleMonitors -> SUBSET active]
  BY DEF TypeOK
<1>2. heard' \in [LifecycleMonitors -> SUBSET active']
  BY <1>1
<1>3. \A m \in LifecycleMonitors : heard[m] \subseteq heard'[m]
  BY <1>1
<1>4. TypeOK'
  BY <1>2 DEF TypeOK, forks
<1>5. LaunchesHeard'
  BY <1>3 DEF LaunchesHeard, LifecycleMonitors
<1>6. TodoIsRest' /\ SourceFitsMode'
  BY ForksUnchanged DEF SourceFitsMode
<1>7. NavigationHasScan' /\ RvizMonitorEnd' /\ RvizAfterMoveGroup'
  BY DEF NavigationHasScan, RvizMonitorEnd, RvizAfterMoveGroup
<1>. QED  BY <1>4, <1>5, <1>6, <1>7

LEMMA NextInv == IInv /\ [Next]_vars => IInv'
<1>. SUFFICES ASSUME IInv, [Next]_vars PROVE IInv'
  OBVIOUS
<1>0. /\ crashed \subseteq gone /\ gone \subseteq started /\ shutdown \in BOOLEAN
      /\ "move_group" \in started => "moveit_launch" \in started
  BY DEF IInv, TypeOK, LaunchesHeard
<1>1. CASE UNCHANGED vars
  BY <1>1, <1>0, EndingPreserves DEF vars
<1>2. ASSUME NEW p \in LaunchNodes, LaunchNode(p) PROVE IInv'
  BY <1>2, LaunchNodePreserves
<1>3. ASSUME NEW p \in LaunchNodes, StopNode(p) PROVE IInv'
  BY <1>3, <1>0, EndingPreserves DEF StopNode, Alive
<1>4. ASSUME NEW p \in Processes, Crash(p) PROVE IInv'
  <2>1. gone \subseteq gone' /\ gone' \subseteq started /\ crashed' \subseteq gone'
    BY <1>4, <1>0 DEF Crash, EndsWith, Alive
  <2>2. shutdown' \in BOOLEAN /\ (shutdown => shutdown')
    BY <1>4, <1>0 DEF Crash
  <2>3. "rviz2_monitor" \in gone' \ gone => "rviz2_monitor" \in crashed'
    BY <1>4 DEF Crash, EndsWith
  <2>. QED  BY <1>4, <2>1, <2>2, <2>3, EndingPreserves DEF Crash
<1>5. CASE SpawnNext
  <2>1. spawned' \in 0..Timers
    BY <1>5, TimersType DEF SpawnNext, IInv, TypeOK
  <2>2. TodoIsRest' /\ SourceFitsMode'
    BY <1>5, ForksUnchanged DEF SpawnNext, session, IInv, SourceFitsMode
  <2>. QED
    BY <1>5, <2>1, <2>2 DEF SpawnNext, session, forks, IInv, TypeOK, LaunchesHeard,
                      NavigationHasScan, RvizMonitorEnd, RvizAfterMoveGroup
<1>6. ASSUME NEW c \in Controllers, Activate(c) PROVE IInv'
  BY <1>6, ActivatePreserves
<1>7. CASE Interrupt
  <2>1. gone \subseteq gone' /\ gone' \subseteq started
    BY <1>7, <1>0 DEF Interrupt, Alive
  <2>. QED  BY <1>7, <1>0, <2>1, EndingPreserves DEF Interrupt
<1>8. CASE tf_static_ready
  BY <1>8, ReadyPreserves
<1>9. CASE launch_process
  BY <1>9, LaunchProcessPreserves
<1>10. CASE DummyLidarGate
  <2>1. simulation /\ LidarTargets \subseteq heard["controllers_state_monitor"]
    BY <1>10 DEF DummyLidarGate, check_all_active, all_active, Targets, Alive, IInv,
                 SourceFitsMode
  <2>. QED
    BY <1>10, <2>1, StartPreserves DEF DummyLidarGate, check_all_active, Detached, RealLidar
<1>11. CASE MoveitGate
  <2>1. MoveitTargets \subseteq heard["moveit_monitor"]
    BY <1>11 DEF MoveitGate, check_all_active, all_active, Targets
  <2>. QED
    BY <1>11, <2>1, StartPreserves DEF MoveitGate, check_all_active, Detached, RealLidar
<1>12. CASE MoveGroup
  BY <1>12, StartPreserves DEF MoveGroup, Alive, Detached, RealLidar
<1>13. CASE check_server
  BY <1>13, <1>0, EndingPreserves DEF check_server, Alive, Present
<1>14. CASE NavGate
  BY <1>14, StartPreserves DEF NavGate, Detached, RealLidar
<1>. QED
  BY <1>1, <1>2, <1>3, <1>4, <1>5, <1>6, <1>7, <1>8, <1>9, <1>10, <1>11, <1>12, <1>13,
     <1>14
  DEF Next

\* The strengthened invariant holds in every reachable state.
THEOREM Invariance == Spec => []IInv
BY InitInv, NextInv, PTL DEF Spec

-----------------------------------------------------------------------------
(* The properties.                                                         *)

\* The state keeps its type: only what was started ends, only what ended has
\* crashed, and a monitor has only heard what became active.
THEOREM TypeCorrect == Spec => []TypeOK
<1>1. IInv => TypeOK
  BY DEF IInv
<1>. QED  BY <1>1, Invariance, PTL

\* The real and the dummy LiDAR are never started in one session.
THEOREM OneSource == Spec => []OneScanSource
<1>1. IInv => OneScanSource
  BY DEF IInv, SourceFitsMode, RealLidar, OneScanSource
<1>. QED  BY <1>1, Invariance, PTL

\* In simulation navigation comes up behind the controllers of the base, on the
\* real robot behind the fork of the manager, or else beside a leftover LiDAR.
THEOREM NavigationBehindGates == Spec => []NavigationInOrder
<1>1. IInv => NavigationInOrder
  <2>. SUFFICES ASSUME IInv, "navigation" \in started,
                       ~(RealLidar \subseteq left), "dummy_lidar" \notin left
                PROVE  IF simulation THEN LidarTargets \subseteq active
                                     ELSE Tried("controller_manager")
    BY DEF NavigationInOrder, RealLidar
  <2>. USE DEF IInv
  <2>1. CASE "dummy_lidar" \in started
    <3>1. simulation
      BY <2>1 DEF SourceFitsMode
    <3>2. LidarTargets \subseteq active
      BY <2>1 DEF TypeOK, LifecycleMonitors, LaunchesHeard
    <3>. QED  BY <3>1, <3>2
  <2>2. CASE RealLidar \intersect started # {}
    BY <2>2 DEF SourceFitsMode
  <2>. QED  BY <2>1, <2>2 DEF NavigationHasScan, RealLidar
<1>. QED  BY <1>1, Invariance, PTL

\* move_group is not started before its controllers have all been active.
THEOREM MoveGroupOnRobot == Spec => []MoveGroupHasControllers
<1>1. IInv => MoveGroupHasControllers
  BY DEF IInv, TypeOK, LifecycleMonitors, LaunchesHeard, MoveGroupHasControllers
<1>. QED  BY <1>1, Invariance, PTL

\* rviz2 comes up after move_group unless its monitor died.
THEOREM RvizInOrder == Spec => []RvizAfterMoveGroup
<1>1. IInv => RvizAfterMoveGroup
  BY DEF IInv
<1>. QED  BY <1>1, Invariance, PTL

\* After a shutdown only detached processes start, and once the nodes of the
\* launch have stopped, only move_group.
THEOREM ShutdownStartsOnlyDetached == Spec => OnlyDetachedAfterShutdown
<1>. DEFINE A == shutdown =>
                   started' \ started \subseteq
                     IF \E p \in LaunchNodes : Alive(p) THEN Detached ELSE {"move_group"}
<1>1. IInv /\ [Next]_vars => [A]_vars
  <2>. SUFFICES ASSUME IInv, Next, shutdown
                PROVE  started' \ started \subseteq
                         IF \E p \in LaunchNodes : Alive(p) THEN Detached ELSE {"move_group"}
    OBVIOUS
  <2>1. CASE started' = started
    BY <2>1
  <2>2. CASE launch_process
    <3>1. Head(todo) \in Detached
      BY <2>2 DEF launch_process, IInv, TypeOK
    <3>. QED  BY <2>2, <3>1 DEF launch_process, LaunchNodes
  <2>3. CASE DummyLidarGate
    BY <2>3 DEF DummyLidarGate, check_all_active, Start, LaunchNodes, Detached
  <2>4. CASE MoveitGate
    BY <2>4 DEF MoveitGate, check_all_active, Start, LaunchNodes, Detached
  <2>5. CASE MoveGroup
    BY <2>5 DEF MoveGroup, Start, Detached
  <2>6. CASE NavGate
    BY <2>6 DEF NavGate, Start, LaunchNodes, Detached
  <2>. QED
    BY <2>1, <2>2, <2>3, <2>4, <2>5, <2>6
    DEF Next, LaunchNode, StopNode, Crash, SpawnNext, Activate, Interrupt, check_server,
        tf_static_ready
<1>. QED  BY <1>1, Invariance, PTL DEF Spec, OnlyDetachedAfterShutdown
=============================================================================
