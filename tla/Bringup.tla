------------------------------ MODULE Bringup ------------------------------
(***************************************************************************)
(* The bring-up of the robot as a whole: what bringup_robot.launch.py      *)
(* starts, when, and what the monitors it starts add to it.                *)
(*                                                                         *)
(* Three kinds of processes: those of the launch itself (LaunchNodes);     *)
(* those a monitor forks or hands to a background shell (Detached), which  *)
(* the launch does not know and does not stop; and the controllers inside  *)
(* controller_manager.  LifecycleGate has the details of the monitors that *)
(* wait for controllers, TfStaticGate those of the pair that waits for     *)
(* /tf_static; here they have the state that other processes depend on.    *)
(*                                                                         *)
(* A session may find Detached processes that an earlier one left behind:  *)
(* README.md:13 of the robot tells the user to look for them when a start  *)
(* fails.  They publish and serve for the new session as for the old one.  *)
(***************************************************************************)
EXTENDS Naturals, Sequences, FiniteSets, SequencesExt

CONSTANTS
  controller_defs,       \* the controllers, in the order of the launch file
  priority_controllers,  \* those that are spawned one by one
  LidarTargets,   \* what ControllersStateMonitor waits for
  MoveitTargets,  \* what BringupMoveitMonitor waits for
  Leftovers,      \* bound: the sets of processes an earlier session may leave
  Interrupts,     \* bound: whether the user presses Ctrl-C
  MaxFaults       \* bound: processes that die by themselves and forks that fail

Controllers == { controller_defs[i] : i \in DOMAIN controller_defs }

LaunchNodes ==
  {"nav_monitor", "controllers_state_monitor", "moveit_monitor", "rviz2_monitor",
   "tf_static_monitor", "tf_static_ready_monitor", "robot_state_publisher", "rviz2"}
Detached ==
  {"controller_manager", "urg_node2", "laser_filter", "dummy_lidar",
   "moveit_launch", "move_group", "navigation"}
Processes == LaunchNodes \union Detached
LifecycleMonitors == {"controllers_state_monitor", "moveit_monitor"}
Targets(m) == IF m = "moveit_monitor" THEN MoveitTargets ELSE LidarTargets

ASSUME DefsAssumption == controller_defs \in Seq(STRING)
\* A monitor whose list names a controller that is never spawned waits for ever.
ASSUME TargetsAssumption ==
  /\ LidarTargets # {} /\ LidarTargets \subseteq Controllers
  /\ MoveitTargets # {} /\ MoveitTargets \subseteq Controllers
ASSUME LeftoversAssumption == Leftovers \subseteq SUBSET Detached
ASSUME InterruptsAssumption == Interrupts \in BOOLEAN
ASSUME FaultsAssumption == MaxFaults \in Nat

VARIABLES
  left,      \* what an earlier session left running
  simulation, display_rviz2,  \* the arguments of the launch
  started,   \* the processes that have been started
  gone,      \* those of them that have ended
  spawned,   \* how many of the spawner timers have fired
  triggered_, todo,  \* of tf_static_ready_monitor: has the message come, and
                     \* the launch_process calls the callback has still to make
  active,    \* the controllers that have become active
  heard,     \* for each lifecycle monitor, the targets it has heard become active
  shutdown,  \* the launch is shutting down
  crashed    \* those of gone that died by themselves

session == <<left, simulation, display_rviz2>>  \* never changes
forks == <<triggered_, todo>>
controllers == <<spawned, active, heard>>
vars == <<session, started, gone, forks, controllers, shutdown, crashed>>

-----------------------------------------------------------------------------
Alive(p) == p \in started /\ p \notin gone

\* Whether process p runs, of this session or an earlier one.
Present(p) == Alive(p) \/ p \in left

Init ==
  /\ left \in Leftovers
  /\ simulation \in BOOLEAN /\ display_rviz2 \in BOOLEAN
  /\ started = {} /\ gone = {}
  /\ spawned = 0
  /\ triggered_ = FALSE /\ todo = <<>>
  /\ active = {}
  /\ heard = [m \in LifecycleMonitors |-> {}]
  /\ shutdown = FALSE
  /\ crashed = {}

-----------------------------------------------------------------------------
(* The spawner timers: one for each controller of priority_controllers, in *)
(* the order of controller_defs, and one for all others.                   *)

\* The positions in controller_defs of those with a timer of their own.
priority_defs ==
  { i \in DOMAIN controller_defs : controller_defs[i] \in priority_controllers }
Timers == Cardinality(priority_defs) + 1

\* The timer of each of them: their place among each other.
TimerOf == [i \in priority_defs |-> Cardinality({ j \in priority_defs : j <= i })]

\* The controllers whose spawners the first k timers have started.
Spawned(k) ==
  { c \in Controllers :
      IF c \in priority_controllers
      THEN \E i \in priority_defs : controller_defs[i] = c /\ TimerOf[i] <= k
      ELSE k = Timers }

-----------------------------------------------------------------------------
(* The launch.                                                             *)

\* The nodes of bringup_robot_model.launch.py.
RobotModel ==
  {"tf_static_monitor", "tf_static_ready_monitor", "robot_state_publisher"}

\* Mutant: the robot model is only brought up in simulation.
LaunchCondition_SimModel(p) ==
  CASE p = "controllers_state_monitor" -> simulation
    [] p \in RobotModel -> "moveit_monitor" \in started /\ simulation
    [] p = "rviz2"      -> "rviz2_monitor" \in gone /\ display_rviz2
    [] OTHER            -> TRUE

\* When the launch starts a node: at once, or when a handler registered for
\* the start (robot model) or the end (rviz2) of another fires.
LaunchCondition(p) ==
  CASE p = "controllers_state_monitor" -> simulation
    [] p \in RobotModel -> "moveit_monitor" \in started
    [] p = "rviz2"      -> "rviz2_monitor" \in gone /\ display_rviz2
    [] OTHER            -> TRUE

\* Mutant: timers and handlers survive the shutdown.
LaunchNode_AfterShutdown(p) ==
  /\ p \notin started /\ LaunchCondition(p)
  /\ started' = started \union {p}
  /\ UNCHANGED <<session, gone, forks, controllers, shutdown, crashed>>

LaunchNode(p) ==
  /\ ~shutdown
  /\ p \notin started /\ LaunchCondition(p)
  /\ started' = started \union {p}
  /\ UNCHANGED <<session, gone, forks, controllers, shutdown, crashed>>

\* Mutant: one timer more than there are spawners to start.
SpawnNext_OneMore ==
  /\ ~shutdown
  /\ RobotModel \subseteq started /\ spawned <= Timers
  /\ spawned' = spawned + 1
  /\ UNCHANGED <<session, started, gone, forks, active, heard, shutdown, crashed>>

\* The next spawner timer fires, 2 s after the one before.
SpawnNext ==
  /\ ~shutdown
  /\ RobotModel \subseteq started /\ spawned < Timers
  /\ spawned' = spawned + 1
  /\ UNCHANGED <<session, started, gone, forks, active, heard, shutdown, crashed>>

\* The launch ends its nodes, one after the other, and no Detached.  A signal
\* ends spin(), and with it the process, between two callbacks.
StopNode(p) ==
  /\ shutdown
  /\ p \in LaunchNodes /\ Alive(p)
  /\ p = "tf_static_ready_monitor" => todo = <<>>
  /\ gone' = gone \union {p}
  /\ UNCHANGED <<session, started, forks, controllers, shutdown, crashed>>

\* A launch in the background and the process with whose end it ends.
MoveitLaunch == {"moveit_launch", "move_group"}

\* The user presses Ctrl-C.  Detached are in the process group of the
\* terminal: each of them may get the signal and end, or ignore it; a launch
\* ends with what it has started.
Interrupt ==
  /\ Interrupts
  /\ started # {} /\ ~shutdown
  /\ shutdown' = TRUE
  /\ \E ps \in SUBSET { p \in Detached : Alive(p) } :
       gone' = gone \union ps \union
                 (IF ps \intersect MoveitLaunch = {} THEN {} ELSE MoveitLaunch \intersect started)
  /\ UNCHANGED <<session, started, forks, controllers, crashed>>

-----------------------------------------------------------------------------
(* The static transforms.                                                  *)

\* Mutant: the LiDAR driver is forked in every mode.
Commands_AlwaysLidar == <<"controller_manager", "urg_node2", "laser_filter">>

\* What tf_static_ready_monitor forks, in the order of the callback.  (The
\* joystick and the teleoperation, which nothing waits for, are left out.)
Commands ==
  IF simulation THEN <<"controller_manager">>
                ELSE <<"controller_manager", "urg_node2", "laser_filter">>

\* Whether launch_process has been called for p.
Tried(p) == triggered_ /\ p \notin ToSet(todo)

\* The forks that have failed, and all faults so far.
failed == { p \in ToSet(Commands) : Tried(p) /\ p \notin started }
faults == Cardinality(crashed) + Cardinality(failed)

\* tf_static_monitor has seen a transform (one of bringup_camera.launch.py is
\* there from the beginning, so it waits for no other), publishes
\* tf_static_ready and ends in the same callback.  The message reaches the
\* reader, or is lost with its writer if the reader was not matched by then.
tf_static_ready ==
  /\ Alive("tf_static_monitor")
  /\ gone' = gone \union {"tf_static_monitor"}
  /\ \/ /\ Alive("tf_static_ready_monitor") /\ ~triggered_
        /\ triggered_' = TRUE /\ todo' = Commands
     \/ UNCHANGED forks
  /\ UNCHANGED <<session, started, controllers, shutdown, crashed>>

\* The next call of the callback: a child, or a failed fork() that is only
\* logged.  (A child whose execvp() fails is one that dies at once.)
launch_process ==
  /\ Alive("tf_static_ready_monitor") /\ todo # <<>>
  /\ todo' = Tail(todo)
  /\ \/ started' = started \union {Head(todo)}
     \/ faults < MaxFaults /\ UNCHANGED started
  /\ UNCHANGED <<session, gone, triggered_, controllers, shutdown, crashed>>

-----------------------------------------------------------------------------
(* Faults.                                                                 *)

\* move_group takes the launch it belongs to with it (on_exit=Shutdown()).
EndsWith(p) == {p} \union (IF p = "move_group" THEN {"moveit_launch"} ELSE {})

\* A process dies.  nav_monitor takes the launch with it (on_exit=Shutdown()).
Crash(p) ==
  /\ faults < MaxFaults
  /\ Alive(p)
  /\ crashed' = crashed \union {p}
  /\ gone' = gone \union EndsWith(p)
  /\ shutdown' = (shutdown \/ p = "nav_monitor")
  /\ UNCHANGED <<session, started, forks, controllers>>

-----------------------------------------------------------------------------
(* The monitors.                                                           *)

Start(p) ==
  /\ started' = started \union {p}
  /\ UNCHANGED <<session, gone, forks, controllers, shutdown, crashed>>

\* A spawner has its controller activated.  A lifecycle monitor that has it
\* among its targets and is up hears of it if it has discovered the publisher
\* by then.  Spawners are nodes of the launch and find the manager by its
\* name; the manager of this session has read the robot description first.
Activate(c) ==
  /\ ~shutdown
  /\ c \in Spawned(spawned) /\ c \notin active
  /\ \/ Alive("controller_manager") /\ "robot_state_publisher" \in started
     \/ "controller_manager" \in left
  /\ active' = active \union {c}
  /\ \E reached \in SUBSET { m \in LifecycleMonitors : Alive(m) /\ c \in Targets(m) } :
       heard' = [m \in LifecycleMonitors |->
                   IF m \in reached THEN heard[m] \union {c} ELSE heard[m]]
  /\ UNCHANGED <<session, started, gone, forks, spawned, shutdown, crashed>>

\* Mutant: any active target is enough.
all_active_Any(m) == heard[m] # {}

\* The table states_ of monitor m is complete.
all_active(m) == \A c \in Targets(m) : c \in heard[m]

\* The callback of monitor m for an activation it has heard of: l, which is
\* launched in the background, is launched once.
check_all_active(m, l) ==
  /\ Alive(m)
  /\ l \notin started
  /\ all_active(m)
  /\ Start(l)

\* Mutant: the dummy LiDAR does not wait for its controllers.
DummyLidarGate_NoWait ==
  /\ Alive("controllers_state_monitor") /\ "dummy_lidar" \notin started
  /\ Start("dummy_lidar")

DummyLidarGate == check_all_active("controllers_state_monitor", "dummy_lidar")
MoveitGate == check_all_active("moveit_monitor", "moveit_launch")

\* The timer of bringup_moveit.launch.py, a launch of its own.
MoveGroup ==
  /\ Alive("moveit_launch") /\ "move_group" \notin started
  /\ Start("move_group")

\* Mutant: the rviz2 monitor ends whether or not the server is there.
check_server_Ignored ==
  /\ Alive("rviz2_monitor")
  /\ gone' = gone \union {"rviz2_monitor"}
  /\ UNCHANGED <<session, started, forks, controllers, shutdown, crashed>>

\* check_server() sees the action server of move_group and ends its process.
check_server ==
  /\ Alive("rviz2_monitor") /\ Present("move_group")
  /\ gone' = gone \union {"rviz2_monitor"}
  /\ UNCHANGED <<session, started, forks, controllers, shutdown, crashed>>

\* A LiDAR publishes through its filter: the real one, of processes forked one
\* by one, or the dummy one, which is a launch with a filter of its own.
RealScan == Present("urg_node2") /\ Present("laser_filter")
DummyScan == Present("dummy_lidar")

\* BringupNavigationMonitor::callback, on the first scan.
NavGate ==
  /\ Alive("nav_monitor") /\ "navigation" \notin started
  /\ RealScan \/ DummyScan
  /\ Start("navigation")

-----------------------------------------------------------------------------
Next ==
  \/ \E p \in LaunchNodes : LaunchNode(p) \/ StopNode(p)
  \/ \E p \in Processes : Crash(p)
  \/ SpawnNext
  \/ \E c \in Controllers : Activate(c)
  \/ Interrupt
  \/ tf_static_ready \/ launch_process
  \/ DummyLidarGate \/ MoveitGate \/ MoveGroup \/ check_server \/ NavGate

Spec == Init /\ [][Next]_vars

\* Everything but the user and the faults: the launch starts what it is told
\* to, timers fire, spawners end, and a monitor acts on what it has heard.
\* That a step happens is fair, never how it ends: a message that is published
\* may be lost, a fork may fail, an activation may not be heard.  A spawner
\* makes one attempt: it need not succeed where a leftover manager may be the
\* one that answers, or the robot description is gone.
FairSpec ==
  /\ Spec
  /\ \A p \in LaunchNodes : WF_vars(LaunchNode(p)) /\ WF_vars(StopNode(p))
  /\ WF_vars(SpawnNext)
  /\ \A c \in Controllers :
       WF_vars(/\ Alive("robot_state_publisher") /\ "controller_manager" \notin left
               /\ Activate(c))
  /\ WF_vars(tf_static_ready) /\ WF_vars(launch_process)
  /\ WF_vars(DummyLidarGate) /\ WF_vars(MoveitGate)
  /\ WF_vars(MoveGroup) /\ WF_vars(check_server) /\ WF_vars(NavGate)

-----------------------------------------------------------------------------
(* Properties.                                                             *)

\* Types; only processes that were started can end, and only those crash.
TypeOK ==
  /\ left \in Leftovers
  /\ simulation \in BOOLEAN /\ display_rviz2 \in BOOLEAN
  /\ started \subseteq Processes
  /\ gone \subseteq started
  /\ spawned \in 0..Timers
  /\ triggered_ \in BOOLEAN
  /\ todo \in Seq(Detached)
  /\ active \subseteq Controllers
  /\ heard \in [LifecycleMonitors -> SUBSET active]
  /\ shutdown \in BOOLEAN
  /\ crashed \subseteq gone

\* A session has one source of /scan of its own: the dummy LiDAR of simulation
\* and the real one are started by two monitors that do not know of each other.
\* (A leftover LiDAR may publish beside either.)
OneScanSource ==
  "dummy_lidar" \in started => {"urg_node2", "laser_filter"} \intersect started = {}

\* Navigation comes up in the order the gates mean, through three processes
\* that share nothing but topics.  In simulation the first scan is behind the
\* controllers of the base.  On the real robot it only says that the fork of
\* controller_manager was tried before those of the LiDAR: nothing waits for
\* the manager to run or the base to move.  A LiDAR that an earlier session left
\* behind starts navigation in any order.
NavigationInOrder ==
  "navigation" \in started =>
    \/ {"urg_node2", "laser_filter"} \subseteq left \/ "dummy_lidar" \in left
    \/ IF simulation THEN LidarTargets \subseteq active ELSE Tried("controller_manager")

\* MoveIt starts on a robot whose controllers have all been active, whichever
\* controller_manager they are in.
MoveGroupHasControllers == "move_group" \in started => MoveitTargets \subseteq active

\* rviz2 is shown after move_group came up, unless its monitor died: the
\* handler is for any end of the process (bringup_robot.launch.py:143-155).
RvizAfterMoveGroup ==
  "rviz2" \in started =>
    \/ "move_group" \in started \union left
    \/ "rviz2_monitor" \in crashed

\* A shutdown of the launch is no shutdown of the robot, but it starts nothing
\* of the launch any more: what still comes up is detached, and once the nodes
\* have stopped it can only be move_group, by the launch it belongs to.
OnlyDetachedAfterShutdown ==
  [][shutdown =>
       started' \ started \subseteq
         IF \E p \in LaunchNodes : Alive(p) THEN Detached ELSE {"move_group"}]_vars

\* What a session brings up in each mode.
Wanted ==
  {"nav_monitor", "moveit_monitor", "rviz2_monitor"} \union RobotModel
    \union ToSet(Commands)
    \union {"moveit_launch", "move_group", "navigation"}
    \union (IF simulation THEN {"controllers_state_monitor", "dummy_lidar"} ELSE {})
    \union (IF display_rviz2 THEN {"rviz2"} ELSE {})

\* What process p comes directly after, by way of a topic or a process event.
After(p) ==
  LET manager == {"controller_manager", "robot_state_publisher"}
  IN CASE p \in ToSet(Commands)  -> {"tf_static_monitor", "tf_static_ready_monitor"}
       [] p = "dummy_lidar"   -> manager \union {"controllers_state_monitor"}
       [] p = "moveit_launch" -> manager \union {"moveit_monitor"}
       [] p = "move_group"    -> {"moveit_launch"}
       [] p = "rviz2"         -> {"move_group"} \ left
       [] p = "navigation"    ->
            (IF simulation THEN {"dummy_lidar"} ELSE {"urg_node2", "laser_filter"}) \ left
       [] OTHER -> {}

\* tf_static_monitor ended and its message was not heard.
HandOverLost == "tf_static_monitor" \in gone /\ ~triggered_

\* A lifecycle monitor has to wait for an activation that it will not hear of:
\* it had not discovered the controller, or a leftover manager may be in the way.
Unheard(m) ==
  \/ (active \ heard[m]) \intersect Targets(m) # {}
  \/ "controller_manager" \in left

\* A loss stays where it is: in the end every process of the mode has been
\* brought up, unless the step that starts it was lost (its fork failed, the
\* hand-over or an activation was not heard), a process that it comes directly
\* after died or was not brought up itself, or the session was ended.  The
\* gates never wait for each other in a circle, and the branches that only
\* share a part of the chain do not hold each other up.
LossContained ==
  <>[](\/ shutdown
       \/ \A p \in Wanted :
            \/ p \in started
            \/ p \in ToSet(Commands) /\ HandOverLost
            \/ p \in failed
            \/ \E q \in After(p) : q \in crashed \/ q \notin started
            \/ \E m \in After(p) \intersect LifecycleMonitors : Unheard(m))
=============================================================================
