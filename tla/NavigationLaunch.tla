--------------------------- MODULE NavigationLaunch ---------------------------
(***************************************************************************)
(* Localization, SLAM and navigation: the nodes that                       *)
(* bringup_robot.launch.py ("robot") and the launch its navigation monitor *)
(* puts into the background ("navigation") start in one namespace, without *)
(* knowing of each other; and AmclStateMonitor                             *)
(* (amcl_state_monitor_node.cpp), which asks whoever is called /amcl for   *)
(* its state once a second.  The nodes themselves are external.            *)
(***************************************************************************)
EXTENDS Naturals, FiniteSets, SequencesExt

CONSTANTS
  MaxPending,  \* bound: requests of AmclStateMonitor without an answer
  MaxCrashes,  \* bound: crashes
  Mortal,      \* bound: the names of the nodes that may crash
  Together     \* bound: the names of the nodes that come up in one step, those
               \* of a launch at a time, because nothing tells their order

ASSUME PendingAssumption == MaxPending \in Nat \ {0}
ASSUME CrashesAssumption == MaxCrashes \in Nat

VARIABLES
  slam, use_localization, use_composition,  \* the arguments of the launches:
                \* the last two keep their default unless navigation is
                \* launched by hand
  launched,     \* the launches that have begun
  running,      \* the nodes that run
  crashed,      \* the nodes that died
  amcl_active,  \* the amcl nodes that have been activated
  ever_active,  \* history: an amcl has been active
  pending,      \* for each request without an answer, the nodes that have it
  answers,      \* answers on their way: was the state active
  triggered_

args == <<slam, use_localization, use_composition>>
monitor == <<pending, answers, triggered_>>
vars == <<args, launched, running, crashed, amcl_active, ever_active, monitor>>

-----------------------------------------------------------------------------
(* The launch files.                                                       *)

Nodes(launch, names, kind) == [launch : {launch}, name : names, kind : {kind}]

\* localization.launch.py: what it runs as processes, what it loads into a
\* container (map_server is described twice, with a map and without, and one
\* of the two is taken), and the node_names of its lifecycle manager.
LocalizationProcesses == {"map_server", "amcl", "lifecycle_manager_localization"}
LocalizationComponents == {"map_server", "amcl", "lifecycle_manager_localization"}
LocalizationManaged == {"map_server", "amcl"}

\* slam_toolbox.launch.py; map_saver_server calls its node map_saver.
SlamProcesses == {"map_saver", "lifecycle_manager_slam", "slam_toolbox"}
SlamManaged == {"map_saver"}

\* navigation.launch.py: the three lists, each written out by hand there, too.
NavigationProcesses ==
  {"controller_server", "planner_server", "behavior_server", "bt_navigator",
   "waypoint_follower", "lifecycle_manager_navigation"}

\* Mutant: a server added to the processes was forgotten among the components.
NavigationComponents_NoFollower ==
  {"controller_server", "planner_server", "behavior_server", "bt_navigator",
   "lifecycle_manager_navigation"}

NavigationComponents ==
  {"controller_server", "planner_server", "behavior_server", "bt_navigator",
   "waypoint_follower", "lifecycle_manager_navigation"}

NavigationManaged ==
  {"controller_server", "planner_server", "behavior_server", "bt_navigator",
   "waypoint_follower"}

\* The node_names of each lifecycle manager.
Managed ==
  [lifecycle_manager_localization |-> LocalizationManaged,
   lifecycle_manager_slam         |-> SlamManaged,
   lifecycle_manager_navigation   |-> NavigationManaged]

\* bringup_robot.launch.py: localization without composition, unless slam.
RobotNodes == IF slam THEN {} ELSE Nodes("robot", LocalizationProcesses, "process")

\* One of the two groups of localization.launch.py or navigation.launch.py.
Group(processes, components) ==
  IF use_composition THEN Nodes("navigation", components, "component")
                     ELSE Nodes("navigation", processes, "process")

\* Mutant: the precedence of "not slam and use_localization" is misread.
NavigationNodes_Precedence ==
  UNION {
    IF slam /\ use_localization THEN Nodes("navigation", SlamProcesses, "process") ELSE {},
    IF ~(slam /\ use_localization)
      THEN Group(LocalizationProcesses, LocalizationComponents) ELSE {},
    Group(NavigationProcesses, NavigationComponents),
    IF use_composition THEN Nodes("navigation", {"nav2_container"}, "process") ELSE {},
    IF slam THEN {} ELSE Nodes("navigation", {"static_map_to_odom_tf"}, "process") }

\* bringup_navigation.launch.py: slam_toolbox or localization, and navigation.
NavigationNodes ==
  UNION {
    IF slam /\ use_localization THEN Nodes("navigation", SlamProcesses, "process") ELSE {},
    IF ~slam /\ use_localization
      THEN Group(LocalizationProcesses, LocalizationComponents) ELSE {},
    Group(NavigationProcesses, NavigationComponents),
    IF use_composition THEN Nodes("navigation", {"nav2_container"}, "process") ELSE {},
    IF slam THEN {} ELSE Nodes("navigation", {"static_map_to_odom_tf"}, "process") }

Container == Nodes("navigation", {"nav2_container"}, "process")
Amcls == { n \in RobotNodes \union NavigationNodes : n.name = "amcl" }

Init ==
  /\ slam \in BOOLEAN /\ use_localization \in BOOLEAN /\ use_composition \in BOOLEAN
  /\ launched = {}
  /\ running = {} /\ crashed = {}
  /\ amcl_active = {} /\ ever_active = FALSE
  /\ pending = <<>> /\ answers = <<>>
  /\ triggered_ = FALSE

-----------------------------------------------------------------------------
(* The nodes.                                                              *)

\* The navigation monitor starts (and with it localization); a scan arrives
\* and it, or the user, launches navigation.
Launch(l) ==
  /\ l \notin launched
  /\ l = "navigation" => "robot" \in launched
  /\ launched' = launched \union {l}
  /\ UNCHANGED <<args, running, crashed, amcl_active, ever_active, monitor>>

\* A node and what comes up with it.
Batch(n) ==
  {n} \union
  { k \in (RobotNodes \union NavigationNodes) \ crashed :
      /\ k.launch = n.launch /\ k.kind = n.kind
      /\ {k.name, n.name} \subseteq Together }

\* Mutant: components do not wait for their container.
StartNode_NoContainer(n) ==
  /\ n.launch \in launched
  /\ n \notin running \union crashed
  /\ running' = running \union Batch(n)
  /\ UNCHANGED <<args, launched, crashed, amcl_active, ever_active, monitor>>

\* A launch starts a node of its description; a component is loaded by the
\* container, for which LoadComposableNodes waits.
StartNode(n) ==
  /\ n.launch \in launched
  /\ n \notin running \union crashed
  /\ n.kind = "component" => Container \subseteq running
  /\ running' = running \union Batch(n)
  /\ UNCHANGED <<args, launched, crashed, amcl_active, ever_active, monitor>>

\* A node dies, the container with everything in it.  use_respawn is False:
\* nothing comes back.  Requests that no node has any more stay pending.
Crash(n) ==
  /\ Cardinality(crashed) < MaxCrashes
  /\ n \in running /\ n.name \in Mortal
  /\ LET dead == IF n \in Container
                   THEN {n} \union { c \in running : c.kind = "component" }
                   ELSE {n}
     IN  /\ running' = running \ dead
         /\ crashed' = crashed \union dead
         /\ amcl_active' = amcl_active \ dead
         /\ pending' = [i \in DOMAIN pending |-> pending[i] \ dead]
  /\ UNCHANGED <<args, launched, ever_active, answers, triggered_>>

\* A lifecycle manager activates an amcl of its launch or, as both are called
\* /amcl, of the other one.
ActivateAmcl(n) ==
  /\ n \in Amcls \intersect running /\ n \notin amcl_active
  /\ \E m \in running : m.name = "lifecycle_manager_localization"
  /\ amcl_active' = amcl_active \union {n}
  /\ ever_active' = TRUE
  /\ UNCHANGED <<args, launched, running, crashed, monitor>>

-----------------------------------------------------------------------------
(* AmclStateMonitor.                                                       *)

\* Mutant: the test of service_is_ready() is inverted.
poll_amcl_state_Inverted ==
  /\ "robot" \in launched /\ ~slam
  /\ Amcls \intersect running = {}
  /\ Len(pending) + Len(answers) < MaxPending
  /\ pending' = Append(pending, Amcls \intersect running)
  /\ UNCHANGED <<args, launched, running, crashed, amcl_active, ever_active, answers,
                 triggered_>>

\* The timer, if the service is ready: one more request, whether or not the
\* last one was answered.  Every node of that name gets it.
poll_amcl_state ==
  /\ "robot" \in launched /\ ~slam
  /\ Amcls \intersect running # {}
  /\ Len(pending) + Len(answers) < MaxPending
  /\ pending' = Append(pending, Amcls \intersect running)
  /\ UNCHANGED <<args, launched, running, crashed, amcl_active, ever_active, answers,
                 triggered_>>

\* A node answers with its state; the first answer to a request counts.
Answer(n) ==
  /\ \E i \in DOMAIN pending :
        /\ n \in pending[i]
        /\ pending' = RemoveAt(pending, i)
  /\ answers' = Append(answers, n \in amcl_active)
  /\ UNCHANGED <<args, launched, running, crashed, amcl_active, ever_active, triggered_>>

\* Mutant: any answer will do.
HandleAnswer_Any ==
  /\ answers # <<>>
  /\ answers' = Tail(answers)
  /\ triggered_' = TRUE
  /\ UNCHANGED <<args, launched, running, crashed, amcl_active, ever_active, pending>>

\* Mutant: the flag follows the answers.
HandleAnswer_Follow ==
  /\ answers # <<>>
  /\ answers' = Tail(answers)
  /\ triggered_' = Head(answers)
  /\ UNCHANGED <<args, launched, running, crashed, amcl_active, ever_active, pending>>

\* The callback of the request.
HandleAnswer ==
  /\ answers # <<>>
  /\ answers' = Tail(answers)
  /\ triggered_' = (triggered_ \/ Head(answers))
  /\ UNCHANGED <<args, launched, running, crashed, amcl_active, ever_active, pending>>

-----------------------------------------------------------------------------
Next ==
  \/ \E l \in {"robot", "navigation"} : Launch(l)
  \/ \E n \in RobotNodes \union NavigationNodes :
        StartNode(n) \/ Crash(n) \/ ActivateAmcl(n) \/ Answer(n)
  \/ poll_amcl_state
  \/ HandleAnswer

Spec == Init /\ [][Next]_vars

\* Launches, timers and executors run, a lifecycle manager activates what it
\* finds and servers answer; nothing has to crash.  Each node is started and
\* activated once at most, so fairness of one of them is fairness of all.
FairSpec ==
  /\ Spec
  /\ WF_vars(\E l \in {"robot", "navigation"} : Launch(l))
  /\ WF_vars(\E n \in RobotNodes \union NavigationNodes : StartNode(n))
  /\ WF_vars(\E n \in Amcls : ActivateAmcl(n))
  /\ WF_vars(\E n \in Amcls : Answer(n))
  /\ WF_vars(poll_amcl_state)
  /\ WF_vars(HandleAnswer)

-----------------------------------------------------------------------------
(* Properties.                                                             *)

\* Types; no component is outside its container or outlives it.
TypeOK ==
  /\ slam \in BOOLEAN /\ use_localization \in BOOLEAN /\ use_composition \in BOOLEAN
  /\ launched \subseteq {"robot", "navigation"}
  /\ running \subseteq RobotNodes \union NavigationNodes
  /\ (\E n \in running : n.kind = "component") => Container \subseteq running
  /\ crashed \intersect running = {}
  /\ amcl_active \subseteq Amcls \intersect running
  /\ ever_active \in BOOLEAN
  /\ pending \in Seq(SUBSET Amcls) /\ answers \in Seq(BOOLEAN)
  /\ Len(pending) + Len(answers) <= MaxPending
  /\ triggered_ \in BOOLEAN

\* With slam neither launch starts localization (bringup_robot.launch.py:157),
\* nor anything else that would publish map -> odom beside slam_toolbox; and
\* without slam there is no slam_toolbox beside amcl.
SlamAlone ==
  \A n \in running :
    n.name \notin (IF slam THEN LocalizationProcesses \union LocalizationComponents
                                  \union {"static_map_to_odom_tf"}
                           ELSE SlamProcesses)

\* "AMCL is active." is only said when some amcl has been, however old the
\* answer is and whichever of the two nodes gave it (:38-43).
AmclTruth == triggered_ => ever_active

\* What the other monitors of the bring-up promise, this one keeps, too, though
\* it polls: it speaks once, after its target has been active, and never takes
\* it back, when answers arrive late or the two amcl contradict each other.
Latch == INSTANCE LaunchLatch
           WITH Targets <- {"amcl"},
                ever <- IF ever_active THEN {"amcl"} ELSE {},
                starts <- IF triggered_ THEN 1 ELSE 0
AmclLatch == Latch!Spec

\* A lifecycle manager finds every node it waits for, in each mode and with or
\* without composition: else it would wait for ever.
ManagedAppear ==
  \A m \in DOMAIN Managed :
    (\E n \in running : n.name = m) ~>
      \/ \A x \in Managed[m] : \E n \in running : n.name = x
      \/ crashed # {}

\* Without slam the monitor says in the end that amcl is active, unless a node
\* died: no answer of an amcl that is not yet active stops it from asking.
AmclReported == <>(triggered_ \/ slam \/ crashed # {})
=============================================================================
