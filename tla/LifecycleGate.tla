--------------------------- MODULE LifecycleGate ---------------------------
(***************************************************************************)
(* The state monitors of the bring-up: ControllersStateMonitor             *)
(* (controllers_state_monitor_node.cpp) and BringupMoveitMonitor           *)
(* (bringup_moveit_monitor_node.cpp).  The two classes have the same code  *)
(* with different targets and a different launch command, so one module    *)
(* stands for both; Targets is the list main() passes to the constructor.  *)
(*                                                                         *)
(* A monitor subscribes to the transition_event topic of each target,      *)
(* keeps a table states_ of what it has heard, and starts a launch in the  *)
(* background when every entry of the table reads "active".  The           *)
(* controllers, the spawners and the middleware are external: they are     *)
(* modelled by what the code of the monitor can observe of them.           *)
(***************************************************************************)
EXTENDS Naturals, Sequences

CONSTANTS
  Targets,    \* the names the monitor watches
  Depth,      \* history depth of each subscription (10 in the code)
  MaxFaults   \* bound: transitions away from the way up (failure, deactivation)

ASSUME TargetsAssumption == Targets # {}
ASSUME DepthAssumption   == Depth \in Nat \ {0}
ASSUME FaultsAssumption  == MaxFaults \in Nat

VARIABLES
  lifecycle,  \* external: the lifecycle state of each target
  matched,    \* external: the targets whose publisher the monitor discovered
  queue,      \* the history of each subscription, oldest event first
  states_,    \* the monitor's table
  launched_,  \* launched_ / moveit_launched_
  starts,     \* how many launch commands the monitor gave to the shell
  ever,       \* history: the targets that have been active at some time
  faults      \* how many of the MaxFaults have happened

vars == <<lifecycle, matched, queue, states_, launched_, starts, ever, faults>>

-----------------------------------------------------------------------------
(* The targets (external).                                                 *)

\* "absent" is a controller its spawner has not loaded; the others are the
\* labels of lifecycle_msgs.
LifecycleStates ==
  {"absent", "unconfigured", "configuring", "inactive", "activating",
   "active", "deactivating"}

\* The transitions the spawner of a controller asks for, and the end of a
\* deactivation.
Regular ==
  {<<"unconfigured", "configuring">>, <<"configuring", "inactive">>,
   <<"inactive", "activating">>, <<"activating", "active">>,
   <<"deactivating", "inactive">>}

\* A failed activation, and the start of a deactivation.
Faulty == {<<"activating", "inactive">>, <<"active", "deactivating">>}

\* A reliable KeepLast history: a full one loses its oldest event.
Enqueue(q, label) ==
  IF Len(q) < Depth THEN Append(q, label) ELSE Append(Tail(q), label)

\* Target c enters state `to` and publishes a TransitionEvent whose goal_state
\* is `to`.  The topic is volatile: only a matched subscription gets it.
Transition(c, to) ==
  /\ lifecycle' = [lifecycle EXCEPT ![c] = to]
  /\ queue' = IF c \in matched
                THEN [queue EXCEPT ![c] = Enqueue(queue[c], to)]
                ELSE queue
  /\ ever' = IF to = "active" THEN ever \union {c} ELSE ever
  /\ UNCHANGED <<matched, states_, launched_, starts>>

\* The spawner loads the controller; its publisher now exists.
Load(c) ==
  /\ lifecycle[c] = "absent"
  /\ lifecycle' = [lifecycle EXCEPT ![c] = "unconfigured"]
  /\ UNCHANGED <<matched, queue, states_, launched_, starts, ever, faults>>

\* Discovery: the subscription and the publisher of c find each other.
Match(c) ==
  /\ lifecycle[c] # "absent"
  /\ c \notin matched
  /\ matched' = matched \union {c}
  /\ UNCHANGED <<lifecycle, queue, states_, launched_, starts, ever, faults>>

Advance(c) ==
  /\ \E to \in LifecycleStates :
        /\ <<lifecycle[c], to>> \in Regular
        /\ Transition(c, to)
  /\ UNCHANGED faults

Fault(c) ==
  /\ faults < MaxFaults
  /\ faults' = faults + 1
  /\ \E to \in LifecycleStates :
        /\ <<lifecycle[c], to>> \in Faulty
        /\ Transition(c, to)

-----------------------------------------------------------------------------
(* The monitor.                                                            *)

\* The constructor: every target is "unknown".
Init ==
  /\ lifecycle = [c \in Targets |-> "absent"]
  /\ matched = {}
  /\ queue = [c \in Targets |-> <<>>]
  /\ states_ = [c \in Targets |-> "unknown"]
  /\ launched_ = FALSE
  /\ starts = 0
  /\ ever = {}
  /\ faults = 0

\* Mutant: any active target is enough.
all_active_Any(table) == \E c \in Targets : table[c] = "active"

all_active(table) == \A c \in Targets : table[c] = "active"

\* Mutant: the early return on launched_ is missing.
check_all_active_NoLatch(table) ==
  IF all_active(table)
    THEN starts' = starts + 1 /\ launched_' = TRUE
    ELSE UNCHANGED <<starts, launched_>>

\* check_all_active() on the updated table: std::system() hands the launch
\* command to a background shell, whatever becomes of it, and the flag is set.
check_all_active(table) ==
  IF ~launched_ /\ all_active(table)
    THEN starts' = starts + 1 /\ launched_' = TRUE
    ELSE UNCHANGED <<starts, launched_>>

\* Mutant: the label of every event is stored.
Callback_StoreAll(c, label) ==
  /\ states_' = [states_ EXCEPT ![c] = label]
  /\ check_all_active(states_')

\* Mutant: a target that leaves "active" is forgotten.
Callback_Forget(c, label) ==
  /\ states_' = [states_ EXCEPT
                   ![c] = IF label = "active" THEN "active" ELSE "unknown"]
  /\ check_all_active(states_')

\* Mutant: the test runs before the table is updated.
Callback_TestFirst(c, label) ==
  IF label = "active"
    THEN /\ check_all_active(states_)
         /\ states_' = [states_ EXCEPT ![c] = "active"]
    ELSE UNCHANGED <<states_, launched_, starts>>

\* The subscription callback of c, run by the single-threaded executor: only
\* an event whose goal is "active" changes the table.
Callback(c, label) ==
  IF label = "active"
    THEN /\ states_' = [states_ EXCEPT ![c] = "active"]
         /\ check_all_active(states_')
    ELSE UNCHANGED <<states_, launched_, starts>>

\* The executor takes the oldest event of one subscription.
Handle(c) ==
  /\ queue[c] # <<>>
  /\ queue' = [queue EXCEPT ![c] = Tail(queue[c])]
  /\ Callback(c, Head(queue[c]))
  /\ UNCHANGED <<lifecycle, matched, ever, faults>>

-----------------------------------------------------------------------------
Next ==
  \E c \in Targets :
    \/ Load(c)
    \/ Match(c)
    \/ Advance(c)
    \/ Fault(c)
    \/ Handle(c)

Spec == Init /\ [][Next]_vars

\* The executor spins for as long as the process lives, so an event that
\* waits is handled.
HandlerFairness == \A c \in Targets : WF_vars(Handle(c))

\* Each controller has a spawner that brings it up, and two endpoints of a
\* topic discover each other.  After a fault nothing is promised: a spawner
\* makes one attempt, and nothing in the bring-up activates a controller twice.
SpawnerFairness ==
  \A c \in Targets :
    /\ WF_vars(Load(c))
    /\ WF_vars(Match(c))
    /\ WF_vars(faults = 0 /\ Advance(c))

FairSpec == Spec /\ HandlerFairness /\ SpawnerFairness

-----------------------------------------------------------------------------
(* Properties.                                                             *)

Labels == LifecycleStates \ {"absent", "unconfigured"}

\* Types of the monitor's state and of what it observes.
TypeOK ==
  /\ lifecycle \in [Targets -> LifecycleStates]
  /\ matched \subseteq Targets
  /\ queue \in [Targets -> Seq(Labels)]
  /\ states_ \in [Targets -> {"unknown", "active"}]
  /\ launched_ \in BOOLEAN
  /\ starts \in Nat
  /\ ever \subseteq Targets
  /\ faults \in Nat

\* The launch is started at most once, and never before every target has been
\* active: neither an event of one target nor an overwritten history can make
\* the table run ahead of the controllers (callbacks, :26-35, :61-82).
GateSound ==
  /\ starts <= 1
  /\ starts = 1 => ever = Targets

\* No complete table is left waiting: the launch has been started exactly when
\* the monitor has heard of every target.  The test runs on the table WITH the
\* new entry (:29-30), so no further event is needed to notice the last one.
TableDecides == launched_ <=> \A c \in Targets : states_[c] = "active"

\* The table has heard that c became active, or an event in its history says so.
Heard(c) ==
  \/ states_[c] = "active"
  \/ \E i \in DOMAIN queue[c] : queue[c][i] = "active"

\* An activation that reached the monitor is only lost in one way: more events
\* of its controller follow than the history holds, before it is handled (:25).
\* Nothing the monitor does, and no step of another target, takes it back.
HeardUntilOverwritten ==
  [][\A c \in Targets : Heard(c) => Heard(c)' \/ Len(queue[c]) = Depth]_vars

\* Once the activation of every target has reached the monitor the launch is
\* started, even when targets go down again before their events are handled,
\* unless a history that was full has dropped one of them.
LaunchesWhenHeard ==
  (\A c \in Targets : Heard(c)) ~>
    (launched_ \/ \E c \in Targets : ~Heard(c) /\ Len(queue[c]) = Depth)

\* A monitor that missed no activation, because it discovered every publisher
\* in time and read its history in time, starts the launch, or a controller has
\* failed or been deactivated.
NotDeaf == \A c \in Targets : c \in ever => Heard(c)
LaunchesWhenMatchedInTime ==
  []NotDeaf => <>(launched_ \/ faults > 0)

\* The abstract specification this module implements.
Latch == INSTANCE LaunchLatch
LatchSpec == Latch!Spec

\* What the monitor says when it launches (bringup_moveit_monitor_node.cpp:73,
\* controllers_state_monitor_node.cpp:73): all nodes ARE active.
LaunchesOnlyWhileActive ==
  [][starts' > starts => \A c \in Targets : lifecycle[c] = "active"]_vars

\* What README.md:45 of the robot promises: after some time the LiDAR data and
\* the map are shown, which needs the launch.
EventuallyLaunches == <>launched_
=============================================================================
