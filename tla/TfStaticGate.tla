---------------------------- MODULE TfStaticGate ----------------------------
(***************************************************************************)
(* The hand-over that starts the robot's hardware side: TFStaticMonitor    *)
(* (tf_static_monitor_node.cpp) waits for a static transform, sleeps one   *)
(* second, publishes tf_static_ready and ends; TFStaticReadyMonitor        *)
(* (tf_static_ready_monitor_node.cpp) forks controller_manager, the        *)
(* joystick, the teleoperation and, on the real robot, the LiDAR and its   *)
(* filter, when it receives that message.                                  *)
(*                                                                         *)
(* Both topics are transient_local: a writer keeps its last sample for     *)
(* readers that appear late, but only while the writer lives, and          *)
(* TFStaticMonitor shuts down in the callback that publishes.              *)
(***************************************************************************)
EXTENDS Naturals, Sequences, FiniteSets, SequencesExt

CONSTANTS
  Sources,       \* external: the nodes that publish a static transform
  Monitors,      \* TFStaticMonitor processes (one left over by an earlier
                 \* session makes two)
  MaxForkFaults  \* bound: how many fork() or execvp() calls fail

ASSUME MonitorsAssumption  == IsFiniteSet(Monitors)
ASSUME ForkFaultsAssumption == MaxForkFaults \in Nat

VARIABLES
  published,   \* the sources whose transform is on /tf_static
  monitor,     \* where each TFStaticMonitor is
  matched,     \* the writers the reader of tf_static_ready has discovered
  sent,        \* the writers whose sample has reached the reader
  reader,      \* is TFStaticReadyMonitor up
  inbox,       \* samples in the reader's history (KeepLast(10))
  simulation_, \* the parameter, read once in the constructor
  triggered_,
  todo,        \* the launch_process calls the callback has still to make
  proc,        \* what became of each child process
  attempts,    \* history: launch_process calls per label
  forkFaults

transport == <<matched, sent, inbox>>
launcher == <<simulation_, triggered_, todo, proc, attempts, forkFaults>>
vars == <<published, monitor, reader, transport, launcher>>

-----------------------------------------------------------------------------
\* The children in the order of the callback (:43-80).
Common == <<"controller_manager", "joy_linux", "teleop_twist_joy_node">>
Lidar  == <<"urg_node2", "laser_filter">>
Commands(simulation) == IF simulation THEN Common ELSE Common \o Lidar
Labels == ToSet(Common) \union ToSet(Lidar)

Init ==
  /\ published = {}
  /\ monitor = [m \in Monitors |-> "off"]
  /\ matched = {} /\ sent = {} /\ inbox = 0
  /\ reader = FALSE
  /\ simulation_ \in BOOLEAN
  /\ triggered_ = FALSE
  /\ todo = <<>>
  /\ proc = [l \in Labels |-> "none"]
  /\ attempts = [l \in Labels |-> 0]
  /\ forkFaults = 0

-----------------------------------------------------------------------------
(* TFStaticMonitor.                                                        *)

\* External: robot_state_publisher, or the static_transform_publisher of the
\* camera, puts its transform on /tf_static.
PublishTf(s) ==
  /\ s \notin published
  /\ published' = published \union {s}
  /\ UNCHANGED <<monitor, reader, transport, launcher>>

\* The process of monitor m moves from one place of its code to the next.
Move(m, from, to) ==
  /\ monitor[m] = from
  /\ monitor' = [monitor EXCEPT ![m] = to]
  /\ UNCHANGED <<published, reader, transport, launcher>>

StartMonitor(m) == Move(m, "off", "waiting")

\* Mutant: the node does not wait for a transform.
callback_tf_static_Eager(m) == Move(m, "waiting", "sleeping")

\* callback_tf_static is entered for the first transform of ANY source: its
\* argument is not looked at.  The executor is busy until the end.
callback_tf_static(m) ==
  /\ published # {}
  /\ Move(m, "waiting", "sleeping")

\* After 1000 ms: publish, then rclcpp::shutdown().
PublishReady(m) == Move(m, "sleeping", "published")

\* spin() returns, main() ends, and the writer goes with its sample.
Exit(m) == Move(m, "published", "exited")

-----------------------------------------------------------------------------
(* The middleware (external).                                              *)

HasWriter(m) == monitor[m] \in {"waiting", "sleeping", "published"}

Match(m) ==
  /\ reader /\ HasWriter(m) /\ m \notin matched
  /\ matched' = matched \union {m}
  /\ UNCHANGED <<published, monitor, reader, sent, inbox, launcher>>

\* Mutant: the sample is delivered again and again.
Deliver_Again(m) ==
  /\ monitor[m] = "published" /\ m \in matched /\ inbox < 10
  /\ sent' = sent \union {m}
  /\ inbox' = inbox + 1
  /\ UNCHANGED <<published, monitor, reader, matched, launcher>>

\* The sample reaches the reader, early or late, while the writer is alive.
Deliver(m) ==
  /\ monitor[m] = "published" /\ m \in matched /\ m \notin sent
  /\ sent' = sent \union {m}
  /\ inbox' = inbox + 1
  /\ UNCHANGED <<published, monitor, reader, matched, launcher>>

-----------------------------------------------------------------------------
(* TFStaticReadyMonitor.                                                   *)

StartReader ==
  /\ ~reader
  /\ reader' = TRUE
  /\ UNCHANGED <<published, monitor, transport, launcher>>

\* Mutant: the guard on triggered_ is missing.
callback_Unguarded ==
  /\ inbox > 0 /\ todo = <<>>
  /\ inbox' = inbox - 1
  /\ triggered_' = TRUE
  /\ todo' = Commands(simulation_)
  /\ UNCHANGED <<published, monitor, reader, matched, sent, simulation_, proc,
                 attempts, forkFaults>>

\* Mutant: the test of the message is inverted.
callback_Inverted ==
  /\ inbox > 0 /\ todo = <<>>
  /\ inbox' = inbox - 1
  /\ UNCHANGED <<published, monitor, reader, matched, sent, launcher>>

\* The executor takes a message.  The data is always true: TFStaticMonitor is
\* the only publisher and sends true.
callback ==
  /\ inbox > 0 /\ todo = <<>>
  /\ inbox' = inbox - 1
  /\ IF triggered_
       THEN UNCHANGED <<triggered_, todo>>
       ELSE triggered_' = TRUE /\ todo' = Commands(simulation_)
  /\ UNCHANGED <<published, monitor, reader, matched, sent, simulation_, proc,
                 attempts, forkFaults>>

\* Mutant: a failed fork ends the callback.
launch_process_StopOnError(l) ==
  /\ todo # <<>> /\ l = Head(todo)
  /\ attempts' = [attempts EXCEPT ![l] = @ + 1]
  /\ \/ /\ proc' = [proc EXCEPT ![l] = "child"]
        /\ todo' = Tail(todo)
        /\ UNCHANGED forkFaults
     \/ /\ forkFaults < MaxForkFaults
        /\ forkFaults' = forkFaults + 1
        /\ proc' = [proc EXCEPT ![l] = "failed"]
        /\ todo' = <<>>
  /\ UNCHANGED <<published, monitor, reader, transport, simulation_, triggered_>>

\* One launch_process call: a child, or a failed fork() that is logged only.
launch_process(l) ==
  /\ todo # <<>> /\ l = Head(todo)
  /\ todo' = Tail(todo)
  /\ attempts' = [attempts EXCEPT ![l] = @ + 1]
  /\ \/ /\ proc' = [proc EXCEPT ![l] = "child"]
        /\ UNCHANGED forkFaults
     \/ /\ forkFaults < MaxForkFaults
        /\ forkFaults' = forkFaults + 1
        /\ proc' = [proc EXCEPT ![l] = "failed"]
  /\ UNCHANGED <<published, monitor, reader, transport, simulation_, triggered_>>

\* The child: execvp() replaces it, or fails and the child exits; the parent
\* does not wait for it and never learns.
Execvp(l) ==
  /\ proc[l] = "child"
  /\ \/ /\ proc' = [proc EXCEPT ![l] = "running"]
        /\ UNCHANGED forkFaults
     \/ /\ forkFaults < MaxForkFaults
        /\ forkFaults' = forkFaults + 1
        /\ proc' = [proc EXCEPT ![l] = "failed"]
  /\ UNCHANGED <<published, monitor, reader, transport, simulation_, triggered_,
                 todo, attempts>>

-----------------------------------------------------------------------------
Next ==
  \/ \E s \in Sources : PublishTf(s)
  \/ \E m \in Monitors :
        \/ StartMonitor(m)
        \/ callback_tf_static(m)
        \/ PublishReady(m)
        \/ Exit(m)
        \/ Match(m)
        \/ Deliver(m)
  \/ StartReader
  \/ callback
  \/ \E l \in Labels : launch_process(l) \/ Execvp(l)

Spec == Init /\ [][Next]_vars

\* Processes run, executors spin, timers fire and endpoints that both stay up
\* find each other.  That a sample is delivered BEFORE its writer exits is not
\* promised by anything: both steps are fair and they race.
FairSpec ==
  /\ Spec
  /\ \A s \in Sources : WF_vars(PublishTf(s))
  /\ \A m \in Monitors :
        /\ WF_vars(StartMonitor(m))
        /\ WF_vars(callback_tf_static(m))
        /\ WF_vars(PublishReady(m))
        /\ WF_vars(Exit(m))
        /\ WF_vars(Match(m))
        /\ WF_vars(Deliver(m))
  /\ WF_vars(StartReader)
  /\ WF_vars(callback)
  /\ \A l \in Labels : WF_vars(launch_process(l)) /\ WF_vars(Execvp(l))

-----------------------------------------------------------------------------
(* Properties.                                                             *)

\* Types; the reader's history never holds more than one sample per writer.
TypeOK ==
  /\ published \subseteq Sources
  /\ monitor \in [Monitors -> {"off", "waiting", "sleeping", "published", "exited"}]
  /\ matched \subseteq Monitors
  /\ sent \subseteq matched
  /\ reader \in BOOLEAN
  /\ inbox \in 0..Cardinality(sent)
  /\ simulation_ \in BOOLEAN
  /\ triggered_ \in BOOLEAN
  /\ todo \in Seq(Labels)
  /\ proc \in [Labels -> {"none", "child", "running", "failed"}]
  /\ attempts \in [Labels -> Nat]
  /\ forkFaults \in 0..MaxForkFaults

Wanted == ToSet(Commands(simulation_))

\* No process is started twice, however many monitors announce the transforms,
\* and no LiDAR driver is started in simulation, where it would publish /scan
\* beside the dummy LiDAR (:39, :65).
AttemptedOnce ==
  \A l \in Labels : attempts[l] <= (IF l \in Wanted THEN 1 ELSE 0)

\* When the callback is done, each process was tried exactly once, whichever
\* of the calls failed (:85-103: a failure is logged and the next call made).
NothingSkipped ==
  triggered_ /\ todo = <<>> => \A l \in Wanted : attempts[l] = 1

\* Seen from outside the pair is a LaunchLatch on one target, the transforms:
\* controller_manager is started once, and only when a transform is there.
Latch == INSTANCE LaunchLatch
           WITH Targets <- {"tf_static"},
                ever <- IF published = {} THEN {} ELSE {"tf_static"},
                starts <- attempts["controller_manager"]
LatchSpec == Latch!Spec

\* A message that reached the reader leads to the whole list of processes:
\* each of them runs or has failed on its own.
DeliveredStartsAll ==
  inbox > 0 ~> \A l \in Wanted : proc[l] \in {"running", "failed"}

\* A writer that is discovered early enough hands its message over: the robot
\* comes up unless every monitor is gone before its sample is delivered.
StartsUnlessMissed ==
  <>(triggered_ \/ \A m \in Monitors : monitor[m] = "exited" /\ m \notin sent)

\* What README.md:45 of the robot promises without condition: after some time
\* the LiDAR data and the map are shown, for which the hardware has to run.
EventuallyStarts == <>triggered_
=============================================================================
