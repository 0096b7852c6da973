# Specifications of the noid_lifter_mover bring-up and stroke converter

This directory holds TLA+ models of the part of the SGS2 repository whose
program logic is there in source: the robot package
`src/resources/models/noid_lifter_mover` (below: `NLM`). It starts a ROS 2 robot
as a chain of small monitor processes, each of which waits for a sign of life
and then starts the next stage, and converts encoder readings to joint angles.
Everything else in the repository is either a closed shared object (the SGS2
editor and server plugins) or data.

TLC checks each model on small instances; TLAPS proves every safety property the
runs check, and the refinements, for all values of the constants.

    tlc -config MCBringup_safety.cfg MCBringup
    tlapm LifecycleGate_proofs.tla

## 1. Inventory

| component | source | state it keeps | operations | hard behaviour | what makes it correct |
|---|---|---|---|---|---|
| lifecycle monitors `ControllersStateMonitor`, `BringupMoveitMonitor` | `NLM/src/controllers_state_monitor_node.cpp`, `bringup_moveit_monitor_node.cpp` | `states_` (name -> last recorded state), `launched_` | transition_event callback, `all_active`, `check_all_active`, launch by `std::system` | events of up to 15 controllers in any order, discovery that comes late, histories of depth 10, controllers that go down again | launch once, not too early, not forgotten |
| static transform hand-over `TFStaticMonitor`, `TFStaticReadyMonitor` | `tf_static_monitor_node.cpp`, `tf_static_ready_monitor_node.cpp` | `triggered_`, `simulation_`; the latched sample | wait for `/tf_static`, sleep, publish, shut down; fork and exec of 3 or 5 children | the sample dies with its writer; children that fail to start; a second announcement | each process tried exactly once, never before a transform |
| navigation monitor, rviz2 monitor | `bringup_navigation_monitor_node.cpp`, `bringup_rviz2_monitor_node.cpp` | `triggered_`; nothing | first `/scan` starts navigation; action server seen, process ends | crashes, shutdown | order of the stages |
| AMCL monitor | `amcl_state_monitor_node.cpp` | `triggered_`, pending requests | poll once a second | late or missing answers, two servers of one name | what it says is true; it says it in the end |
| map saving command | `save_map_client_node.cpp` | the position in `main` | wait 5 s, send, wait, report | saver refuses, stops, restarts | what it reports is true; it ends |
| launch files | `NLM/launch/*.py`, `launch/parts/*.py` | the launch's processes, handlers, timers | conditions by mode, OnProcessStart, OnProcessExit, timers, Shutdown | crash and Ctrl-C at any time in each mode, forks and hand-overs that fail, detached launches, leftovers of an earlier session | stages in order, a loss costs only what comes after it, no second source of `/scan` |
| stroke converter, wheels | `NLM/stroke_converter/src` | `zero_ofst`, `prev_wheel`, `cur_wheel` | `calcWheelAngDeg` on every `Stroke2Angle` | wraps of the encoder, for ever | reported angle follows the wheel |
| stroke converter, joints | same | index of each joint, tables | `Angle2Stroke`, `Stroke2Angle`, `setJointNames`, velocities | signs, offsets and pairs written down twice for 24 joints, NaN and 0x7FFF, rounding, casts | what is read is what was commanded; no command, no motion |
| navigation, localization, SLAM launches | `launch/parts/bringup_navigation.launch.py`, ... | - | node sets by condition | two launches that do not know of each other, processes or components, the same names in three lists | SLAM never beside localization; no manager waits for ever |

How they interact: `bringup_robot.launch.py` starts the monitors. The start of
the MoveIt monitor includes `bringup_robot_model.launch.py`, which starts
`robot_state_publisher`, the transform monitors and, on timers, a spawner for
each controller. A static transform leads over `tf_static_ready` to
`controller_manager` and, on the real robot, to the two processes of the LiDAR,
forked one after the other; with the manager the spawners can
activate the controllers, whose `transition_event` topics lead to the dummy
LiDAR (simulation) and to MoveIt; `/scan` leads to the navigation launch, the
action server of `move_group` to the end of the rviz2 monitor and so to rviz2.
So in simulation navigation comes after the controllers of the base; on the real
robot nothing makes it wait for them. There is no shared state: all coupling is by topics, services, process events
and time.

## 2. Modules

| module | models | role |
|---|---|---|
| `LaunchLatch` | what a monitor promises: one start, after every target has been active | abstract specification |
| `LifecycleGate` | both lifecycle monitors with their subscriptions | implements `LaunchLatch` |
| `TfStaticGate` | the static transform hand-over | implements `LaunchLatch` with one target |
| `Bringup` | the launch tree, all monitors, shutdown, crashes, leftovers | composes the monitors, with the state that others depend on |
| `WheelAngle` | wheel part of the stroke converter | |
| `StrokeConverter` | joint part of the stroke converter | |
| `NavigationLaunch` | navigation, localization and SLAM launches, AMCL monitor | implements `LaunchLatch` with amcl as target |
| `SaveMapClient` | the map saving command | |
| `*_proofs` | theorems about each of these but `LaunchLatch` | checked by TLAPS |
| `MC*` | constants for TLC | |

**LifecycleGate.** The two classes differ in names, targets and launch command
only. `states_`, `launched_` are the members; `queue[c]` is the history of the
subscription of target `c`, `Handle(c)` the executor taking one event and
running the whole callback (`Callback`, `check_all_active`, `all_active`).
`lifecycle`, `matched` and the actions `Load`, `Match`, `Advance`, `Fault` are
the controllers and the middleware, external to the code. The launch command is
one increment of `starts`, because the shell returns at once and the result is
ignored. `ever` is a history variable.

**TfStaticGate.** `monitor[m]` is the position of a `TFStaticMonitor` in its
code (`waiting`, `sleeping`, `published`, `exited`). `Deliver` is possible only
between `PublishReady` and `Exit`, which is how a transient_local sample that
dies with its writer behaves; nothing orders the two. The callback of
`TFStaticReadyMonitor` is split at each `launch_process`, with the remaining
calls in `todo`; its executor takes no other message until `todo` is empty.
A child runs or fails (`Execvp`) without the parent.

**Bringup.** A process is in `started`, then perhaps in `gone`. `LaunchNode`
is the launch with its conditions and event handlers, the gates are the
monitors. `SpawnNext` are the spawner timers, put together from
`controller_defs` and `priority_controllers` as in `launch_setup`: a timer for
each place of the list that holds a prioritised controller (`priority_defs`),
in the order of the list, and a last one for all the others. `Detached`
are the processes the launch does not know: those forked by
`TFStaticReadyMonitor` and the launches put into the background with
`system("... &")`. A shutdown of the launch (`Shutdown()` of the navigation
monitor) does not reach them; Ctrl-C in the terminal may, as they share its
process group: `Interrupt` ends any of them, and what a monitor still starts
afterwards stays. Such processes are what a next session can find: `left` is any
set in `Leftovers`, there from the beginning to the end, and every test the code
makes on a topic, a service or a name cannot tell it from its own (`Present`).
A spawner beside a leftover `controller_manager` may activate its controller or
fail. The durations of timers are left out; only the order they impose is kept.

The hand-over is in two steps, as in the code. `tf_static_ready` is the one
callback in which `tf_static_monitor` publishes and shuts down: the message is
heard or lost. `launch_process` is one call of the reader's callback
(`Commands`, in its order): the child is there, or the fork fails and is only
logged. A lifecycle monitor that is up may hear of an activation of one of its
targets (`heard` is its `states_`) or not, depending on whether it has discovered
the publisher; `check_all_active` is its callback, `all_active` the test of the
table. A background command that fails is a crash of its process right after the
start. What `bringup_robot.launch.py` starts of
localization, the AMCL monitor and what navigation consists of is
`NavigationLaunch`; joystick and teleoperation are in `TfStaticGate`; no process
waits for the camera, except that its static transform is always there.

**WheelAngle.** `calcWheelAngDeg` with the remainder of C++. The encoder is
external: it reads within +-`MaxAng`, and its two ends are the same place,
which is what the correction in the code (twice the range, modulo 360) assumes.
`pos` is the true angle. The first call takes the reading for the position.

**StrokeConverter.** `Direct`, `Single`, `Dual` are the lines of `Angle2Stroke`
and `DirectBack`, `SingleBack`, `DualBack` those of `Stroke2Angle`, each copied
from its own line of the code, so that `ReadBack` compares the two. A write of
the hardware is one action (`Command` with new angles, `Hold` with the angles
just read); the actuators obey one by one (`Move`), so a stroke that is
overwritten may have arrived or not. Numbers are integers in the units named in
the module; the table of a joint is known at some of its points only, and a
reading between two points takes the nearer one. The base class that
interpolates (`setAngleToStroke`, `setDualAngleToStroke`, `setStrokeToAngle`) is
not in the repository: it is modelled by what `Stroke2Angle` needs of it to be
the inverse. `deg2Rad` and `scale_inv` are floats, so the angle of a direct joint
comes out a little too small or too large: `RoundingErrors`, one choice in each
cycle.

**NavigationLaunch.** A node is the launch that starts it, its name and whether
it is a process or a component. `RobotNodes` and `NavigationNodes` are the
conditions of the two launches. Each launch file writes its names down more than
once, and so does the module: processes (`NavigationProcesses`,
`LocalizationProcesses`), components (`NavigationComponents`,
`LocalizationComponents`) and what the lifecycle manager is told to manage
(`NavigationManaged`, `LocalizationManaged`, `SlamManaged`) are lists of their
own, and `ManagedAppear` compares them. `StartNode` is the launch or the container
starting one of them, in any order. `poll_amcl_state` and `HandleAnswer` are the
two halves of `AmclStateMonitor`; a request goes to every node of the name
`/amcl` and the first answer counts, so without slam two nodes race to answer.

**SaveMapClient.** The steps of `main`; the map saver is external.

## 3. What the runs check

Mutants of the mapped definitions stand beside them in the modules (commented
"Mutant:"); each one breaks the property it is listed for in `PROJECT.json`.

| run | question | result |
|---|---|---|
| `gate` | three targets, histories of depth 2 (so that they overflow), two faults: `GateSound`, `TableDecides`, refinement of `LaunchLatch`; what reached the monitor leads to the launch unless a full history dropped it (`HeardUntilOverwritten`, `LaunchesWhenHeard`), and a monitor that is never deaf launches | holds |
| `gate_stale` | is every target active when the launch starts, as the log line says? | no, finding |
| `gate_deaf` | is the launch always reached, as the README of the robot says? | no, finding |
| `tf_all` | two announcing monitors, two failing forks, both modes: `AttemptedOnce`, `NothingSkipped`, refinement of `LaunchLatch`; a delivered message starts everything | holds |
| `tf_lost` | is the hardware always started? | no, finding |
| `wheel` | the constants of the code, three wraps each way, largest legal steps: `AngleTracks` and the width of each value | holds |
| `map_all` | three runs of the command, saver stops twice: `AnsweredOnce`, `LostForGood`, `EndsUnlessLost` | holds |
| `map_claim` | does "Map saved successfully." mean that? | no, finding |
| `stroke` | all joints with the tables of the robot, each joint, each pair, and the wheels: `ReadBack`, `HoldCreepsInward`, `MovesOnlyCommanded`, `SpeedKept`, and no two joints with one index | holds |
| `navigation` | both launches with all nodes in all eight combinations of arguments, one crash, AMCL polled: `SlamAlone`, `ManagedAppear`, `AmclTruth`, `AmclReported`, refinement of `LaunchLatch` (`AmclLatch`) | holds |
| `bringup_safety` | four modes, from a clean start or beside leftovers, one fault and Ctrl-C at any time: `OneScanSource`, the order across processes (`NavigationInOrder`, `MoveGroupHasControllers`, `RvizAfterMoveGroup`), `OnlyDetachedAfterShutdown` | holds |
| `bringup_live` | four modes, three sets of leftovers, two faults, losses at any time: `LossContained` | holds |

`LossContained` says what each process comes directly after (`After`) and that
nothing else can keep it away. In the end a process of the mode is missing only
if the step that starts it was lost (its fork failed, the hand-over message was
not heard, its monitor has missed an activation), if a process it comes directly
after died or is missing itself, or if the session was ended. The bring-up is
not complete without a crash: the hand-over can be lost in a session where
nothing fails (`tf_lost`), and so can an activation (`gate_deaf`). What the
property shows is how far a loss reaches, and that the gates do not wait for
each other in a circle.

The order properties name their exceptions. A leftover LiDAR starts navigation
before the robot, a leftover `move_group` shows rviz2 before MoveIt, and a
leftover `controller_manager` can keep the lifecycle monitors from hearing
anything. On the real robot `NavigationInOrder` is weak because the code is: that
the fork of `controller_manager` was tried before those of the LiDAR is all a
scan says there. `OneScanSource` is about what a session starts itself.

An activation that reached a monitor can still be lost in one way
(`HeardUntilOverwritten`): the controller goes through more transitions than the
history holds before the executor takes the event. `LaunchesWhenHeard` holds
with exactly that exception; without it, it is false for every depth.

A request for the map that is lost with the saver is lost for good
(`LostForGood`): a saver that comes back answers others, the client waits until
Ctrl-C.

The findings: the state table of a lifecycle monitor is never corrected
(`gate_stale`); an activation before discovery is lost for good (`gate_deaf`);
the hand-over message is lost if its reader is not matched before the writer
shuts down (`tf_lost`); the map saving command reports success for a refusal
(`map_claim`).

Two things `stroke` makes visible without being findings, as nothing in the
repository says otherwise. First, a direct joint that is commanded to stay where
it was read (`Hold`) can lose one stroke unit towards 0 in each cycle, as float
constants meet a cast that truncates; `HoldCreepsInward` says that this is all
that happens, and that the thumbs stand still. Second, `waist_r`, `l_wrist_p`
and `r_wrist_p` are read through their table with both signs changed, which is
exact only for a table symmetric about 0; those tables are not quite (a waist
roll of 7 degrees is read back as about 6.5), so `Tolerance` gives these three
one table point. Without `slam` the bring-up has two nodes called `/amcl`, one of
each launch: `navigation` has both. It also has `static_map_to_odom_tf`, which
publishes map -> odom beside them (`localization.yaml` has `tf_broadcast: true`);
`SlamAlone` states only what the code excludes.

**Bounds.** `MaxFaults` (in `Bringup` deaths and failed forks together),
`MaxForkFaults`, `MaxStops`, `MaxCrashes` limit what goes wrong, `Positions` the
angle, `Interrupts` whether there is a Ctrl-C: `bringup_live` has none, as the end
of the session is an exception of `LossContained`, and two faults instead. The
histories of the code hold 10 events, those of ten transitions; depth 2 is
filled by two faults, and `OnlyOverflowForgets` is proved for every depth. Two targets are enough for every pair of
orders of activation, event and fault, and the third adds a target that is
neither first nor last; the proofs cover every number of targets and every
depth. Two announcing monitors make the second announcement happen before,
during and after the callback. Two stops let the saver go away once with a
request and once before one arrives. In `wheel` the position crosses the end of
the range three times each way, with steps of 601, the largest below the
threshold distance. Three controllers stand for fifteen in the runs of `Bringup`: the two of
the dummy LiDAR, each with its timer, and one of the last timer; `ListsAgree`
compares the full lists of the launch file and the monitors. `Leftovers` has the
empty set and, in `bringup_live`, two that `Interrupt` can leave: the robot
without MoveIt, and MoveIt without the robot. `bringup_safety` has a mixture
without a LiDAR driver instead, so that no scan is there before the session's own
and `NavigationInOrder` is never excused. `stroke` has the ends, the zero
and some inner points of each table and one joint or pair commanded at a time,
as no stroke depends on a joint outside its pair. `MaxPending` of two makes one
request older than another. The nodes of `navigation` are all those of the
launch files; the five servers of navigation come up in one step there
(`Together`), as only their manager waits for them and for all of them; with
`Together` empty each node comes up by itself, and the theorems hold for every
value. `Mortal` names the nodes with whose end anything
else changes. `slam`, `use_localization` and `use_composition`
take every value; from `bringup_robot.launch.py` the last two keep their
default.

**Fairness.** Executors spin as long as their process lives: weak fairness of
`Handle`, `callback`, `launch_process`, `Serve`. A spawner makes one attempt, so
`Advance` is fair only while nothing has failed. Endpoints that stay up discover
each other (`Match`), but nothing says when: delivery and the exit of the writer
are both fair and race. In `NavigationLaunch` what the launch describes is
started, a manager activates what it finds, and a live server answers. In `Bringup`
it is fair that a step happens, never how it ends: whether the hand-over message
is heard, a fork succeeds or an activation reaches a monitor is left open. A
spawner is fair only while the robot description is published and no leftover
manager may answer it. Crashes, faults, Ctrl-C and the user are never fair. A
system may rest when it is done, so deadlock is not checked, except for
`WheelAngle` and `StrokeConverter`, where a next cycle always exists.

## 4. What is proved

Every invariant and every action property of a run that holds, and the
refinements of `LaunchLatch`, are theorems: `Spec => []P` for all values of the
constants that satisfy the assumptions named here. TLC evaluates those
assumptions in the runs. Each proof module defines `IInv`, proves `InitInv`, one
step per action (`NextInv`; `StepInv` in `StrokeConverter_proofs`) and
`Invariance == Spec => []IInv`, and takes the properties from there. TLC finds
each `IInv` true on the instance of the component's run, too (for `WheelAngle`
with `Congruent` written as a remainder, since its quantifier is unbounded).

**`LifecycleGate_proofs`**, from `Targets # {}` and `Depth` positive:
`TypeCorrect`, `GateIsSound`, `TableIsDecisive`, `OnlyOverflowForgets` (what a
monitor has heard is lost only to a full history); `Refinement`:
`Spec => LatchSpec`. The inductive invariant adds two things to the properties:
every "active" in the table or in a waiting event belongs to a target that has
been active (`HeardIsTrue`), and `starts` is 1 exactly when `launched_` is set
(`StartsIsFlag`). The first is needed because `GateSound` speaks of controllers
and the decision is taken on the table, which lags behind them by the events in
the queues; lemma `EnqueueContents` carries it through an overflow.

**`WheelAngle_proofs`**, from `Threshold < MaxAng` and `StepsAssumption` (no
wheel turns as far as from the threshold to the wrap between two calls: below
602 degrees for the constants of the code): `TypeCorrect` (offset, readings and
angle keep their width) and `AngleCorrect`
(`(angle + 180) % 360 = pos % 360` for ever). The inductive invariant says that
reading plus offset differs from the true position by whole turns
(`OffsetTracks`); `OffsetFollows` shows, case by case, that the code sees a wrap
exactly when there is one and adds the right amount.

**`TfStaticGate_proofs`**, for any sources, any finite set of monitors and any
number of failing forks: `TypeCorrect`, `TriedOnce`, `TriedAll`, and
`Refinement` of `LaunchLatch`. `AttemptedOnce` counts and does not say of what;
the inductive invariant says that the processes tried are exactly the part of
the list in front of `todo` (`CallsInOrder`), and, for the refinement, that
nothing is sent or triggered before a transform is published
(`TransformFirst`).

**`SaveMapClient_proofs`**, for any finite set of runs and any number of stops:
`TypeCorrect`, `AnswerIsFinal` (the answer to a run never changes, so what a run
reports is what it would report later), and `LostStaysLost` (no later saver
answers a request that was lost). The bound of the queue in `TypeOK` holds because a run sends one request (`OneRequest`): what
is queued is sent and unanswered, and nobody is in the queue twice.

**`Bringup_proofs`**, for every list of controllers, any targets among them, any
leftovers among the detached processes and any number of crashes:
`TypeCorrect`, `OneSource`, `NavigationBehindGates`, `MoveGroupOnRobot`,
`RvizInOrder`, `ShutdownStartsOnlyDetached`. A property about the end of a chain
says nothing of its links, so the inductive invariant has a part for each: that
the forks still to be made are the rest of the list of the mode (`TodoIsRest`),
which LiDAR belongs to the mode (`SourceFitsMode`), that a launch behind a
monitor has heard its targets (`LaunchesHeard`), that navigation has had a scan
(`NavigationHasScan`), and why the rviz2 monitor ended. `EveryControllerSpawned` is about the lists of `launch_setup`: when the
last timer has fired, each controller has been given to a spawner, whatever the
lists hold; the priority of a controller can delay it but not lose it.

**`NavigationLaunch_proofs`**, for any number of crashes and requests and any
`Together`:
`TypeCorrect`, `SlamExcludesLocalization`, `MonitorTellsTruth`, and `Refinement`
of `LaunchLatch`. The monitor decides on an answer that may be old, so the
inductive invariant keeps that every positive answer on its way was true once.
`ManagersHaveNodes` is the part of `ManagedAppear` that needs no fairness: in
each combination of arguments the launch of a lifecycle manager describes every
node the manager waits for, though the lists of processes, components and
managed nodes are written out separately.

**`StrokeConverter_proofs`**, for every order of the names in
`driver_settings.yaml`, any grouping of the joints and any tables:
`TypeCorrect` (with it: no stroke and no speed overflows `int16_t`, and no
actuator stands at 0x7FFF), `CommandsReadBack`, `HoldIsStable`,
`SpeedSurvives`, `NoMoveUncommanded`. `setJointNames` gives a name that is not in
its list place 0, without an error; `PlacesApart` says that this is the only way
two joints can come to share a place: for a list without repetitions that begins
with a name the code knows, the places are distinct exactly when no name is
missing. The assumptions, and what justifies them:

- every joint and wheel is named, once (`NamesAssumption`; 0x7FFF stands for NaN
  and is no number of the model, `NaNAssumption`);
- a joint without a table is commanded within half a turn
  (`DirectAnglesAssumption`; their limits in `model/parts` are 2.09 rad at most), a wheel
  within what `int16_t` holds (`SpeedsAssumption`; beyond that the cast of the
  code is undefined);
- two entries of a table are at least 19 apart and none is beyond 163830, in
  1/1000 as in the csv files (`TablesAssumption`): nearer ones could not be told
  apart after the truncation to 1/100, and a sum of two larger ones does not fit. In the csv files the least distance is 97 and the largest entry
  63294;
- `waist_r.csv` and `wrist_p.csv` reach as far to each side of 0 and are nearly
  symmetric (`MirrorAssumption`), which the joints read with both signs changed
  rely on: another entry than the mirrored one and its neighbours is nearer by
  more than 18 nowhere; in the files the margins are 939 and 601.

`ReadBack` and `SpeedKept` compare what was written with what the actuators do,
and say nothing of values that are not yet compared. So the inductive invariant
ties the strokes to the angles they were made of (`Converted`) and gives every
vector a range that a command, a hold and a move preserve (`WrittenInRange`,
`ActuatorsInRange`): a hold writes an angle that was read, with its rounding
error, so the range of angles has to be a little larger than what is ever
commanded, and still be mapped into the range of strokes. The argument of
`CommandsReadBack` runs by kind of joint: without a table, two truncations and
a float error stay within `Tolerance` (`DirectReadsBack`); with one, the stroke
is so near to its entry that the nearest entry is that one (`InverseExact`),
whose existence is `NatMinimum`; for a pair, half the sum and half the
difference of the two strokes give back the two entries (`HalfSum`,
`HalfDifference`); and for the mirrored joints at most one point is lost
(`InverseMirrored`). Signs, offsets and tables of the two directions are read
off the code's lines one by one (`DirectShape`, `SingleShape`, `PairShape`,
`PairBackShape`): this is where a wrong sign in one line would stop the proof.

**Only model-checked.** Liveness under fairness, and with it ENABLED, is out of
the prover's reach: `LaunchesWhenHeard`, `LaunchesWhenMatchedInTime`,
`DeliveredStartsAll`, `StartsUnlessMissed`, `EndsUnlessLost`, `ManagedAppear`,
`AmclReported`, `LossContained`. So are, by their nature, the four
disagreements. The proofs are about the models: the interpolation of the base
class, the middleware and the controllers are in them as described in section 2.

## 5. Not modelled

The SGS2 plugins and the SGS2 program itself are shared objects without source.
The twenty `.ts` files of the repository, which by name could be taken for
TypeScript, are Qt Linguist catalogues in XML (`<!DOCTYPE TS>`): pairs of a
string and its translation that the closed program loads. There is no state, no
control and no algorithm in them, so no definition here stands for any of their
lines. Of the C++ and Python files the map in `PROJECT.json` covers about half
of the lines; the rest is declarations, arguments and the parameters of nodes.
Robot description, meshes, maps and
configuration files are data.

`bringup_slam.launch.py` of the map server plugin is started and stopped by that
plugin, for the package `typeg`, which is not in the repository. The
interpolation of stroke tables is in a base class outside the repository, and
with it what happens to an empty table; where a reading of 0x7FFF could come
from is decided in the driver. Nothing bounds the pending requests of the AMCL
monitor (`MaxPending` does in the model), and nothing says that something
should. Durations are not modelled: a timeout may fire at any time. Of the
launch files, parameter files, remappings and log levels are left out. The
camera driver is external.

## 6. Plan

Every part whose logic is in source has a module, and every safety property of
a run has a theorem; the exceptions are in section 5. What is left:

1. The safety halves of the liveness properties, each a theorem of its own:
   that a state in which a process waits always has the step it waits for or is
   one of the excepted ones (`EndsUnlessLost`, `LaunchesWhenHeard`,
   `StartsUnlessMissed`, `LossContained`). `OnlyOverflowForgets` and
   `LostStaysLost` are the first two.
2. `TablesAssumption` compares entries pairwise; for monotone tables neighbours
   would do, but that is an induction over the table.
3. The wheels and joints of the stroke converter composed, with a 0x7FFF reading
   as an input, once its origin is known.
