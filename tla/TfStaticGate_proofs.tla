------------------------ MODULE TfStaticGate_proofs ------------------------
(***************************************************************************)
(* Theorems about TfStaticGate, for every set of sources, every finite     *)
(* number of announcing monitors and every number of failing forks: no     *)
(* process is tried twice, none of the mode is left out, and the pair of   *)
(* nodes implements LaunchLatch.                                           *)
(***************************************************************************)
EXTENDS TfStaticGate, TLAPS, FiniteSetTheorems

\* The inductive invariant.

\* How many launch_process calls the callback has made.
Done == Len(Commands(simulation_)) - Len(todo)

\* The calls are made in the order of the list, each of them once: what was
\* tried is the part of the list in front of todo, and todo is the rest.
CallsInOrder ==
  IF triggered_
  THEN /\ Len(todo) <= Len(Commands(simulation_))
       /\ \A i \in DOMAIN todo : todo[i] = Commands(simulation_)[Done + i]
       /\ \A l \in Labels :
            attempts[l] = IF \E i \in 1..Done : Commands(simulation_)[i] = l THEN 1 ELSE 0
  ELSE todo = <<>> /\ \A l \in Labels : attempts[l] = 0

\* Nothing moves before a transform is there.
TransformFirst ==
  published = {} =>
    /\ \A m \in Monitors : monitor[m] \in {"off", "waiting"}
    /\ sent = {} /\ ~triggered_

IInv == TypeOK /\ CallsInOrder /\ TransformFirst

-----------------------------------------------------------------------------
\* The list of the mode names each of its processes once, controller_manager
\* among them.
LEMMA CommandsProperties ==
  ASSUME NEW simulation \in BOOLEAN
  PROVE  /\ Commands(simulation) \in Seq(Labels)
         /\ Commands(simulation) # <<>>
         /\ \A i, j \in 1..Len(Commands(simulation)) :
              Commands(simulation)[i] = Commands(simulation)[j] => i = j
         /\ \A l \in ToSet(Commands(simulation)) :
              \E i \in 1..Len(Commands(simulation)) : Commands(simulation)[i] = l
         /\ \A i \in 1..Len(Commands(simulation)) :
              Commands(simulation)[i] \in ToSet(Commands(simulation))
         /\ "controller_manager" \in Labels
<1>1. Labels = {"controller_manager", "joy_linux", "teleop_twist_joy_node",
                "urg_node2", "laser_filter"}
  <2>1. ToSet(Common) = {"controller_manager", "joy_linux", "teleop_twist_joy_node"}
    BY DEF Common, ToSet
  <2>2. ToSet(Lidar) = {"urg_node2", "laser_filter"}
    BY DEF Lidar, ToSet
  <2>. QED  BY <2>1, <2>2 DEF Labels
<1>2. CASE simulation
  <2>1. Commands(simulation) = Common
    BY <1>2 DEF Commands
  <2>2. Common \in Seq(Labels) /\ Len(Common) = 3
    BY <1>1 DEF Common
  <2>3. \A i, j \in 1..3 : Common[i] = Common[j] => i = j
    BY DEF Common
  <2>4. ToSet(Common) = { Common[i] : i \in 1..3 }
    BY <2>2 DEF ToSet
  <2>. QED  BY <1>1, <2>1, <2>2, <2>3, <2>4
<1>3. CASE ~simulation
  <2>. DEFINE all == Common \o Lidar
  <2>1. Commands(simulation) = all
    BY <1>3 DEF Commands
  <2>2. all \in Seq(Labels) /\ Len(all) = 5
    <3>1. all \in Seq(Labels)
      BY <1>1 DEF Common, Lidar
    <3>2. Len(all) = 5
      BY DEF Common, Lidar
    <3>. QED  BY <3>1, <3>2
  <2>3. /\ all[1] = "controller_manager" /\ all[2] = "joy_linux"
        /\ all[3] = "teleop_twist_joy_node"
        /\ all[4] = "urg_node2" /\ all[5] = "laser_filter"
    BY DEF Common, Lidar
  <2>4. \A i, j \in 1..5 : all[i] = all[j] => i = j
    <3>1. \A i \in 1..5 : i \in {1, 2, 3, 4, 5}
      OBVIOUS
    <3>. QED  BY <2>3, <3>1
  <2>5. ToSet(all) = { all[i] : i \in 1..5 }
    BY <2>2 DEF ToSet
  <2>. HIDE DEF all
  <2>. QED  BY <1>1, <2>1, <2>2, <2>4, <2>5
<1>. QED  BY <1>2, <1>3

-----------------------------------------------------------------------------
LEMMA InitInv == Init => IInv
<1>. SUFFICES ASSUME Init PROVE IInv
  OBVIOUS
<1>1. sent = {} /\ Cardinality(sent) = 0
  BY FS_EmptySet DEF Init
<1>2. /\ monitor \in [Monitors -> {"off", "waiting", "sleeping", "published", "exited"}]
      /\ todo \in Seq(Labels)
      /\ proc \in [Labels -> {"none", "child", "running", "failed"}]
      /\ attempts \in [Labels -> Nat]
  BY DEF Init
<1>3. inbox \in 0..Cardinality(sent) /\ forkFaults \in 0..MaxForkFaults
  BY <1>1, ForkFaultsAssumption DEF Init
<1>4. TypeOK
  BY <1>1, <1>2, <1>3 DEF Init, TypeOK
<1>5. CallsInOrder /\ TransformFirst
  BY DEF Init, CallsInOrder, TransformFirst
<1>. QED  BY <1>4, <1>5 DEF IInv

\* The middleware and the announcing monitors do not touch what the callback
\* has done and has still to do.
LEMMA OutsidePreserves ==
  ASSUME IInv, UNCHANGED launcher, TypeOK', TransformFirst'
  PROVE  IInv'
BY DEF IInv, launcher, CallsInOrder, Done

\* A monitor moves on in its code, beyond "waiting" only behind a transform.
LEMMA MovePreserves ==
  ASSUME IInv, NEW m \in Monitors, NEW from,
         NEW to \in {"off", "waiting", "sleeping", "published", "exited"},
         Move(m, from, to),
         to \in {"off", "waiting"} \/ published # {}
  PROVE  IInv'
<1>1. TypeOK'
  BY DEF Move, transport, launcher, IInv, TypeOK
<1>2. TransformFirst'
  BY DEF Move, transport, launcher, IInv, TypeOK, TransformFirst
<1>. QED  BY <1>1, <1>2, OutsidePreserves DEF Move

\* The reader's history grows only with a writer that has not delivered yet.
LEMMA DeliverPreserves ==
  ASSUME IInv, NEW m \in Monitors, Deliver(m)
  PROVE  IInv'
<1>1. IsFiniteSet(sent) /\ m \notin sent
  BY MonitorsAssumption, FS_Subset DEF Deliver, IInv, TypeOK
<1>2. Cardinality(sent') = Cardinality(sent) + 1 /\ Cardinality(sent) \in Nat
  BY <1>1, FS_AddElement, FS_CardinalityType DEF Deliver
<1>3. inbox' \in 0..Cardinality(sent')
  BY <1>2 DEF Deliver, IInv, TypeOK
<1>4. TypeOK'
  BY <1>3 DEF Deliver, launcher, IInv, TypeOK
<1>5. TransformFirst'
  BY DEF Deliver, launcher, IInv, TransformFirst
<1>. QED  BY <1>4, <1>5, OutsidePreserves DEF Deliver

\* The callback is entered: the first time it has the whole list before it.
LEMMA CallbackPreserves ==
  ASSUME IInv, callback
  PROVE  IInv'
<1>. USE DEF IInv, callback
<1>1. simulation_ \in BOOLEAN /\ Commands(simulation_) \in Seq(Labels)
  BY CommandsProperties DEF TypeOK
<1>2. IsFiniteSet(sent)
  BY MonitorsAssumption, FS_Subset DEF TypeOK
<1>3. Cardinality(sent) \in Nat
  BY <1>2, FS_CardinalityType
<1>4. inbox' \in 0..Cardinality(sent')
  BY <1>3 DEF TypeOK
<1>5. todo' \in Seq(Labels) /\ triggered_' \in BOOLEAN
  BY <1>1 DEF TypeOK
<1>6. TypeOK'
  BY <1>4, <1>5 DEF TypeOK
<1>7. sent # {}
  BY FS_EmptySet DEF TypeOK
<1>8. TransformFirst'
  BY <1>7 DEF TransformFirst
<1>9. CallsInOrder'
  <2>1. CASE triggered_
    BY <2>1 DEF CallsInOrder, Done
  <2>2. CASE ~triggered_
    <3>1. triggered_' /\ todo' = Commands(simulation_) /\ Done' = 0
      BY <1>1, <2>2 DEF Done
    <3>2. \A l \in Labels : attempts'[l] = 0
      BY <2>2 DEF CallsInOrder
    <3>. QED  BY <1>1, <3>1, <3>2 DEF CallsInOrder
  <2>. QED  BY <2>1, <2>2
<1>. QED  BY <1>6, <1>8, <1>9

\* One call more: the next of the list, which was not tried before.
LEMMA LaunchPreserves ==
  ASSUME IInv, NEW l \in Labels, launch_process(l)
  PROVE  IInv' /\ attempts[l] = 0 /\ triggered_
<1>. USE DEF IInv
<1>. DEFINE C == Commands(simulation_)
<1>1. simulation_ \in BOOLEAN /\ C \in Seq(Labels)
  BY CommandsProperties DEF TypeOK
<1>2. \A i, j \in 1..Len(C) : C[i] = C[j] => i = j
  BY <1>1, CommandsProperties
<1>3. todo \in Seq(Labels) /\ todo # <<>> /\ todo' = Tail(todo) /\ l = todo[1]
  BY DEF launch_process, TypeOK
<1>4. /\ triggered_
      /\ Len(todo) <= Len(C)
      /\ \A i \in DOMAIN todo : todo[i] = C[Done + i]
      /\ \A k \in Labels : attempts[k] = IF \E i \in 1..Done : C[i] = k THEN 1 ELSE 0
  BY <1>3 DEF CallsInOrder
<1>5. /\ Len(todo') = Len(todo) - 1 /\ todo' \in Seq(Labels)
      /\ \A i \in 1..Len(todo') : todo'[i] = todo[i + 1]
  BY <1>3
<1>6. triggered_' = triggered_ /\ simulation_' = simulation_ /\ C' = C
  BY DEF launch_process
<1>. HIDE DEF C
<1>7. Len(C) \in Nat /\ Len(todo) \in Nat /\ Len(todo) > 0
  BY <1>1, <1>3
<1>8. Done = Len(C) - Len(todo) /\ Done' = Done + 1 /\ Done \in Nat /\ Done + 1 <= Len(C)
  BY <1>4, <1>5, <1>6, <1>7 DEF Done, C
<1>9. l = C[Done + 1]
  BY <1>3, <1>4, <1>7
<1>10. attempts[l] = 0
  <2>1. ~ \E i \in 1..Done : C[i] = l
    BY <1>2, <1>8, <1>9
  <2>. QED  BY <1>4, <2>1
<1>11. attempts' \in [Labels -> Nat] /\ attempts' = [attempts EXCEPT ![l] = 1]
  BY <1>10 DEF launch_process, TypeOK
<1>12. TypeOK'
  <2>1. proc' \in [Labels -> {"none", "child", "running", "failed"}]
    BY DEF launch_process, TypeOK
  <2>2. forkFaults' \in 0..MaxForkFaults
    BY ForkFaultsAssumption DEF launch_process, TypeOK
  <2>. QED  BY <1>5, <1>11, <2>1, <2>2 DEF launch_process, transport, TypeOK
<1>13. TransformFirst'
  BY <1>4, <1>6 DEF launch_process, transport, TransformFirst
<1>14. CallsInOrder'
  <2>1. \A k \in Labels :
          attempts'[k] = IF \E i \in 1..Done + 1 : C[i] = k THEN 1 ELSE 0
    <3>. SUFFICES ASSUME NEW k \in Labels
                  PROVE  attempts'[k] = IF \E i \in 1..Done + 1 : C[i] = k THEN 1 ELSE 0
      OBVIOUS
    <3>1. CASE k = l
      <4>1. attempts'[k] = 1
        BY <1>11, <3>1 DEF TypeOK
      <4>2. Done + 1 \in 1..Done + 1
        BY <1>8
      <4>. QED  BY <1>9, <3>1, <4>1, <4>2
    <3>2. CASE k # l
      <4>1. attempts'[k] = attempts[k]
        BY <1>11, <3>2 DEF TypeOK
      <4>2. (\E i \in 1..Done + 1 : C[i] = k) <=> \E i \in 1..Done : C[i] = k
        BY <1>8, <1>9, <3>2
      <4>. QED  BY <1>4, <4>1, <4>2
    <3>. QED  BY <3>1, <3>2
  <2>2. \A i \in DOMAIN todo' : todo'[i] = C[Done + 1 + i]
    <3>. SUFFICES ASSUME NEW i \in 1..Len(todo')
                  PROVE  todo'[i] = C[Done + 1 + i]
      BY <1>5
    <3>1. todo'[i] = todo[i + 1] /\ i + 1 \in DOMAIN todo
      BY <1>3, <1>5, <1>7
    <3>2. Done + (i + 1) = Done + 1 + i
      BY <1>8
    <3>. QED  BY <1>4, <3>1, <3>2
  <2>3. Len(todo') <= Len(C)
    BY <1>4, <1>5, <1>7
  <2>. SUFFICES /\ Len(todo') <= Len(C')
                /\ \A i \in DOMAIN todo' : todo'[i] = C'[Done' + i]
                /\ \A k \in Labels :
                     attempts'[k] = IF \E i \in 1..Done' : C'[i] = k THEN 1 ELSE 0
    BY <1>4, <1>6 DEF CallsInOrder, C
  <2>. QED  BY <1>6, <1>8, <2>1, <2>2, <2>3
<1>. QED  BY <1>4, <1>10, <1>12, <1>13, <1>14

LEMMA NextInv == IInv /\ [Next]_vars => IInv'
<1>. SUFFICES ASSUME IInv, [Next]_vars PROVE IInv'
  OBVIOUS
<1>1. CASE UNCHANGED vars
  BY <1>1 DEF vars, transport, launcher, IInv, TypeOK, CallsInOrder, Done, TransformFirst
<1>2. ASSUME NEW s \in Sources, PublishTf(s) PROVE IInv'
  <2>1. TypeOK' /\ TransformFirst'
    BY <1>2 DEF PublishTf, transport, launcher, IInv, TypeOK, TransformFirst
  <2>. QED  BY <1>2, <2>1, OutsidePreserves DEF PublishTf
<1>3. ASSUME NEW m \in Monitors, StartMonitor(m) PROVE IInv'
  BY <1>3, MovePreserves DEF StartMonitor
<1>4. ASSUME NEW m \in Monitors, callback_tf_static(m) PROVE IInv'
  BY <1>4, MovePreserves DEF callback_tf_static
<1>5. ASSUME NEW m \in Monitors, PublishReady(m) PROVE IInv'
  <2>1. published # {}
    BY <1>5 DEF PublishReady, Move, IInv, TransformFirst
  <2>. QED  BY <1>5, <2>1, MovePreserves DEF PublishReady
<1>6. ASSUME NEW m \in Monitors, Exit(m) PROVE IInv'
  <2>1. published # {}
    BY <1>6 DEF Exit, Move, IInv, TransformFirst
  <2>. QED  BY <1>6, <2>1, MovePreserves DEF Exit
<1>7. ASSUME NEW m \in Monitors, Match(m) PROVE IInv'
  <2>1. TypeOK' /\ TransformFirst'
    BY <1>7 DEF Match, launcher, IInv, TypeOK, TransformFirst
  <2>. QED  BY <1>7, <2>1, OutsidePreserves DEF Match
<1>8. ASSUME NEW m \in Monitors, Deliver(m) PROVE IInv'
  BY <1>8, DeliverPreserves
<1>9. CASE StartReader
  <2>1. TypeOK' /\ TransformFirst'
    BY <1>9 DEF StartReader, transport, launcher, IInv, TypeOK, TransformFirst
  <2>. QED  BY <1>9, <2>1, OutsidePreserves DEF StartReader
<1>10. CASE callback
  BY <1>10, CallbackPreserves
<1>11. ASSUME NEW l \in Labels, launch_process(l) PROVE IInv'
  BY <1>11, LaunchPreserves
<1>12. ASSUME NEW l \in Labels, Execvp(l) PROVE IInv'
  <2>1. proc' \in [Labels -> {"none", "child", "running", "failed"}]
    BY <1>12 DEF Execvp, IInv, TypeOK
  <2>2. forkFaults' \in 0..MaxForkFaults
    BY <1>12, ForkFaultsAssumption DEF Execvp, IInv, TypeOK
  <2>3. TypeOK' /\ TransformFirst'
    BY <1>12, <2>1, <2>2 DEF Execvp, transport, IInv, TypeOK, TransformFirst
  <2>4. CallsInOrder'
    BY <1>12 DEF Execvp, IInv, CallsInOrder, Done
  <2>. QED  BY <2>3, <2>4 DEF IInv
<1>. QED
  BY <1>1, <1>2, <1>3, <1>4, <1>5, <1>6, <1>7, <1>8, <1>9, <1>10, <1>11, <1>12 DEF Next

\* The strengthened invariant holds in every reachable state.
THEOREM Invariance == Spec => []IInv
BY InitInv, NextInv, PTL DEF Spec

-----------------------------------------------------------------------------
\* The state keeps its type; the reader never holds more samples than writers
\* have sent to it.
THEOREM TypeCorrect == Spec => []TypeOK
<1>1. IInv => TypeOK
  BY DEF IInv
<1>. QED  BY <1>1, Invariance, PTL

\* No process is tried twice, however many monitors announce the transforms,
\* and none that does not belong to the mode.
THEOREM TriedOnce == Spec => []AttemptedOnce
<1>1. IInv => AttemptedOnce
  <2>. SUFFICES ASSUME IInv, NEW l \in Labels
                PROVE  attempts[l] <= (IF l \in Wanted THEN 1 ELSE 0)
    BY DEF AttemptedOnce
  <2>1. attempts[l] = 0 \/ (attempts[l] = 1 /\ l \in Wanted)
    <3>1. CASE triggered_
      <4>1. simulation_ \in BOOLEAN /\ todo \in Seq(Labels)
        BY DEF IInv, TypeOK
      <4>2. Done <= Len(Commands(simulation_))
        BY <4>1, CommandsProperties DEF Done
      <4>3. Done \in Int /\ Len(Commands(simulation_)) \in Nat
        BY <4>1, CommandsProperties DEF Done
      <4>. QED
        BY <3>1, <4>1, <4>2, <4>3, CommandsProperties DEF IInv, CallsInOrder, Wanted
    <3>2. CASE ~triggered_
      BY <3>2 DEF IInv, CallsInOrder
    <3>. QED  BY <3>1, <3>2
  <2>. QED  BY <2>1
<1>. QED  BY <1>1, Invariance, PTL

\* When the callback is done, each process of the mode was tried exactly once,
\* whichever of the calls failed.
THEOREM TriedAll == Spec => []NothingSkipped
<1>1. IInv => NothingSkipped
  <2>. SUFFICES ASSUME IInv, triggered_, todo = <<>>, NEW l \in Wanted
                PROVE  attempts[l] = 1
    BY DEF NothingSkipped
  <2>1. simulation_ \in BOOLEAN
    BY DEF IInv, TypeOK
  <2>2. Done = Len(Commands(simulation_))
    BY <2>1, CommandsProperties DEF Done
  <2>3. PICK i \in 1..Len(Commands(simulation_)) : Commands(simulation_)[i] = l
    BY <2>1, CommandsProperties DEF Wanted
  <2>4. l \in Labels
    BY <2>1, <2>3, CommandsProperties
  <2>. QED  BY <2>2, <2>3, <2>4 DEF IInv, CallsInOrder
<1>. QED  BY <1>1, Invariance, PTL

-----------------------------------------------------------------------------
\* Every step of the pair of nodes is a step of the latch or leaves it alone:
\* only the first transform and the first launch_process are seen.
LEMMA StepRefines ==
  ASSUME IInv, [Next]_vars
  PROVE  [Latch!Next]_(Latch!vars)
<1>. USE DEF Latch!vars, Latch!Next
<1>1. CASE UNCHANGED <<published, attempts>>
  BY <1>1
<1>2. ASSUME NEW s \in Sources, PublishTf(s)
      PROVE  [Latch!Next]_(Latch!vars)
  <2>1. published' # {} /\ attempts' = attempts
    BY <1>2 DEF PublishTf, launcher
  <2>2. Latch!BecomeActive("tf_static")
    BY <2>1 DEF Latch!BecomeActive
  <2>. QED  BY <2>2
<1>3. ASSUME NEW l \in Labels, launch_process(l)
      PROVE  [Latch!Next]_(Latch!vars)
  <2>1. attempts[l] = 0 /\ triggered_
    BY <1>3, LaunchPreserves
  <2>2. published' = published /\ published # {}
    BY <1>3, <2>1 DEF launch_process, IInv, TransformFirst
  <2>3. CASE l = "controller_manager"
    <3>1. attempts["controller_manager"] = 0 /\ attempts'["controller_manager"] = 1
      BY <1>3, <2>1, <2>3 DEF launch_process, IInv, TypeOK
    <3>2. Latch!Start
      BY <2>2, <3>1 DEF Latch!Start
    <3>. QED  BY <3>2
  <2>4. CASE l # "controller_manager"
    <3>1. attempts'["controller_manager"] = attempts["controller_manager"]
      BY <1>3, <2>4 DEF launch_process, IInv, TypeOK
    <3>. QED  BY <2>2, <3>1
  <2>. QED  BY <2>3, <2>4
<1>. QED
  BY <1>1, <1>2, <1>3
  DEF Next, vars, launcher, StartMonitor, callback_tf_static, PublishReady, Exit, Move,
      Match, Deliver, StartReader, callback, Execvp

\* TfStaticGate implements LaunchLatch: controller_manager is started once, and
\* only when a transform is there.
THEOREM Refinement == Spec => LatchSpec
<1>1. Init => Latch!Init
  BY CommandsProperties DEF Init, Latch!Init
<1>2. IInv /\ [Next]_vars => [Latch!Next]_(Latch!vars)
  BY StepRefines
<1>. QED  BY <1>1, <1>2, Invariance, PTL DEF Spec, LatchSpec, Latch!Spec
=============================================================================
