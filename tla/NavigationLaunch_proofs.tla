---------------------- MODULE NavigationLaunch_proofs ----------------------
(***************************************************************************)
(* Theorems about NavigationLaunch, for every number of open requests and  *)
(* every crash: SLAM and localization exclude each other, each manager has *)
(* its nodes, and the AMCL monitor says the truth, once.                   *)
(***************************************************************************)
EXTENDS NavigationLaunch, TLAPS

\* The inductive invariant.  What the monitor says is true because every
\* answer on its way was true when it was given, and activity is remembered.
AnswersTrue ==
  /\ (\E i \in DOMAIN answers : answers[i]) => ever_active
  /\ amcl_active # {} => ever_active

IInv == TypeOK /\ AnswersTrue /\ AmclTruth

-----------------------------------------------------------------------------
\* A sequence without its i-th element.
LEMMA RemoveAtProperties ==
  ASSUME NEW S, NEW q \in Seq(S), NEW i \in 1..Len(q)
  PROVE  RemoveAt(q, i) \in Seq(S) /\ Len(RemoveAt(q, i)) = Len(q) - 1
<1>. DEFINE front == SubSeq(q, 1, i - 1)
            back == SubSeq(q, i + 1, Len(q))
<1>1. front \in Seq(S) /\ Len(front) = i - 1
  OBVIOUS
<1>2. back \in Seq(S) /\ Len(back) = Len(q) - i
  OBVIOUS
<1>. HIDE DEF front, back
<1>3. front \o back \in Seq(S) /\ Len(front \o back) = Len(q) - 1
  <2>1. front \o back \in Seq(S)
    BY <1>1, <1>2
  <2>2. Len(front \o back) = Len(front) + Len(back)
    BY <1>1, <1>2
  <2>. QED  BY <1>1, <1>2, <2>1, <2>2
<1>. QED  BY <1>3 DEF RemoveAt, front, back

\* What a queue holds after one element more, and after one less.
LEMMA AppendProperties ==
  ASSUME NEW S, NEW q \in Seq(S), NEW e \in S
  PROVE  /\ Append(q, e) \in Seq(S) /\ Len(Append(q, e)) = Len(q) + 1
         /\ \A j \in DOMAIN Append(q, e) :
              Append(q, e)[j] = e \/ \E k \in DOMAIN q : Append(q, e)[j] = q[k]
OBVIOUS

LEMMA TailProperties ==
  ASSUME NEW S, NEW q \in Seq(S), q # <<>>
  PROVE  /\ Head(q) \in S /\ 1 \in DOMAIN q /\ Head(q) = q[1]
         /\ Tail(q) \in Seq(S) /\ Len(Tail(q)) = Len(q) - 1
         /\ \A j \in DOMAIN Tail(q) : j + 1 \in DOMAIN q /\ q[j + 1] = Tail(q)[j]
OBVIOUS

\* The launches are described by their arguments, which never change.
LEMMA DescriptionFixed ==
  ASSUME UNCHANGED args
  PROVE  RobotNodes' = RobotNodes /\ NavigationNodes' = NavigationNodes /\ Amcls' = Amcls
BY DEF args, RobotNodes, NavigationNodes, Group, Amcls

\* In each combination of arguments, a lifecycle manager and each of the nodes
\* it waits for are described by the same launch: none of the names the manager
\* is given (navigation.launch.py:45-51, localization.launch.py:47,
\* slam_toolbox.launch.py:39) is missing from the processes or the components
\* that go with it, which are lists of their own in those files.
THEOREM ManagersHaveNodes ==
  \A n \in RobotNodes \union NavigationNodes :
    n.name \in DOMAIN Managed =>
      \A x \in Managed[n.name] :
        \E k \in RobotNodes \union NavigationNodes : k.name = x /\ k.launch = n.launch
<1>. SUFFICES ASSUME NEW n \in RobotNodes \union NavigationNodes,
                     n.name \in DOMAIN Managed, NEW x \in Managed[n.name]
              PROVE  \E k \in RobotNodes \union NavigationNodes :
                       k.name = x /\ k.launch = n.launch
  OBVIOUS
\* The lists agree.
<1>1. LocalizationManaged \subseteq LocalizationProcesses \intersect LocalizationComponents
  BY DEF LocalizationManaged, LocalizationProcesses, LocalizationComponents
<1>2. SlamManaged \subseteq SlamProcesses
  BY DEF SlamManaged, SlamProcesses
<1>3. NavigationManaged \subseteq NavigationProcesses \intersect NavigationComponents
  BY DEF NavigationManaged, NavigationProcesses, NavigationComponents
\* Each manager is in the lists of its own launch file only.
<1>4. n.name \in {"lifecycle_manager_localization", "lifecycle_manager_slam",
                  "lifecycle_manager_navigation"}
  BY DEF Managed
<1>5. CASE n \in RobotNodes
  <2>1. n.name \in LocalizationProcesses /\ n.launch = "robot" /\ ~slam
    BY <1>5 DEF RobotNodes, Nodes
  <2>2. n.name = "lifecycle_manager_localization"
    BY <1>4, <2>1 DEF LocalizationProcesses
  <2>3. x \in LocalizationProcesses
    BY <1>1, <2>2 DEF Managed
  <2>4. [launch |-> "robot", name |-> x, kind |-> "process"] \in RobotNodes
    BY <2>1, <2>3 DEF RobotNodes, Nodes
  <2>. QED  BY <2>1, <2>4
<1>6. CASE n \in NavigationNodes
  <2>1. n.launch = "navigation"
    BY <1>6 DEF NavigationNodes, Group, Nodes
  <2>2. PICK kind : [launch |-> "navigation", name |-> x, kind |-> kind] \in NavigationNodes
    <3>1. CASE n.name = "lifecycle_manager_localization"
      <4>1. ~slam /\ use_localization
        BY <1>6, <3>1
        DEF NavigationNodes, Group, Nodes, SlamProcesses, NavigationProcesses,
            NavigationComponents
      <4>2. x \in LocalizationProcesses \intersect LocalizationComponents
        BY <1>1, <3>1 DEF Managed
      <4>. QED  BY <4>1, <4>2 DEF NavigationNodes, Group, Nodes
    <3>2. CASE n.name = "lifecycle_manager_slam"
      <4>1. slam /\ use_localization
        BY <1>6, <3>2
        DEF NavigationNodes, Group, Nodes, LocalizationProcesses, LocalizationComponents,
            NavigationProcesses, NavigationComponents
      <4>2. x \in SlamProcesses
        BY <1>2, <3>2 DEF Managed
      <4>. QED  BY <4>1, <4>2 DEF NavigationNodes, Nodes
    <3>3. CASE n.name = "lifecycle_manager_navigation"
      <4>1. x \in NavigationProcesses \intersect NavigationComponents
        BY <1>3, <3>3 DEF Managed
      <4>. QED  BY <4>1 DEF NavigationNodes, Group, Nodes
    <3>. QED  BY <1>4, <3>1, <3>2, <3>3
  <2>. QED  BY <2>1, <2>2
<1>. QED  BY <1>5, <1>6

-----------------------------------------------------------------------------
(* The invariant.                                                          *)

LEMMA InitInv == Init => IInv
<1>. SUFFICES ASSUME Init PROVE IInv
  OBVIOUS
<1>1. pending \in Seq(SUBSET Amcls) /\ answers \in Seq(BOOLEAN)
  BY DEF Init
<1>2. Len(pending) + Len(answers) <= MaxPending
  BY PendingAssumption DEF Init
<1>3. TypeOK
  BY <1>1, <1>2 DEF Init, TypeOK
<1>. QED  BY <1>3 DEF Init, IInv, AnswersTrue, AmclTruth

\* A node that starts is a component only if its container runs.
LEMMA StartNodePreserves ==
  ASSUME IInv, NEW n \in RobotNodes \union NavigationNodes, StartNode(n)
  PROVE  IInv'
<1>. USE DEF IInv, StartNode
<1>1. RobotNodes' = RobotNodes /\ NavigationNodes' = NavigationNodes /\ Amcls' = Amcls
  BY DescriptionFixed
<1>2. running' \subseteq RobotNodes' \union NavigationNodes'
  BY <1>1 DEF TypeOK, Batch
<1>3. (\E k \in running' : k.kind = "component") => Container' \subseteq running'
  BY DEF TypeOK, Container, Batch
<1>4. crashed' \intersect running' = {} /\ amcl_active' \subseteq Amcls' \intersect running'
  BY <1>1 DEF TypeOK, Batch
<1>5. TypeOK'
  BY <1>1, <1>2, <1>3, <1>4 DEF TypeOK, args, monitor
<1>6. AnswersTrue' /\ AmclTruth'
  BY DEF AnswersTrue, AmclTruth, monitor
<1>. QED  BY <1>5, <1>6

\* A node that dies takes its components and its requests along.
LEMMA CrashPreserves ==
  ASSUME IInv, NEW n \in RobotNodes \union NavigationNodes, Crash(n)
  PROVE  IInv'
<1>. USE DEF IInv
<1>. DEFINE dead == IF n \in Container
                      THEN {n} \union { c \in running : c.kind = "component" }
                      ELSE {n}
<1>1. RobotNodes' = RobotNodes /\ NavigationNodes' = NavigationNodes /\ Amcls' = Amcls
  BY DescriptionFixed DEF Crash
<1>2. /\ running' = running \ dead /\ crashed' = crashed \union dead
      /\ amcl_active' = amcl_active \ dead
      /\ pending' = [i \in DOMAIN pending |-> pending[i] \ dead]
      /\ UNCHANGED <<args, launched, ever_active, answers, triggered_>>
  BY DEF Crash
<1>3. (\E k \in running' : k.kind = "component") => Container' \subseteq running'
  <2>. SUFFICES ASSUME NEW k \in running', k.kind = "component"
                PROVE  Container \subseteq running'
    BY DEF Container
  <2>1. n \notin Container
    BY <1>2
  <2>2. Container \subseteq running
    BY <1>2 DEF TypeOK
  <2>. QED  BY <1>2, <2>1, <2>2
<1>. HIDE DEF dead
<1>4. pending' \in Seq(SUBSET Amcls) /\ Len(pending') = Len(pending)
  <2>1. pending \in Seq(SUBSET Amcls)
    BY DEF TypeOK
  <2>2. \A i \in 1..Len(pending) : pending[i] \ dead \in SUBSET Amcls
    BY <2>1
  <2>. QED  BY <1>2, <2>1, <2>2
<1>5. TypeOK'
  BY <1>1, <1>2, <1>3, <1>4 DEF TypeOK, args
<1>6. AnswersTrue' /\ AmclTruth'
  BY <1>2 DEF AnswersTrue, AmclTruth
<1>. QED  BY <1>5, <1>6

\* An answer that says "active" comes from an amcl that is.
LEMMA AnswerPreserves ==
  ASSUME IInv, NEW n \in RobotNodes \union NavigationNodes, Answer(n)
  PROVE  IInv'
<1>. USE DEF IInv
<1>1. RobotNodes' = RobotNodes /\ NavigationNodes' = NavigationNodes /\ Amcls' = Amcls
  BY DescriptionFixed DEF Answer
<1>2. PICK i \in DOMAIN pending : n \in pending[i] /\ pending' = RemoveAt(pending, i)
  BY DEF Answer
<1>3. pending \in Seq(SUBSET Amcls) /\ answers \in Seq(BOOLEAN)
  BY DEF TypeOK
<1>4. pending' \in Seq(SUBSET Amcls) /\ Len(pending') = Len(pending) - 1
  BY <1>2, <1>3, RemoveAtProperties
<1>5. /\ answers' \in Seq(BOOLEAN) /\ Len(answers') = Len(answers) + 1
      /\ \A j \in DOMAIN answers' :
           answers'[j] = (n \in amcl_active) \/ \E k \in DOMAIN answers : answers'[j] = answers[k]
  <2>1. (n \in amcl_active) \in BOOLEAN
    OBVIOUS
  <2>2. answers' = Append(answers, n \in amcl_active)
    BY DEF Answer
  <2>. QED  BY <1>3, <2>1, <2>2, AppendProperties
<1>6. Len(pending') + Len(answers') <= MaxPending
  BY <1>3, <1>4, <1>5, PendingAssumption DEF TypeOK
<1>7. TypeOK'
  BY <1>1, <1>4, <1>5, <1>6 DEF Answer, TypeOK, args, Container
<1>8. AnswersTrue' /\ AmclTruth'
  BY <1>5 DEF Answer, AnswersTrue, AmclTruth
<1>. QED  BY <1>7, <1>8

\* The callback of a request says what the answer said.
LEMMA HandleAnswerPreserves ==
  ASSUME IInv, HandleAnswer
  PROVE  IInv' /\ (triggered_' => ever_active)
<1>. USE DEF IInv
<1>1. /\ answers # <<>> /\ answers' = Tail(answers)
      /\ triggered_' = (triggered_ \/ Head(answers))
      /\ UNCHANGED <<args, launched, running, crashed, amcl_active, ever_active, pending>>
  BY DEF HandleAnswer
<1>2. answers \in Seq(BOOLEAN) /\ pending \in Seq(SUBSET Amcls)
  BY DEF TypeOK
<1>3. /\ Head(answers) \in BOOLEAN /\ 1 \in DOMAIN answers /\ Head(answers) = answers[1]
      /\ Tail(answers) \in Seq(BOOLEAN) /\ Len(Tail(answers)) = Len(answers) - 1
      /\ \A j \in DOMAIN Tail(answers) :
           j + 1 \in DOMAIN answers /\ answers[j + 1] = Tail(answers)[j]
  BY <1>1, <1>2, TailProperties
<1>4. RobotNodes' = RobotNodes /\ NavigationNodes' = NavigationNodes /\ Amcls' = Amcls
  BY <1>1, DescriptionFixed
<1>5. Len(pending') + Len(answers') <= MaxPending
  <2>1. Len(pending) + Len(answers) <= MaxPending
    BY DEF TypeOK
  <2>2. Len(pending) \in Nat /\ Len(answers) \in Nat
    BY <1>2
  <2>3. pending' = pending /\ answers' = Tail(answers)
    BY <1>1
  <2>. QED  BY <1>3, <2>1, <2>2, <2>3, PendingAssumption
<1>6. triggered_' \in BOOLEAN
  BY <1>1
<1>7. TypeOK'
  BY <1>1, <1>3, <1>4, <1>5, <1>6 DEF TypeOK, args, Container
<1>8. Head(answers) => ever_active
  BY <1>3 DEF AnswersTrue
<1>9. triggered_' => ever_active
  BY <1>1, <1>8 DEF AmclTruth
<1>10. AnswersTrue'
  BY <1>1, <1>3 DEF AnswersTrue
<1>. QED  BY <1>1, <1>7, <1>9, <1>10 DEF AmclTruth

LEMMA NextInv == IInv /\ [Next]_vars => IInv'
<1>. SUFFICES ASSUME IInv, [Next]_vars PROVE IInv'
  OBVIOUS
<1>. USE DEF IInv
<1>1. CASE UNCHANGED vars
  <2>1. RobotNodes' = RobotNodes /\ NavigationNodes' = NavigationNodes /\ Amcls' = Amcls
    BY <1>1, DescriptionFixed DEF vars
  <2>. QED
    BY <1>1, <2>1 DEF vars, args, monitor, TypeOK, Container, AnswersTrue, AmclTruth
<1>2. ASSUME NEW l \in {"robot", "navigation"}, Launch(l) PROVE IInv'
  <2>1. RobotNodes' = RobotNodes /\ NavigationNodes' = NavigationNodes /\ Amcls' = Amcls
    BY <1>2, DescriptionFixed DEF Launch
  <2>. QED
    BY <1>2, <2>1 DEF Launch, args, monitor, TypeOK, Container, AnswersTrue, AmclTruth
<1>3. ASSUME NEW n \in RobotNodes \union NavigationNodes, StartNode(n) PROVE IInv'
  BY <1>3, StartNodePreserves
<1>4. ASSUME NEW n \in RobotNodes \union NavigationNodes, Crash(n) PROVE IInv'
  BY <1>4, CrashPreserves
<1>5. ASSUME NEW n \in RobotNodes \union NavigationNodes, ActivateAmcl(n) PROVE IInv'
  <2>1. RobotNodes' = RobotNodes /\ NavigationNodes' = NavigationNodes /\ Amcls' = Amcls
    BY <1>5, DescriptionFixed DEF ActivateAmcl
  <2>2. TypeOK'
    BY <1>5, <2>1 DEF ActivateAmcl, args, monitor, TypeOK, Container
  <2>. QED  BY <1>5, <2>2 DEF ActivateAmcl, monitor, AnswersTrue, AmclTruth
<1>6. ASSUME NEW n \in RobotNodes \union NavigationNodes, Answer(n) PROVE IInv'
  BY <1>6, AnswerPreserves
<1>7. CASE poll_amcl_state
  <2>1. RobotNodes' = RobotNodes /\ NavigationNodes' = NavigationNodes /\ Amcls' = Amcls
    BY <1>7, DescriptionFixed DEF poll_amcl_state
  <2>2. pending \in Seq(SUBSET Amcls) /\ answers \in Seq(BOOLEAN)
    BY DEF TypeOK
  <2>3. pending' \in Seq(SUBSET Amcls) /\ Len(pending') = Len(pending) + 1
    BY <1>7, <2>2 DEF poll_amcl_state
  <2>4. Len(pending') + Len(answers') <= MaxPending
    BY <1>7, <2>2, <2>3, PendingAssumption DEF poll_amcl_state
  <2>5. TypeOK'
    BY <1>7, <2>1, <2>3, <2>4 DEF poll_amcl_state, args, TypeOK, Container
  <2>. QED  BY <1>7, <2>5 DEF poll_amcl_state, AnswersTrue, AmclTruth
<1>8. CASE HandleAnswer
  BY <1>8, HandleAnswerPreserves
<1>. QED
  BY <1>1, <1>2, <1>3, <1>4, <1>5, <1>6, <1>7, <1>8 DEF Next

\* The strengthened invariant holds in every reachable state.
THEOREM Invariance == Spec => []IInv
BY InitInv, NextInv, PTL DEF Spec

-----------------------------------------------------------------------------
(* The properties.                                                         *)

\* The state keeps its type; no component is outside its container or outlives
\* it, and no node that died comes back.
THEOREM TypeCorrect == Spec => []TypeOK
<1>1. IInv => TypeOK
  BY DEF IInv
<1>. QED  BY <1>1, Invariance, PTL

\* With slam there is no localization, without slam no slam_toolbox.
THEOREM SlamExcludesLocalization == Spec => []SlamAlone
<1>1. TypeOK => SlamAlone
  <2>. SUFFICES ASSUME TypeOK, NEW n \in running
                PROVE  n.name \notin (IF slam
                                        THEN LocalizationProcesses \union LocalizationComponents
                                               \union {"static_map_to_odom_tf"}
                                        ELSE SlamProcesses)
    BY DEF SlamAlone
  <2>1. n \in RobotNodes \union NavigationNodes
    BY DEF TypeOK
  <2>2. CASE slam
    <3>1. \/ n.name \in SlamProcesses
          \/ n.name \in NavigationProcesses \union NavigationComponents
          \/ n.name = "nav2_container"
      BY <2>1, <2>2 DEF RobotNodes, NavigationNodes, Group, Nodes
    <3>. QED
      BY <2>2, <3>1
      DEF LocalizationProcesses, LocalizationComponents, SlamProcesses,
          NavigationProcesses, NavigationComponents
  <2>3. CASE ~slam
    <3>1. \/ n.name \in LocalizationProcesses \union LocalizationComponents
          \/ n.name \in NavigationProcesses \union NavigationComponents
          \/ n.name \in {"nav2_container", "static_map_to_odom_tf"}
      BY <2>1, <2>3 DEF RobotNodes, NavigationNodes, Group, Nodes
    <3>. QED
      BY <2>3, <3>1
      DEF LocalizationProcesses, LocalizationComponents, SlamProcesses,
          NavigationProcesses, NavigationComponents
  <2>. QED  BY <2>2, <2>3
<1>. QED  BY <1>1, TypeCorrect, PTL

\* "AMCL is active." is only said when some amcl has been.
THEOREM MonitorTellsTruth == Spec => []AmclTruth
<1>1. IInv => AmclTruth
  BY DEF IInv
<1>. QED  BY <1>1, Invariance, PTL

-----------------------------------------------------------------------------
\* Every step is a step of the latch of the AMCL monitor or leaves it alone:
\* only an activation and a first good answer are seen.
LEMMA StepRefines ==
  ASSUME IInv, [Next]_vars
  PROVE  [Latch!Next]_(Latch!vars)
<1>. USE DEF Latch!vars, Latch!Next
<1>1. CASE UNCHANGED <<ever_active, triggered_>>
  BY <1>1
<1>2. ASSUME NEW n \in RobotNodes \union NavigationNodes, ActivateAmcl(n)
      PROVE  [Latch!Next]_(Latch!vars)
  <2>1. ever_active' /\ triggered_' = triggered_
    BY <1>2 DEF ActivateAmcl, monitor
  <2>2. Latch!BecomeActive("amcl")
    BY <2>1 DEF Latch!BecomeActive
  <2>. QED  BY <2>2
<1>3. CASE HandleAnswer
  <2>1. (triggered_' => ever_active) /\ ever_active' = ever_active /\ (triggered_ => triggered_')
    BY <1>3, HandleAnswerPreserves DEF HandleAnswer
  <2>2. triggered_ \in BOOLEAN /\ triggered_' \in BOOLEAN
    BY <1>3, HandleAnswerPreserves DEF IInv, TypeOK
  <2>3. CASE triggered_' /\ ~triggered_
    <3>1. Latch!Start
      BY <2>1, <2>3 DEF Latch!Start
    <3>. QED  BY <3>1
  <2>4. CASE triggered_' = triggered_
    BY <2>1, <2>4
  <2>. QED  BY <2>1, <2>2, <2>3, <2>4
<1>. QED
  BY <1>1, <1>2, <1>3
  DEF Next, vars, monitor, Launch, StartNode, Crash, Answer, poll_amcl_state

\* The AMCL monitor is a latch though it polls: it speaks once, after its
\* target has been active, and never takes it back.
THEOREM Refinement == Spec => AmclLatch
<1>1. Init => Latch!Init
  BY DEF Init, Latch!Init
<1>2. IInv /\ [Next]_vars => [Latch!Next]_(Latch!vars)
  BY StepRefines
<1>. QED  BY <1>1, <1>2, Invariance, PTL DEF Spec, AmclLatch, Latch!Spec
=============================================================================
