------------------------ MODULE LifecycleGate_proofs ------------------------
(***************************************************************************)
(* Theorems about LifecycleGate, for every set of targets, every history   *)
(* depth and every number of faults: the state has its type, the launch is *)
(* sound and never late, what is heard is only lost to a full history, and *)
(* the module implements LaunchLatch.                                      *)
(***************************************************************************)
EXTENDS LifecycleGate, TLAPS

\* The inductive invariant.  GateSound alone is not inductive: that no target
\* is taken for active too early has to be known of the events still waiting
\* and of the table, and the counter has to be tied to the flag.
HeardIsTrue == \A c \in Targets : Heard(c) => c \in ever
StartsIsFlag == starts = IF launched_ THEN 1 ELSE 0
QueueBounded == \A c \in Targets : Len(queue[c]) <= Depth
IInv == TypeOK /\ QueueBounded /\ HeardIsTrue /\ TableDecides /\ StartsIsFlag

-----------------------------------------------------------------------------
\* A bounded history holds nothing but its old events and the new one, whether
\* or not it was full.
LEMMA EnqueueContents ==
  ASSUME NEW S, NEW q \in Seq(S), NEW label \in S
  PROVE  /\ Enqueue(q, label) \in Seq(S)
         /\ Len(q) <= Depth => Len(Enqueue(q, label)) <= Depth
         /\ \A i \in DOMAIN Enqueue(q, label) :
              \/ Enqueue(q, label)[i] = label
              \/ \E j \in DOMAIN q : q[j] = Enqueue(q, label)[i]
<1>1. CASE Len(q) < Depth
  BY <1>1, DepthAssumption DEF Enqueue
<1>2. CASE ~(Len(q) < Depth) /\ q # <<>>
  <2>1. Tail(q) \in Seq(S) /\ Len(Tail(q)) = Len(q) - 1
    BY <1>2
  <2>2. \A i \in 1..Len(Tail(q)) : Tail(q)[i] = q[i + 1]
    BY <1>2
  <2>. QED  BY <1>2, <2>1, <2>2, DepthAssumption DEF Enqueue
<1>3. CASE ~(Len(q) < Depth) /\ q = <<>>
  BY <1>3, DepthAssumption
<1>. QED  BY <1>1, <1>2, <1>3

\* Reading the head of a history leaves its other events.
LEMMA TailContents ==
  ASSUME NEW S, NEW q \in Seq(S), q # <<>>
  PROVE  /\ Head(q) \in S
         /\ Tail(q) \in Seq(S)
         /\ 1 \in DOMAIN q /\ q[1] = Head(q)
         /\ \A i \in DOMAIN Tail(q) : i + 1 \in DOMAIN q /\ q[i + 1] = Tail(q)[i]
OBVIOUS

-----------------------------------------------------------------------------
\* A step of a controller (regular or not) preserves the invariant: the table
\* is not touched, and an "active" event is published with the target in ever.
LEMMA TransitionPreserves ==
  ASSUME IInv, NEW c \in Targets, NEW to \in Labels, Transition(c, to),
         faults' \in Nat
  PROVE  IInv'
<1>. USE DEF IInv
<1>1. Labels \subseteq LifecycleStates
  BY DEF Labels
<1>2. queue' \in [Targets -> Seq(Labels)]
  BY EnqueueContents DEF Transition, TypeOK
<1>3. TypeOK'
  BY <1>1, <1>2 DEF Transition, TypeOK
<1>4. HeardIsTrue'
  <2>. SUFFICES ASSUME NEW d \in Targets, Heard(d)'
                PROVE  d \in ever'
    BY DEF HeardIsTrue
  <2>1. CASE states_'[d] = "active"
    BY <2>1 DEF Transition, HeardIsTrue, Heard, TypeOK
  <2>2. CASE \E i \in DOMAIN queue'[d] : queue'[d][i] = "active"
    <3>1. CASE queue'[d] = queue[d]
      BY <2>2, <3>1 DEF Transition, HeardIsTrue, Heard, TypeOK
    <3>2. CASE queue'[d] # queue[d]
      <4>1. d = c /\ queue'[d] = Enqueue(queue[d], to)
        BY <3>2 DEF Transition, TypeOK
      <4>2. queue[d] \in Seq(Labels)
        BY DEF TypeOK
      <4>3. PICK i \in DOMAIN queue'[d] : queue'[d][i] = "active"
        BY <2>2
      <4>4. to = "active" \/ \E j \in DOMAIN queue[d] : queue[d][j] = "active"
        BY <4>1, <4>2, <4>3, EnqueueContents
      <4>. QED  BY <4>1, <4>4 DEF Transition, HeardIsTrue, Heard, TypeOK
    <3>. QED  BY <3>1, <3>2
  <2>. QED  BY <2>1, <2>2 DEF Heard
<1>5. TableDecides' /\ StartsIsFlag'
  BY DEF Transition, TableDecides, StartsIsFlag
<1>6. QueueBounded'
  BY EnqueueContents DEF Transition, TypeOK, QueueBounded
<1>. QED  BY <1>3, <1>4, <1>5, <1>6

\* Every label a transition can carry is one an event can carry.
LEMMA LabelsOfTransitions ==
  ASSUME NEW from, NEW to, <<from, to>> \in Regular \union Faulty
  PROVE  to \in Labels
BY DEF Regular, Faulty, Labels, LifecycleStates

\* The executor's step preserves the invariant: the only step that changes the
\* table, and the only one that can start the launch.
LEMMA HandlePreserves ==
  ASSUME IInv, NEW c \in Targets, Handle(c)
  PROVE  IInv'
<1>. USE DEF IInv
<1>1. queue[c] \in Seq(Labels) /\ queue[c] # <<>>
  BY DEF Handle, TypeOK
<1>2. /\ Head(queue[c]) \in Labels
      /\ Tail(queue[c]) \in Seq(Labels)
      /\ 1 \in DOMAIN queue[c] /\ queue[c][1] = Head(queue[c])
      /\ \A i \in DOMAIN Tail(queue[c]) :
            i + 1 \in DOMAIN queue[c] /\ queue[c][i + 1] = Tail(queue[c])[i]
  BY <1>1, TailContents
<1>3. queue' \in [Targets -> Seq(Labels)]
  BY <1>2 DEF Handle, TypeOK
<1>6. QueueBounded'
  <2>1. Len(Tail(queue[c])) <= Len(queue[c])
    BY <1>1
  <2>2. Len(queue[c]) <= Depth /\ Len(queue[c]) \in Nat /\ Len(Tail(queue[c])) \in Nat
    BY <1>1, <1>2 DEF QueueBounded
  <2>3. Len(Tail(queue[c])) <= Depth
    BY <2>1, <2>2, DepthAssumption
  <2>4. \A d \in Targets : queue'[d] = IF d = c THEN Tail(queue[c]) ELSE queue[d]
    BY DEF Handle, TypeOK
  <2>. QED  BY <2>3, <2>4 DEF QueueBounded
<1>4. CASE Head(queue[c]) = "active"
  <2>1. /\ states_' = [states_ EXCEPT ![c] = "active"]
        /\ check_all_active(states_')
    BY <1>4 DEF Handle, Callback
  <2>2. TypeOK' /\ StartsIsFlag'
    <3>1. states_' \in [Targets -> {"unknown", "active"}]
      BY <2>1 DEF TypeOK
    <3>2. \/ ~launched_ /\ starts' = starts + 1 /\ launched_' = TRUE
          \/ UNCHANGED <<starts, launched_>>
      BY <2>1 DEF check_all_active
    <3>3. launched_' \in BOOLEAN /\ starts' \in Nat /\ StartsIsFlag'
      <4>1. CASE ~launched_ /\ starts' = starts + 1 /\ launched_' = TRUE
        <5>1. starts = 0
          BY <4>1 DEF StartsIsFlag
        <5>2. starts' = 1
          BY <4>1, <5>1
        <5>. QED  BY <4>1, <5>2 DEF StartsIsFlag
      <4>2. CASE UNCHANGED <<starts, launched_>>
        BY <4>2 DEF TypeOK, StartsIsFlag
      <4>. QED  BY <3>2, <4>1, <4>2
    <3>. QED  BY <1>3, <3>1, <3>3 DEF Handle, TypeOK
  <2>3. TableDecides'
    <3>1. launched_ => \A d \in Targets : states_'[d] = "active"
      BY <2>1 DEF TableDecides, TypeOK
    <3>. QED  BY <2>1, <3>1 DEF check_all_active, all_active, TableDecides
  <2>4. c \in ever
    BY <1>2, <1>4 DEF HeardIsTrue, Heard
  <2>5. HeardIsTrue'
    <3>. SUFFICES ASSUME NEW d \in Targets, Heard(d)'
                  PROVE  d \in ever
      BY DEF HeardIsTrue, Handle
    <3>1. CASE d = c
      BY <2>4, <3>1
    <3>2. CASE d # c
      BY <2>1, <3>2 DEF Handle, HeardIsTrue, Heard, TypeOK
    <3>. QED  BY <3>1, <3>2
  <2>. QED  BY <1>6, <2>2, <2>3, <2>5
<1>5. CASE Head(queue[c]) # "active"
  <2>1. UNCHANGED <<states_, launched_, starts>>
    BY <1>5 DEF Handle, Callback
  <2>2. TypeOK' /\ TableDecides' /\ StartsIsFlag'
    BY <1>3, <2>1 DEF Handle, TypeOK, TableDecides, StartsIsFlag
  <2>3. \A d \in Targets : Heard(d)' => Heard(d)
    <3>. SUFFICES ASSUME NEW d \in Targets, Heard(d)'
                  PROVE  Heard(d)
      OBVIOUS
    <3>1. CASE d = c
      <4>1. queue'[d] = Tail(queue[c])
        BY <3>1 DEF Handle, TypeOK
      <4>. QED  BY <1>2, <2>1, <3>1, <4>1 DEF Heard
    <3>2. CASE d # c
      <4>1. queue'[d] = queue[d]
        BY <3>2 DEF Handle, TypeOK
      <4>. QED  BY <2>1, <4>1 DEF Heard
    <3>. QED  BY <3>1, <3>2
  <2>4. HeardIsTrue'
    BY <2>3 DEF HeardIsTrue, Handle
  <2>. QED  BY <1>6, <2>2, <2>4
<1>. QED  BY <1>4, <1>5

-----------------------------------------------------------------------------
LEMMA InitInv == Init => IInv
<1>. SUFFICES ASSUME Init PROVE IInv
  OBVIOUS
<1>1. TypeOK
  <2>1. <<>> \in Seq(Labels)
    OBVIOUS
  <2>2. queue \in [Targets -> Seq(Labels)]
    BY <2>1 DEF Init
  <2>3. lifecycle \in [Targets -> LifecycleStates]
    BY DEF Init, LifecycleStates
  <2>. QED  BY <2>2, <2>3 DEF Init, TypeOK
<1>2. HeardIsTrue
  BY DEF Init, HeardIsTrue, Heard
<1>3. TableDecides
  BY TargetsAssumption DEF Init, TableDecides
<1>4. QueueBounded
  <2>1. Len(<<>>) <= Depth
    BY DepthAssumption
  <2>. QED  BY <2>1 DEF Init, QueueBounded
<1>. QED  BY <1>1, <1>2, <1>3, <1>4 DEF Init, IInv, StartsIsFlag

LEMMA NextInv == IInv /\ [Next]_vars => IInv'
<1>. SUFFICES ASSUME IInv, [Next]_vars PROVE IInv'
  OBVIOUS
<1>. USE DEF IInv
<1>1. CASE UNCHANGED vars
  BY <1>1 DEF vars, TypeOK, QueueBounded, HeardIsTrue, Heard, TableDecides,
     StartsIsFlag
<1>2. ASSUME NEW c \in Targets, Load(c) PROVE IInv'
  BY <1>2 DEF Load, TypeOK, QueueBounded, HeardIsTrue, Heard, TableDecides,
     StartsIsFlag,
              LifecycleStates
<1>3. ASSUME NEW c \in Targets, Match(c) PROVE IInv'
  BY <1>3 DEF Match, TypeOK, QueueBounded, HeardIsTrue, Heard, TableDecides,
     StartsIsFlag
<1>4. ASSUME NEW c \in Targets, Advance(c) PROVE IInv'
  <2>1. PICK to : <<lifecycle[c], to>> \in Regular /\ Transition(c, to)
    BY <1>4 DEF Advance
  <2>2. to \in Labels
    BY <2>1, LabelsOfTransitions
  <2>. QED  BY <1>4, <2>1, <2>2, TransitionPreserves DEF Advance, TypeOK
<1>5. ASSUME NEW c \in Targets, Fault(c) PROVE IInv'
  <2>1. PICK to : <<lifecycle[c], to>> \in Faulty /\ Transition(c, to)
    BY <1>5 DEF Fault
  <2>2. to \in Labels
    BY <2>1, LabelsOfTransitions
  <2>. QED  BY <1>5, <2>1, <2>2, TransitionPreserves DEF Fault, TypeOK
<1>6. ASSUME NEW c \in Targets, Handle(c) PROVE IInv'
  BY <1>6, HandlePreserves
<1>. QED  BY <1>1, <1>2, <1>3, <1>4, <1>5, <1>6 DEF Next

\* The strengthened invariant holds in every reachable state.
THEOREM Invariance == Spec => []IInv
BY InitInv, NextInv, PTL DEF Spec

\* The monitor's state and what it observes have their types: in particular
\* the table only ever holds "unknown" and "active".
THEOREM TypeCorrect == Spec => []TypeOK
<1>1. IInv => TypeOK
  BY DEF IInv
<1>. QED  BY <1>1, Invariance, PTL

\* The launch is started at most once, and never before every target has been
\* active, for any number of targets and any depth.
THEOREM GateIsSound == Spec => []GateSound
<1>1. IInv => GateSound
  <2>. SUFFICES ASSUME IInv PROVE GateSound
    OBVIOUS
  <2>1. CASE launched_
    <3>1. ever = Targets
      BY <2>1 DEF IInv, TypeOK, HeardIsTrue, Heard, TableDecides
    <3>2. starts = 1
      BY <2>1 DEF IInv, StartsIsFlag
    <3>. QED  BY <3>1, <3>2 DEF GateSound
  <2>2. CASE ~launched_
    <3>1. starts = 0
      BY <2>2 DEF IInv, StartsIsFlag
    <3>. QED  BY <3>1 DEF GateSound
  <2>. QED  BY <2>1, <2>2
<1>. QED  BY <1>1, Invariance, PTL

\* The launch has been started exactly when the table is complete.
THEOREM TableIsDecisive == Spec => []TableDecides
<1>1. IInv => TableDecides
  BY DEF IInv
<1>. QED  BY <1>1, Invariance, PTL

\* A published event keeps what was heard of its target, unless it drops it
\* from a full history.
LEMMA TransitionKeepsHeard ==
  ASSUME IInv, NEW c \in Targets, NEW to \in Labels, Transition(c, to),
         NEW d \in Targets, Heard(d)
  PROVE  Heard(d)' \/ Len(queue[d]) = Depth
<1>1. queue \in [Targets -> Seq(Labels)] /\ states_' = states_
  BY DEF IInv, TypeOK, Transition
<1>2. CASE queue'[d] = queue[d]
  BY <1>1, <1>2 DEF Heard
<1>3. CASE queue'[d] # queue[d]
  <2>1. queue'[d] = Enqueue(queue[d], to)
    BY <1>1, <1>3 DEF Transition
  <2>2. CASE Len(queue[d]) < Depth
    <3>1. queue'[d] = Append(queue[d], to)
      BY <2>1, <2>2 DEF Enqueue
    <3>2. \A i \in DOMAIN queue[d] : i \in DOMAIN queue'[d] /\ queue'[d][i] = queue[d][i]
      BY <1>1, <3>1
    <3>. QED  BY <1>1, <3>2 DEF Heard
  <2>3. CASE ~(Len(queue[d]) < Depth)
    <3>1. Len(queue[d]) \in Nat /\ Len(queue[d]) <= Depth
      BY <1>1 DEF IInv, QueueBounded
    <3>. QED  BY <2>3, <3>1, DepthAssumption
  <2>. QED  BY <2>2, <2>3
<1>. QED  BY <1>2, <1>3

\* Reading an event keeps what was heard: an activation goes into the table.
LEMMA HandleKeepsHeard ==
  ASSUME IInv, NEW c \in Targets, Handle(c), NEW d \in Targets, Heard(d)
  PROVE  Heard(d)'
<1>1. /\ queue \in [Targets -> Seq(Labels)]
      /\ states_ \in [Targets -> {"unknown", "active"}]
      /\ queue[c] \in Seq(Labels) /\ queue[c] # <<>>
  BY DEF IInv, TypeOK, Handle
<1>2. states_' = states_ \/ states_' = [states_ EXCEPT ![c] = "active"]
  BY DEF Handle, Callback
<1>3. CASE states_[d] = "active"
  BY <1>1, <1>2, <1>3 DEF Heard
<1>4. CASE d # c
  <2>1. queue'[d] = queue[d]
    BY <1>1, <1>4 DEF Handle
  <2>. QED  BY <1>1, <1>2, <1>4, <2>1 DEF Heard
<1>5. CASE d = c /\ states_[d] # "active"
  <2>1. PICK i \in DOMAIN queue[c] : queue[c][i] = "active"
    BY <1>5 DEF Heard
  <2>2. CASE i = 1
    <3>1. Head(queue[c]) = "active"
      BY <1>1, <2>1, <2>2
    <3>. QED  BY <1>1, <1>5, <3>1 DEF Handle, Callback, Heard
  <2>3. CASE i # 1
    <3>1. queue'[c] = Tail(queue[c])
      BY <1>1 DEF Handle
    <3>2. i - 1 \in DOMAIN Tail(queue[c]) /\ Tail(queue[c])[i - 1] = "active"
      BY <1>1, <2>1, <2>3
    <3>. QED  BY <1>5, <3>1, <3>2 DEF Heard
  <2>. QED  BY <2>2, <2>3
<1>. QED  BY <1>3, <1>4, <1>5

\* What the monitor has heard is only lost to a full history, for every depth:
\* the safety half of LaunchesWhenHeard.
THEOREM OnlyOverflowForgets == Spec => HeardUntilOverwritten
<1>1. IInv /\ [Next]_vars =>
        [\A c \in Targets : Heard(c) => Heard(c)' \/ Len(queue[c]) = Depth]_vars
  <2>. SUFFICES ASSUME IInv, Next, NEW d \in Targets, Heard(d)
                PROVE  Heard(d)' \/ Len(queue[d]) = Depth
    OBVIOUS
  <2>1. PICK c \in Targets : Load(c) \/ Match(c) \/ Advance(c) \/ Fault(c) \/ Handle(c)
    BY DEF Next
  <2>2. CASE Load(c) \/ Match(c)
    BY <2>2 DEF Load, Match, Heard
  <2>3. CASE Advance(c) \/ Fault(c)
    <3>1. PICK to : <<lifecycle[c], to>> \in Regular \union Faulty /\ Transition(c, to)
      BY <2>3 DEF Advance, Fault
    <3>2. to \in Labels
      BY <3>1, LabelsOfTransitions
    <3>. QED  BY <3>1, <3>2, TransitionKeepsHeard
  <2>4. CASE Handle(c)
    BY <2>4, HandleKeepsHeard
  <2>. QED  BY <2>1, <2>2, <2>3, <2>4
<1>. QED  BY <1>1, Invariance, PTL DEF Spec, HeardUntilOverwritten

-----------------------------------------------------------------------------
\* Every step of a monitor is a step of the abstract latch, or leaves it alone.
LEMMA StepRefines ==
  ASSUME IInv, IInv', [Next]_vars
  PROVE  [Latch!Next]_(Latch!vars)
<1>. USE DEF Latch!vars, Latch!Next
<1>1. CASE UNCHANGED <<ever, starts>>
  BY <1>1
<1>2. ASSUME NEW c \in Targets, NEW to, Transition(c, to),
             ~UNCHANGED <<ever, starts>>
      PROVE  Latch!Next
  <2>1. Latch!BecomeActive(c)
    BY <1>2 DEF Transition, Latch!BecomeActive
  <2>. QED  BY <2>1
<1>3. ASSUME NEW c \in Targets, Handle(c), ~UNCHANGED <<ever, starts>>
      PROVE  Latch!Next
  <2>1. UNCHANGED ever /\ starts' # starts
    BY <1>3 DEF Handle
  <2>2. starts' = starts + 1 /\ ~launched_ /\ launched_'
    BY <1>3, <2>1 DEF Handle, Callback, check_all_active
  <2>3. starts = 0
    BY <2>2 DEF IInv, StartsIsFlag
  <2>4. ever = Targets
    BY <2>1, <2>2 DEF IInv, TypeOK, TableDecides, HeardIsTrue, Heard
  <2>5. Latch!Start
    BY <2>1, <2>2, <2>3, <2>4 DEF Latch!Start
  <2>. QED  BY <2>5
<1>. QED
  BY <1>1, <1>2, <1>3 DEF Next, vars, Load, Match, Advance, Fault

\* LifecycleGate implements LaunchLatch: seen from outside, a monitor is a
\* latch that opens once, after every target has been active.
THEOREM Refinement == Spec => LatchSpec
<1>1. Init => Latch!Init
  BY DEF Init, Latch!Init
<1>2. IInv /\ IInv' /\ [Next]_vars => [Latch!Next]_(Latch!vars)
  BY StepRefines
<1>. QED  BY <1>1, <1>2, Invariance, PTL DEF Spec, LatchSpec, Latch!Spec
=============================================================================
