--------------------------- MODULE StrokeConverter ---------------------------
(***************************************************************************)
(* The joint part of NoidLifterMover (stroke_converter.cpp): joint angles  *)
(* to actuator strokes and back, and velocities.  RobotHardware, which     *)
(* calls it once in each control cycle, the interpolation of the tables    *)
(* and the actuators are external.  The wheels are WheelAngle.             *)
(*                                                                         *)
(* Units: a stroke is in 1/100 (the int16_t of the code), a table entry in *)
(* 1/1000 as in the csv files; the angle of a joint that has a table is in *)
(* degrees, that of the others in 1/100000 degree; speeds are in 1/10 of a *)
(* degree per second.                                                      *)
(***************************************************************************)
EXTENDS Integers, SequencesExt

CONSTANTS
  NaN,           \* a command interface nobody has written
  Names,         \* the joints in the order of driver_settings.yaml
  Tables,        \* the csv tables: name -> (degrees -> 1/1000)
  DirectAngles,  \* angles commanded to the joints without a table
  Speeds,        \* speeds commanded to the wheels
  Groups         \* sets of joints whose controllers are active together

\* 0x7FFF, "no command", is the largest int16_t.
NoStroke == 32767
Int16Min == -32768
Int16 == Int16Min..NoStroke

Distance(a, b) == IF a >= b THEN a - b ELSE b - a

-----------------------------------------------------------------------------
(* Angle2Stroke, line by line.                                             *)

\* calcStroke1: scale (times 100) and offset of a joint without a table.
Direct ==
  [waist_y      |-> <<100, 0>>,  neck_y       |-> <<100, 0>>,
   l_shoulder_y |-> <<-100, 0>>, r_shoulder_y |-> <<-100, 0>>,
   l_wrist_y    |-> <<-100, 0>>, r_wrist_y    |-> <<-100, 0>>,
   l_thumb      |-> <<18, 50>>,  r_thumb      |-> <<-18, -50>>]

\* calcStroke2: direction, offset and table.
Single ==
  [l_shoulder_p |-> <<-1, 0, "shoulder_p">>, r_shoulder_p |-> <<-1, 0, "shoulder_p">>,
   l_shoulder_r |-> <<1, 0, "shoulder_r">>,  r_shoulder_r |-> <<-1, 0, "shoulder_r">>,
   l_elbow      |-> <<1, 90, "elbow_p">>,    r_elbow      |-> <<1, 90, "elbow_p">>,
   knee         |-> <<-1, 0, "leg">>,        ankle        |-> <<1, 0, "leg">>]

\* calcStroke3: two joints moved by two actuators together.
Dual ==
  [waist   |-> [in |-> <<"waist_p", "waist_r">>, dir |-> <<1, -1>>, pitch |-> FALSE,
                table |-> <<"waist_p", "waist_r">>, out |-> <<"waist_p", "waist_r">>],
   l_wrist |-> [in |-> <<"l_wrist_p", "l_wrist_r">>, dir |-> <<1, -1>>, pitch |-> TRUE,
                table |-> <<"wrist_p", "wrist_r">>, out |-> <<"l_wrist_p", "l_wrist_r">>],
   neck    |-> [in |-> <<"neck_p", "neck_r">>, dir |-> <<1, -1>>, pitch |-> FALSE,
                table |-> <<"neck_p", "neck_r">>, out |-> <<"neck_r", "neck_p">>],
   r_wrist |-> [in |-> <<"r_wrist_p", "r_wrist_r">>, dir |-> <<-1, 1>>, pitch |-> TRUE,
                table |-> <<"wrist_p", "wrist_r">>, out |-> <<"r_wrist_p", "r_wrist_r">>]]

Wheels == {"wheel_front_left", "wheel_front_right", "wheel_rear_left", "wheel_rear_right"}
DualJoints == UNION { Range(Dual[q].in) : q \in DOMAIN Dual }
Joints == DOMAIN Direct \union DOMAIN Single \union DualJoints
Places == 0..(Len(Names) - 1)

\* driver_settings.yaml names every joint the code looks up, once.
ASSUME NamesAssumption ==
  /\ Names \in Seq(STRING)
  /\ Joints \union Wheels \subseteq Range(Names) /\ IsInjective(Names)
ASSUME NaNAssumption == NaN \notin Int
\* Half a turn is beyond the limits of every joint without a table.
ASSUME DirectAnglesAssumption ==
  \A a \in DirectAngles : a \in Int /\ Distance(a, 0) <= 18000000
\* What int16_t can hold in degrees per second, without its largest value.
ASSUME SpeedsAssumption == \A v \in Speeds : v \in Int /\ Distance(v, 0) <= 327669
ASSUME GroupsAssumption == Groups \subseteq SUBSET Joints

VARIABLES
  index,         \* the idx_ members
  group,         \* the joints that can be commanded (external)
  written,       \* the angles of the last Angle2Stroke
  strokes,       \* what it made of them
  actuator,      \* where the actuators stand (external)
  joint_vel,     \* the velocities of the last calcActuatorVel
  actuator_vel   \* what it made of them

vars == <<index, group, written, strokes, actuator, joint_vel, actuator_vel>>

-----------------------------------------------------------------------------
\* Mutant: one line of the 28 looks up the wrong name.
setJointNames_CopyPaste(names) ==
  LET name(j) == IF j = "l_wrist_p" THEN "l_wrist_r" ELSE j
      at(j) == { i \in 0..(Len(names) - 1) : names[i + 1] = name(j) }
  IN  [j \in Joints \union Wheels |->
         IF at(j) = {} THEN 0 ELSE CHOOSE i \in at(j) : \A k \in at(j) : i <= k]

\* The place of each joint in the vectors of the hardware: emplace() keeps the
\* first of equal names, operator[] makes 0 of a name that is not there.
setJointNames(names) ==
  LET at(j) == { i \in 0..(Len(names) - 1) : names[i + 1] = j }
  IN  [j \in Joints \union Wheels |->
         IF at(j) = {} THEN 0 ELSE CHOOSE i \in at(j) : \A k \in at(j) : i <= k]

\* static_cast<int16_t> of a quotient: towards zero.
Trunc(a, d) == IF a >= 0 THEN a \div d ELSE -((-a) \div d)

\* Mutant: the quotient is rounded down.
calcStroke1_Floor(angle, p) ==
  IF angle = NaN THEN NoStroke ELSE (p[1] * (angle + 100000 * p[2])) \div 100000

calcStroke1(angle, p) ==
  IF angle = NaN THEN NoStroke ELSE Trunc(p[1] * (angle + 100000 * p[2]), 100000)

calcStroke2(angle, p) ==
  IF angle = NaN THEN NoStroke ELSE Trunc(Tables[p[3]][p[2] + p[1] * angle], 10)

\* External: the strokes of two actuators that pull together for one joint and
\* against each other for the other (what Stroke2Angle takes apart again).
setDualAngleToStroke(roll, pitch, is_pitch) ==
  <<pitch + roll, IF is_pitch THEN roll - pitch ELSE pitch - roll>>

\* Mutant: only a pair that is not commanded at all is left alone.
calcStroke3_BothNaN(p, r, q) ==
  LET at(a, k) == IF a = NaN THEN 0 ELSE Tables[q.table[k]][q.dir[k] * a]
      value    == setDualAngleToStroke(at(r, 2), at(p, 1), q.pitch)
  IN  IF p = NaN /\ r = NaN
        THEN <<NoStroke, NoStroke>>
        ELSE <<Trunc(value[1], 10), Trunc(value[2], 10)>>

\* Mutant: is_pitch is not passed on.
calcStroke3_NotPitch(p, r, q) ==
  IF p = NaN \/ r = NaN
    THEN <<NoStroke, NoStroke>>
    ELSE LET value == setDualAngleToStroke(Tables[q.table[2]][q.dir[2] * r],
                                           Tables[q.table[1]][q.dir[1] * p], FALSE)
         IN  <<Trunc(value[1], 10), Trunc(value[2], 10)>>

calcStroke3(p, r, q) ==
  IF p = NaN \/ r = NaN
    THEN <<NoStroke, NoStroke>>
    ELSE LET value == setDualAngleToStroke(Tables[q.table[2]][q.dir[2] * r],
                                           Tables[q.table[1]][q.dir[1] * p], q.pitch)
         IN  <<Trunc(value[1], 10), Trunc(value[2], 10)>>

\* Every place is set to "no command" first: the wheels keep it.
Angle2Stroke(angles) ==
  LET at(j) == angles[index[j]]
      stroke(j) ==
        CASE j \in DOMAIN Direct -> calcStroke1(at(j), Direct[j])
          [] j \in DOMAIN Single -> calcStroke2(at(j), Single[j])
          [] j \in DualJoints ->
               LET q == Dual[CHOOSE d \in DOMAIN Dual : j \in Range(Dual[d].out)]
               IN  calcStroke3(at(q.in[1]), at(q.in[2]), q)[IF j = q.out[1] THEN 1 ELSE 2]
  IN  [i \in Places |->
         IF \E j \in Joints : index[j] = i
           THEN stroke(CHOOSE j \in Joints : index[j] = i)
           ELSE NoStroke]

-----------------------------------------------------------------------------
(* Stroke2Angle, line by line.                                             *)

\* Gain and offset of a joint without a table.
DirectBack ==
  [waist_y      |-> <<1000, 0>>,        neck_y       |-> <<1000, 0>>,
   l_shoulder_y |-> <<-1000, 0>>,       r_shoulder_y |-> <<-1000, 0>>,
   l_wrist_y    |-> <<-1000, 0>>,       r_wrist_y    |-> <<-1000, 0>>,
   l_thumb      |-> <<5556, -5000000>>, r_thumb      |-> <<-5556, 5000000>>]

\* Sign and offset of a joint with a table of its own.
SingleBack ==
  [l_shoulder_p |-> <<-1, 0>>,  r_shoulder_p |-> <<-1, 0>>,
   l_shoulder_r |-> <<1, 0>>,   r_shoulder_r |-> <<-1, 0>>,
   l_elbow      |-> <<1, -90>>, r_elbow      |-> <<1, -90>>,
   knee         |-> <<-1, 0>>,  ankle        |-> <<1, 0>>]

\* Half the sum (1) or the difference (-1) of the two strokes, and the sign.
DualBack ==
  [waist_p   |-> <<1, 1, "waist">>,     waist_r   |-> <<-1, 1, "waist">>,
   l_wrist_p |-> <<-1, -1, "l_wrist">>, l_wrist_r |-> <<1, -1, "l_wrist">>,
   neck_p    |-> <<1, 1, "neck">>,      neck_r    |-> <<-1, -1, "neck">>,
   r_wrist_p |-> <<-1, 1, "r_wrist">>,  r_wrist_r |-> <<1, 1, "r_wrist">>]

\* Joints read through the table with both its signs changed: they are exact
\* only for a table that is symmetric about 0.
Mirrored == {"waist_r", "l_wrist_p", "r_wrist_p"}

\* What the csv files say: no two entries of a table are closer than the
\* strokes of the code can tell apart, and a sum of two fits int16_t.
ASSUME TablesAssumption ==
  \A n \in { Single[j][3] : j \in DOMAIN Single }
         \union UNION { Range(Dual[q].table) : q \in DOMAIN Dual } :
    LET t == Tables[n]
    IN  /\ DOMAIN t \subseteq Int /\ DOMAIN t # {}
        /\ \A x \in DOMAIN t : t[x] \in Int /\ Distance(t[x], 0) <= 163830
        /\ \A x, y \in DOMAIN t : x # y => Distance(t[x], t[y]) >= 19
\* waist_r.csv and wrist_p.csv go as far to each side of 0 and are nearly
\* symmetric: the entry closest to that of x, with its sign changed, is at -x
\* or next to it.
ASSUME MirrorAssumption ==
  \A n \in {"waist_r", "wrist_p"} :
    LET t == Tables[n]
    IN  \A x \in DOMAIN t :
          /\ -x \in DOMAIN t
          /\ \A y \in DOMAIN t :
               Distance(y, -x) > 1 =>
                 Distance(t[y], -t[x]) > Distance(t[-x], -t[x]) + 18

\* External: the inverse table; exact at its points, and the nearest of them
\* stands for the value between two points.
setStrokeToAngle(s, t) ==
  CHOOSE x \in DOMAIN t : \A y \in DOMAIN t : Distance(t[x], s) <= Distance(t[y], s)

\* deg2Rad and scale_inv are floats: the angle of a stroke that is not 0 comes
\* out right, a little too small or a little too large (error).
Stroke2Angle(s, error) ==
  LET at(j) == s[index[j]]
      angle(j) ==
        CASE j \in DOMAIN DirectBack ->
               DirectBack[j][1] * at(j) + DirectBack[j][2]
                 + (IF DirectBack[j][2] = 0 /\ at(j) # 0 THEN error ELSE 0)
          [] j \in DOMAIN SingleBack ->
               SingleBack[j][1] * setStrokeToAngle(10 * at(j), Tables[Single[j][3]])
                 + SingleBack[j][2]
          [] j \in DOMAIN DualBack ->
               LET back == DualBack[j]
                   q    == Dual[back[3]]
                   half == 5 * (at(q.in[2]) + back[1] * at(q.in[1]))
               IN  back[2] * setStrokeToAngle(half, Tables[q.table[IF j = q.in[1] THEN 1 ELSE 2]])
  IN  [i \in Places |->
         IF \E j \in Joints : index[j] = i
           THEN angle(CHOOSE j \in Joints : index[j] = i)
           ELSE NaN]

RoundingErrors == {-1, 0, 1}

-----------------------------------------------------------------------------
(* Velocities.                                                             *)

\* Mutant: a speed that is not commanded becomes 0.
calcActuatorVel_NaNStops(v) ==
  [i \in Places |-> IF v[i] = NaN THEN 0 ELSE Trunc(v[i], 10)]

calcActuatorVel(v) ==
  [i \in Places |-> IF v[i] = NaN THEN NoStroke ELSE Trunc(v[i], 10)]

calcJointVel(v) ==
  [i \in Places |-> IF v[i] = NoStroke THEN NaN ELSE 10 * v[i]]

-----------------------------------------------------------------------------
Nothing == [i \in Places |-> NaN]

Init ==
  /\ index = setJointNames(Names)
  /\ group \in Groups
  /\ written = Nothing
  /\ strokes = [i \in Places |-> NoStroke]
  /\ actuator = [i \in Places |-> 0]
  /\ joint_vel = Nothing
  /\ actuator_vel = [i \in Places |-> NoStroke]

\* The angles a controller can command: those of the table of the joint.
Commandable(j) ==
  CASE j \in DOMAIN Direct -> DirectAngles
    [] j \in DOMAIN Single ->
         { Single[j][1] * (x - Single[j][2]) : x \in DOMAIN Tables[Single[j][3]] }
    [] j \in DualJoints ->
         LET q == Dual[DualBack[j][3]]
             k == IF j = q.in[1] THEN 1 ELSE 2
         IN  { q.dir[k] * x : x \in DOMAIN Tables[q.table[k]] }

Write(angles) ==
  /\ written' = angles
  /\ strokes' = Angle2Stroke(angles)
  /\ UNCHANGED <<index, group, actuator, joint_vel, actuator_vel>>

\* A control cycle in which each controller of the group commands some angle,
\* or none (external: RobotHardware).
Command ==
  \E new \in [group -> UNION { Commandable(j) : j \in group } \union {NaN}] :
    /\ \A j \in group : new[j] \in Commandable(j) \union {NaN}
    /\ Write([i \in Places |->
                IF \E j \in group : index[j] = i
                  THEN new[CHOOSE j \in group : index[j] = i]
                  ELSE NaN])

\* A control cycle in which the controllers command the angles just read.
Hold ==
  \E error \in RoundingErrors :
    LET angles == Stroke2Angle(actuator, error)
    IN  Write([i \in Places |->
                 IF \E j \in group : index[j] = i THEN angles[i] ELSE NaN])

\* An actuator obeys its last stroke; 0x7FFF is no stroke (external).
Move(i) ==
  /\ strokes[i] # NoStroke /\ actuator[i] # strokes[i]
  /\ actuator' = [actuator EXCEPT ![i] = strokes[i]]
  /\ UNCHANGED <<index, group, written, strokes, joint_vel, actuator_vel>>

\* A wheel gets a speed, or none (external: RobotHardware).
Drive(w) ==
  /\ group = {}
  /\ \E v \in Speeds \union {NaN} : joint_vel' = [Nothing EXCEPT ![index[w]] = v]
  /\ actuator_vel' = calcActuatorVel(joint_vel')
  /\ UNCHANGED <<index, group, written, strokes, actuator>>

Next ==
  \/ Command
  \/ Hold
  \/ \E i \in Places : Move(i)
  \/ \E w \in Wheels : Drive(w)

Spec == Init /\ [][Next]_vars

-----------------------------------------------------------------------------
(* Properties.                                                             *)

\* Types; no two joints share a place in the vectors, and no stroke is one that
\* int16_t cannot hold.
TypeOK ==
  /\ index \in [Joints \union Wheels -> Places] /\ IsInjective(index)
  /\ group \subseteq Joints
  /\ \A i \in Places : written[i] \in Int \union {NaN}
  /\ strokes \in [Places -> Int16]
  /\ actuator \in [Places -> Int16 \ {NoStroke}]
  /\ \A i \in Places : joint_vel[i] \in Int \union {NaN}
  /\ actuator_vel \in [Places -> Int16]

\* The joints an actuator serves: its own, or both of its pair.
Served(j) ==
  IF j \in DualJoints THEN Range(Dual[DualBack[j][3]].in) ELSE {j}

\* The joints whose command has arrived at the actuators.
Arrived(j) ==
  \A k \in Served(j) : written[index[k]] # NaN /\ actuator[index[k]] = strokes[index[k]]

\* How far a reading may be from the command: below one stroke for a joint
\* without a table (5.556/100 degree for a thumb), nothing for a point of a
\* table, one point for a mirrored one.
Tolerance(j) ==
  CASE j \in {"l_thumb", "r_thumb"} -> 6000
    [] j \in DOMAIN Direct \ {"l_thumb", "r_thumb"} -> 1002
    [] j \in Mirrored -> 1
    [] OTHER -> 0

\* What is read back is what was commanded: the signs, offsets, tables and
\* pairs of Angle2Stroke (:65-94) and of Stroke2Angle (:118-148) undo each
\* other for each of the 24 joints.
ReadBack ==
  \A j \in group : Arrived(j) =>
    \A error \in RoundingErrors :
      Distance(Stroke2Angle(actuator, error)[index[j]], written[index[j]]) <= Tolerance(j)

\* Commanding what is read, over and over, never lets a joint without a table
\* run away: a stroke keeps its size or loses one unit towards 0, and a thumb,
\* whose 0 is not at stroke 0, stands still (5.556 * 0.18 is above 1).
HoldCreepsInward ==
  [][Hold => \A j \in group \intersect DOMAIN Direct :
       LET i == index[j]
       IN  IF j \in {"l_thumb", "r_thumb"}
             THEN strokes'[i] = actuator[i]
             ELSE Distance(strokes'[i], 0) \in
                    { Distance(actuator[i], 0) - 1, Distance(actuator[i], 0) }]_vars

\* An actuator moves only for joints that are commanded, and an actuator of a
\* pair only if both of its joints are: with one NaN, neither moves (:51-55).
MovesOnlyCommanded ==
  [][\A j \in Joints : actuator'[index[j]] # actuator[index[j]] =>
       \A k \in Served(j) : written[index[k]] # NaN]_vars

\* A wheel that is told to stand still is not a wheel that is told nothing, and
\* no conversion makes it faster or turns it round.
SpeedKept ==
  \A i \in Places :
    LET v    == joint_vel[i]
        back == calcJointVel(actuator_vel)[i]
    IN  /\ back = NaN <=> v = NaN
        /\ v # NaN => /\ Distance(back, 0) <= Distance(v, 0)
                      /\ Distance(back, v) < 10
=============================================================================
