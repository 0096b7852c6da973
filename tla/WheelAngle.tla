----------------------------- MODULE WheelAngle -----------------------------
(***************************************************************************)
(* The wheel part of NoidLifterMover::Stroke2Angle and calcWheelAngDeg     *)
(* (stroke_converter.cpp): the angle of an endlessly turning wheel from an *)
(* encoder whose reading, in degrees, wraps from MaxAng to -MaxAng.        *)
(*                                                                         *)
(* The code keeps the last two readings of each wheel and an offset that   *)
(* is corrected at each wrap.  The history variable pos is the angle the   *)
(* wheel has really turned; the reported angle has to follow it, modulo    *)
(* one turn, for ever.                                                     *)
(***************************************************************************)
EXTENDS Integers

CONSTANTS
  Wheels,     \* the indices 0..3 of the code
  MaxAng,     \* max_ang and -min_ang: 13602
  Threshold,  \* a reading beyond it is near the wrap: 13000
  FirstRaw,   \* readings the encoders can have at the first call
  Steps,      \* how far a wheel can turn between two calls
  Positions   \* bound: the angles pos may reach

ASSUME AnglesAssumption ==
  MaxAng \in Nat /\ Threshold \in Nat /\ Threshold < MaxAng
ASSUME FirstRawAssumption == FirstRaw \subseteq -MaxAng..MaxAng
ASSUME PositionsAssumption == Positions \subseteq Int
\* What the code relies on: between two calls no wheel turns as far as the
\* distance from the threshold to the wrap (602 degrees, with the code's
\* values), nor further than from one threshold to the other.
ASSUME StepsAssumption ==
  Steps \subseteq { s \in Int : /\ -(MaxAng - Threshold) < s
                                /\ s < MaxAng - Threshold
                                /\ -2 * Threshold <= s
                                /\ s <= 2 * Threshold }

VARIABLES
  called,      \* has Stroke2Angle been called
  zero_ofst,
  prev_wheel,
  cur_wheel,
  angle,       \* the degrees calcWheelAngDeg returned last
  pos          \* history: the true angle of each wheel

vars == <<called, zero_ofst, prev_wheel, cur_wheel, angle, pos>>

-----------------------------------------------------------------------------
\* The remainder of C++, which has the sign of the dividend.
Rem360(a) == IF a >= 0 THEN a % 360 ELSE -((-a) % 360)

max_ang_mod == Rem360(MaxAng)
min_ang_mod == Rem360(-MaxAng)

\* Mutant: only the new reading is compared.
CorrectedOffset_OneSided(prev, cur, zero) ==
  IF cur < -Threshold
    THEN Rem360(zero + max_ang_mod - min_ang_mod)
    ELSE IF prev < -Threshold /\ cur > Threshold
           THEN Rem360(zero + min_ang_mod - max_ang_mod)
           ELSE zero

\* Mutant: the offset is not reduced, and grows with every wrap.
CorrectedOffset_Unreduced(prev, cur, zero) ==
  IF cur < -Threshold /\ prev > Threshold
    THEN zero + max_ang_mod - min_ang_mod
    ELSE IF prev < -Threshold /\ cur > Threshold
           THEN zero + min_ang_mod - max_ang_mod
           ELSE zero

\* The offset after a reading: a jump from one end of the range to the other
\* is a wrap, forward or backward.
CorrectedOffset(prev, cur, zero) ==
  IF cur < -Threshold /\ prev > Threshold
    THEN Rem360(zero + max_ang_mod - min_ang_mod)
    ELSE IF prev < -Threshold /\ cur > Threshold
           THEN Rem360(zero + min_ang_mod - max_ang_mod)
           ELSE zero

ReportedAngle(cur, zero) ==
  LET cur_ang == Rem360(cur + zero)
  IN  (IF cur_ang < 0 THEN cur_ang + 360 ELSE cur_ang) - 180

\* Stroke2Angle calls calcWheelAngDeg once for each wheel.
calcWheelAngDeg(raw_ang) ==
  /\ prev_wheel' = cur_wheel
  /\ cur_wheel' = raw_ang
  /\ zero_ofst' = [w \in Wheels |->
                     CorrectedOffset(cur_wheel[w], raw_ang[w], zero_ofst[w])]
  /\ angle' = [w \in Wheels |-> ReportedAngle(raw_ang[w], zero_ofst'[w])]

-----------------------------------------------------------------------------
\* External: what the encoder can read after turning s from reading r.  The
\* two ends of its range are the same place, and either may be read there.
NextRaw(r, s) ==
  { x \in {r + s, r + s - 2 * MaxAng, r + s + 2 * MaxAng} :
      x \in -MaxAng..MaxAng }

\* In the constructor everything is 0, whatever the wheels stand at.
Init ==
  /\ called = FALSE
  /\ zero_ofst = [w \in Wheels |-> 0]
  /\ prev_wheel = [w \in Wheels |-> 0]
  /\ cur_wheel = [w \in Wheels |-> 0]
  /\ angle = [w \in Wheels |-> 0]
  /\ pos = [w \in Wheels |-> 0]

\* The first call: the reading defines the position.
FirstCall ==
  /\ ~called
  /\ called' = TRUE
  /\ \E raw \in [Wheels -> FirstRaw] :
        calcWheelAngDeg(raw) /\ pos' = raw

\* A later call: each wheel has turned by one of the steps.
LaterCall ==
  /\ called
  /\ UNCHANGED called
  /\ \E step \in [Wheels -> Steps] :
        /\ pos' = [w \in Wheels |-> pos[w] + step[w]]
        /\ \A w \in Wheels : pos'[w] \in Positions
        /\ \E raw \in [Wheels -> UNION {NextRaw(cur_wheel[w], step[w]) : w \in Wheels}] :
              /\ \A w \in Wheels : raw[w] \in NextRaw(cur_wheel[w], step[w])
              /\ calcWheelAngDeg(raw)

Next == FirstCall \/ LaterCall

Spec == Init /\ [][Next]_vars

-----------------------------------------------------------------------------
(* Properties.                                                             *)

\* Types, with the width of each value: the offset stays within one turn, so
\* int16_t holds it and its sum with a reading however long the robot runs.
TypeOK ==
  /\ called \in BOOLEAN
  /\ zero_ofst \in [Wheels -> -359..359]
  /\ prev_wheel \in [Wheels -> -MaxAng..MaxAng]
  /\ cur_wheel \in [Wheels -> -MaxAng..MaxAng]
  /\ angle \in [Wheels -> -180..179]
  /\ pos \in [Wheels -> Int]

\* The reported angle follows the wheel: it is the true angle, modulo one
\* turn, shifted by the 180 degrees the code subtracts (:113-115).  It fails
\* for good after one wrap that is missed, seen twice or corrected wrongly.
AngleTracks ==
  called => \A w \in Wheels : (angle[w] + 180) % 360 = pos[w] % 360
=============================================================================
