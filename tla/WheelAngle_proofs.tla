-------------------------- MODULE WheelAngle_proofs --------------------------
(***************************************************************************)
(* The reported angle follows the wheel for every number of wheels, every  *)
(* encoder range, every threshold below it and every history of readings   *)
(* that obeys StepsAssumption.                                             *)
(***************************************************************************)
EXTENDS WheelAngle, TLAPS

\* The offset and the reading together are the true angle, up to whole turns.
\* AngleTracks alone is not inductive: it says nothing of what the next
\* reading is added to.
Congruent(a, b) == \E k \in Int : a = b + 360 * k
OffsetTracks ==
  called => \A w \in Wheels : Congruent(cur_wheel[w] + zero_ofst[w], pos[w])
Fresh == ~called => \A w \in Wheels : cur_wheel[w] = 0 /\ zero_ofst[w] = 0
IInv == TypeOK /\ Fresh /\ OffsetTracks /\ AngleTracks

-----------------------------------------------------------------------------
\* The C++ remainder differs from its argument by whole turns and is shorter
\* than one.
LEMMA Rem360Range ==
  ASSUME NEW a \in Int
  PROVE  /\ Rem360(a) \in -359..359
         /\ \E k \in Int : Rem360(a) = a + 360 * k
<1>1. CASE a >= 0
  <2>1. a % 360 \in 0..359 /\ a = 360 * (a \div 360) + (a % 360) /\ a \div 360 \in Int
    BY <1>1
  <2>2. Rem360(a) = a % 360
    BY <1>1 DEF Rem360
  <2>. DEFINE k == -(a \div 360)
  <2>3. k \in Int /\ Rem360(a) = a + 360 * k
    BY <2>1, <2>2
  <2>4. Rem360(a) \in -359..359
    BY <2>1, <2>2
  <2>. HIDE DEF k
  <2>. QED  BY <2>3, <2>4
<1>2. CASE a < 0
  <2>. DEFINE b == -a
  <2>1. b % 360 \in 0..359 /\ b = 360 * (b \div 360) + (b % 360) /\ b \div 360 \in Int
    BY <1>2
  <2>2. Rem360(a) = -(b % 360)
    BY <1>2 DEF Rem360
  <2>3. Rem360(a) = a + 360 * (b \div 360)
    BY <2>1, <2>2
  <2>. QED  BY <2>1, <2>2, <2>3
<1>. QED  BY <1>1, <1>2

\* The reported angle is the sum of reading and offset, less 180, up to turns.
LEMMA ReportedAngleTracks ==
  ASSUME NEW cur \in Int, NEW zero \in Int, NEW p \in Int,
         Congruent(cur + zero, p)
  PROVE  /\ ReportedAngle(cur, zero) \in -180..179
         /\ (ReportedAngle(cur, zero) + 180) % 360 = p % 360
<1>. DEFINE r == Rem360(cur + zero)
            l == IF r < 0 THEN r + 360 ELSE r
<1>1. r \in -359..359 /\ \E k \in Int : r = cur + zero + 360 * k
  <2>1. cur + zero \in Int
    OBVIOUS
  <2>. HIDE DEF r
  <2>2. \A a \in Int : Rem360(a) \in -359..359 /\ \E k \in Int : Rem360(a) = a + 360 * k
    BY Rem360Range
  <2>. QED  BY <2>1, <2>2 DEF r
<1>2. PICK k1 \in Int : r = cur + zero + 360 * k1
  BY <1>1
<1>3. PICK k2 \in Int : cur + zero = p + 360 * k2
  BY DEF Congruent
<1>4. l \in 0..359
  BY <1>1
<1>5. \E k \in Int : l = p + 360 * k
  <2>1. CASE r < 0
    <3>1. l = p + 360 * (k1 + k2 + 1) /\ k1 + k2 + 1 \in Int
      BY <1>1, <1>2, <1>3, <2>1
    <3>. QED  BY <3>1
  <2>2. CASE ~(r < 0)
    <3>1. l = p + 360 * (k1 + k2) /\ k1 + k2 \in Int
      BY <1>1, <1>2, <1>3, <2>2
    <3>. QED  BY <3>1
  <2>. QED  BY <2>1, <2>2
<1>6. PICK k \in Int : l = p + 360 * k
  BY <1>5
<1>7. l % 360 = p % 360
  <2>1. l % 360 = l
    BY <1>4
  <2>2. p % 360 = l
    BY <1>4, <1>6
  <2>. QED  BY <2>1, <2>2
<1>8. ReportedAngle(cur, zero) = l - 180
  BY DEF ReportedAngle
<1>. QED  BY <1>4, <1>7, <1>8

\* One reading: the offset is corrected exactly when the encoder has wrapped,
\* and by the right amount.
LEMMA OffsetFollows ==
  \A prev \in -MaxAng..MaxAng, s \in Steps, zero \in -359..359, p \in Int :
    \A cur \in NextRaw(prev, s) :
      Congruent(prev + zero, p) =>
        /\ CorrectedOffset(prev, cur, zero) \in -359..359
        /\ Congruent(cur + CorrectedOffset(prev, cur, zero), p + s)
<1>. SUFFICES ASSUME NEW prev \in -MaxAng..MaxAng, NEW s \in Steps,
                     NEW zero \in -359..359, NEW p \in Int,
                     NEW cur \in NextRaw(prev, s),
                     Congruent(prev + zero, p)
              PROVE  /\ CorrectedOffset(prev, cur, zero) \in -359..359
                     /\ Congruent(cur + CorrectedOffset(prev, cur, zero), p + s)
  OBVIOUS
<1>. USE AnglesAssumption
<1>1. /\ cur \in -MaxAng..MaxAng
      /\ cur = prev + s \/ cur = prev + s - 2 * MaxAng \/ cur = prev + s + 2 * MaxAng
  BY DEF NextRaw
<1>2. /\ s \in Int
      /\ -(MaxAng - Threshold) < s /\ s < MaxAng - Threshold
      /\ -2 * Threshold <= s /\ s <= 2 * Threshold
  BY StepsAssumption
<1>3. PICK k0 \in Int : prev + zero = p + 360 * k0
  BY DEF Congruent
<1>4. PICK a \in Int : max_ang_mod = MaxAng + 360 * a
  <2>1. MaxAng \in Int
    OBVIOUS
  <2>. QED  BY <2>1, Rem360Range DEF max_ang_mod
<1>5. PICK b \in Int : min_ang_mod = -MaxAng + 360 * b
  <2>1. -MaxAng \in Int
    OBVIOUS
  <2>. QED  BY <2>1, Rem360Range DEF min_ang_mod
<1>6. max_ang_mod \in Int /\ min_ang_mod \in Int
  BY <1>4, <1>5
<1>7. CASE cur = prev + s
  <2>1. CorrectedOffset(prev, cur, zero) = zero
    BY <1>1, <1>2, <1>7 DEF CorrectedOffset
  <2>2. cur + zero = p + s + 360 * k0
    BY <1>2, <1>3, <1>7
  <2>. QED  BY <1>1, <2>1, <2>2 DEF Congruent
<1>8. CASE cur = prev + s - 2 * MaxAng /\ cur # prev + s
  <2>1. cur < -Threshold /\ prev > Threshold
    BY <1>1, <1>2, <1>8
  <2>. DEFINE z == Rem360(zero + max_ang_mod - min_ang_mod)
  <2>2. CorrectedOffset(prev, cur, zero) = z
    BY <2>1 DEF CorrectedOffset
  <2>3. zero + max_ang_mod - min_ang_mod \in Int
    BY <1>6
  <2>4. z \in -359..359 /\ \E k \in Int : z = zero + max_ang_mod - min_ang_mod + 360 * k
    BY <2>3, Rem360Range
  <2>5. PICK k1 \in Int : z = zero + max_ang_mod - min_ang_mod + 360 * k1
    BY <2>4
  <2>6. cur + z = p + s + 360 * (k0 + a - b + k1) /\ k0 + a - b + k1 \in Int
    BY <1>2, <1>3, <1>4, <1>5, <1>8, <2>4, <2>5
  <2>. HIDE DEF z
  <2>7. Congruent(cur + z, p + s)
    BY <2>6 DEF Congruent
  <2>. QED  BY <1>1, <2>2, <2>4, <2>7
<1>9. CASE cur = prev + s + 2 * MaxAng /\ cur # prev + s
  <2>1. prev < -Threshold /\ cur > Threshold
    BY <1>1, <1>2, <1>9
  <2>. DEFINE z == Rem360(zero + min_ang_mod - max_ang_mod)
  <2>2. CorrectedOffset(prev, cur, zero) = z
    BY <2>1 DEF CorrectedOffset
  <2>3. zero + min_ang_mod - max_ang_mod \in Int
    BY <1>6
  <2>4. z \in -359..359 /\ \E k \in Int : z = zero + min_ang_mod - max_ang_mod + 360 * k
    BY <2>3, Rem360Range
  <2>5. PICK k1 \in Int : z = zero + min_ang_mod - max_ang_mod + 360 * k1
    BY <2>4
  <2>6. cur + z = p + s + 360 * (k0 + b - a + k1) /\ k0 + b - a + k1 \in Int
    BY <1>2, <1>3, <1>4, <1>5, <1>9, <2>4, <2>5
  <2>. HIDE DEF z
  <2>7. Congruent(cur + z, p + s)
    BY <2>6 DEF Congruent
  <2>. QED  BY <1>1, <2>2, <2>4, <2>7
<1>. QED  BY <1>1, <1>7, <1>8, <1>9

\* A first reading is never taken for a wrap: the reading before it is 0.
LEMMA FirstOffset ==
  ASSUME NEW cur \in -MaxAng..MaxAng
  PROVE  CorrectedOffset(0, cur, 0) = 0
BY AnglesAssumption DEF CorrectedOffset

-----------------------------------------------------------------------------
LEMMA InitInv == Init => IInv
<1>. SUFFICES ASSUME Init PROVE IInv
  OBVIOUS
<1>1. 0 \in -MaxAng..MaxAng
  BY AnglesAssumption
<1>2. 0 \in -359..359 /\ 0 \in -180..179 /\ 0 \in Int
  OBVIOUS
<1>3. TypeOK
  BY <1>1, <1>2 DEF Init, TypeOK
<1>. QED  BY <1>3 DEF Init, IInv, Fresh, OffsetTracks, AngleTracks

\* Any call of calcWheelAngDeg that keeps offset and reading congruent to the
\* position keeps the invariant.
LEMMA CallPreserves ==
  ASSUME TypeOK, called',
         NEW raw \in [Wheels -> -MaxAng..MaxAng], calcWheelAngDeg(raw),
         pos' \in [Wheels -> Int],
         \A w \in Wheels :
           LET zero == CorrectedOffset(cur_wheel[w], raw[w], zero_ofst[w])
           IN  zero \in -359..359 /\ Congruent(raw[w] + zero, pos'[w])
  PROVE  IInv'
<1>1. /\ cur_wheel' = raw /\ prev_wheel' = cur_wheel
      /\ zero_ofst' \in [Wheels -> -359..359]
      /\ \A w \in Wheels : Congruent(cur_wheel'[w] + zero_ofst'[w], pos'[w])
  BY DEF calcWheelAngDeg
<1>2. ASSUME NEW w \in Wheels
      PROVE  angle'[w] \in -180..179 /\ (angle'[w] + 180) % 360 = pos'[w] % 360
  <2>1. /\ cur_wheel'[w] \in Int /\ zero_ofst'[w] \in Int /\ pos'[w] \in Int
        /\ Congruent(cur_wheel'[w] + zero_ofst'[w], pos'[w])
    BY <1>1, AnglesAssumption
  <2>2. angle'[w] = ReportedAngle(cur_wheel'[w], zero_ofst'[w])
    BY DEF calcWheelAngDeg
  <2>. QED  BY <2>1, <2>2, ReportedAngleTracks
<1>3. angle' \in [Wheels -> -180..179]
  <2>1. angle' = [w \in Wheels |-> angle'[w]]
    BY DEF calcWheelAngDeg
  <2>. QED  BY <1>2, <2>1
<1>4. TypeOK'
  BY <1>1, <1>3 DEF TypeOK
<1>. QED  BY <1>1, <1>2, <1>4 DEF IInv, Fresh, OffsetTracks, AngleTracks

LEMMA FirstCallPreserves ==
  ASSUME IInv, FirstCall
  PROVE  IInv'
<1>1. PICK raw \in [Wheels -> FirstRaw] : calcWheelAngDeg(raw) /\ pos' = raw
  BY DEF FirstCall
<1>2. raw \in [Wheels -> -MaxAng..MaxAng] /\ raw \in [Wheels -> Int]
  <2>1. \A x \in FirstRaw : x \in -MaxAng..MaxAng /\ x \in Int
    BY FirstRawAssumption, AnglesAssumption
  <2>2. raw = [w \in Wheels |-> raw[w]] /\ \A w \in Wheels : raw[w] \in FirstRaw
    OBVIOUS
  <2>. QED  BY <2>1, <2>2
<1>3. ASSUME NEW w \in Wheels
      PROVE  LET zero == CorrectedOffset(cur_wheel[w], raw[w], zero_ofst[w])
             IN  zero \in -359..359 /\ Congruent(raw[w] + zero, pos'[w])
  <2>1. cur_wheel[w] = 0 /\ zero_ofst[w] = 0
    BY DEF IInv, Fresh, FirstCall
  <2>2. CorrectedOffset(cur_wheel[w], raw[w], zero_ofst[w]) = 0
    BY <1>2, <2>1, FirstOffset
  <2>3. raw[w] \in Int /\ raw[w] + 0 = pos'[w] + 360 * 0
    BY <1>1, <1>2
  <2>. QED  BY <2>2, <2>3 DEF Congruent
<1>. QED  BY <1>1, <1>2, <1>3, CallPreserves DEF IInv, FirstCall

LEMMA LaterCallPreserves ==
  ASSUME IInv, LaterCall
  PROVE  IInv'
<1>1. PICK step \in [Wheels -> Steps] :
        /\ pos' = [w \in Wheels |-> pos[w] + step[w]]
        /\ \A w \in Wheels : pos'[w] \in Positions
        /\ \E raw \in [Wheels -> UNION {NextRaw(cur_wheel[w], step[w]) : w \in Wheels}] :
              /\ \A w \in Wheels : raw[w] \in NextRaw(cur_wheel[w], step[w])
              /\ calcWheelAngDeg(raw)
  BY DEF LaterCall
<1>2. PICK raw \in [Wheels -> UNION {NextRaw(cur_wheel[w], step[w]) : w \in Wheels}] :
        /\ \A w \in Wheels : raw[w] \in NextRaw(cur_wheel[w], step[w])
        /\ calcWheelAngDeg(raw)
  BY <1>1
<1>3. raw \in [Wheels -> -MaxAng..MaxAng]
  <2>1. \A w \in Wheels : raw[w] \in -MaxAng..MaxAng
    BY <1>2 DEF NextRaw
  <2>2. raw = [w \in Wheels |-> raw[w]]
    BY <1>2
  <2>. QED  BY <2>1, <2>2
<1>4. pos' \in [Wheels -> Int]
  BY <1>1, PositionsAssumption
<1>5. ASSUME NEW w \in Wheels
      PROVE  LET zero == CorrectedOffset(cur_wheel[w], raw[w], zero_ofst[w])
             IN  zero \in -359..359 /\ Congruent(raw[w] + zero, pos'[w])
  <2>1. /\ cur_wheel[w] \in -MaxAng..MaxAng /\ zero_ofst[w] \in -359..359
        /\ pos[w] \in Int /\ step[w] \in Steps
        /\ Congruent(cur_wheel[w] + zero_ofst[w], pos[w])
    BY DEF IInv, TypeOK, OffsetTracks, LaterCall
  <2>2. raw[w] \in NextRaw(cur_wheel[w], step[w]) /\ pos'[w] = pos[w] + step[w]
    BY <1>1, <1>2
  <2>3. /\ CorrectedOffset(cur_wheel[w], raw[w], zero_ofst[w]) \in -359..359
        /\ Congruent(raw[w] + CorrectedOffset(cur_wheel[w], raw[w], zero_ofst[w]),
                     pos[w] + step[w])
    BY <2>1, <2>2, OffsetFollows, Zenon
  <2>. QED  BY <2>2, <2>3
<1>. QED  BY <1>2, <1>3, <1>4, <1>5, CallPreserves DEF IInv, LaterCall

LEMMA NextInv == IInv /\ [Next]_vars => IInv'
<1>1. IInv /\ UNCHANGED vars => IInv'
  BY DEF vars, IInv, TypeOK, Fresh, OffsetTracks, AngleTracks
<1>. QED  BY <1>1, FirstCallPreserves, LaterCallPreserves DEF Next

\* The strengthened invariant holds in every reachable state.
THEOREM Invariance == Spec => []IInv
BY InitInv, NextInv, PTL DEF Spec

\* Every value has its width: no int16_t of the class overflows, however long
\* the wheels turn.
THEOREM TypeCorrect == Spec => []TypeOK
<1>1. IInv => TypeOK
  BY DEF IInv
<1>. QED  BY <1>1, Invariance, PTL

\* The reported angle is the true one, modulo a turn, after any history.
THEOREM AngleCorrect == Spec => []AngleTracks
<1>1. IInv => AngleTracks
  BY DEF IInv
<1>. QED  BY <1>1, Invariance, PTL
=============================================================================
