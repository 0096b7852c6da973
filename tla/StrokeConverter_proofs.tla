----------------------- MODULE StrokeConverter_proofs -----------------------
(***************************************************************************)
(* Theorems about the joint part of the stroke converter, for every order  *)
(* of the names in driver_settings.yaml, every table, every set of speeds  *)
(* and angles within the assumptions of StrokeConverter, and any grouping  *)
(* of the joints under controllers.                                        *)
(***************************************************************************)
EXTENDS StrokeConverter, TLAPS, WellFoundedInduction

Thumbs == {"l_thumb", "r_thumb"}

-----------------------------------------------------------------------------
(* The constant tables of the code, each line read once.                   *)

LEMMA DirectNames ==
  DOMAIN Direct = {"waist_y", "neck_y", "l_shoulder_y", "r_shoulder_y",
                   "l_wrist_y", "r_wrist_y", "l_thumb", "r_thumb"}
BY DEF Direct

LEMMA DirectBackNames == DOMAIN DirectBack = DOMAIN Direct
BY DEF Direct, DirectBack

LEMMA SingleNames ==
  DOMAIN Single = {"l_shoulder_p", "r_shoulder_p", "l_shoulder_r",
                   "r_shoulder_r", "l_elbow", "r_elbow", "knee", "ankle"}
BY DEF Single

LEMMA SingleBackNames == DOMAIN SingleBack = DOMAIN Single
BY DEF Single, SingleBack

LEMMA DualBackNames ==
  DOMAIN DualBack = {"waist_p", "waist_r", "l_wrist_p", "l_wrist_r",
                     "neck_p", "neck_r", "r_wrist_p", "r_wrist_r"}
BY DEF DualBack

LEMMA PairNames == DOMAIN Dual = {"waist", "l_wrist", "neck", "r_wrist"}
BY DEF Dual

LEMMA RangeOfPair ==
  ASSUME NEW a, NEW b
  PROVE  Range(<<a, b>>) = {a, b}
<1>. DOMAIN <<a, b>> = {1, 2}
  OBVIOUS
<1>. QED  BY DEF Range

\* The two joints of a pair, and the actuators of which they are made.
LEMMA Pairs ==
  /\ Range(Dual["waist"].in) = {"waist_p", "waist_r"}
  /\ Range(Dual["l_wrist"].in) = {"l_wrist_p", "l_wrist_r"}
  /\ Range(Dual["neck"].in) = {"neck_p", "neck_r"}
  /\ Range(Dual["r_wrist"].in) = {"r_wrist_p", "r_wrist_r"}
  /\ \A d \in DOMAIN Dual : Range(Dual[d].out) = Range(Dual[d].in)
<1>1. Range(Dual["waist"].in) = {"waist_p", "waist_r"}
  BY RangeOfPair DEF Dual
<1>2. Range(Dual["l_wrist"].in) = {"l_wrist_p", "l_wrist_r"}
  BY RangeOfPair DEF Dual
<1>3. Range(Dual["neck"].in) = {"neck_p", "neck_r"}
  BY RangeOfPair DEF Dual
<1>4. Range(Dual["r_wrist"].in) = {"r_wrist_p", "r_wrist_r"}
  BY RangeOfPair DEF Dual
<1>5. /\ Range(Dual["waist"].out) = {"waist_p", "waist_r"}
      /\ Range(Dual["l_wrist"].out) = {"l_wrist_p", "l_wrist_r"}
      /\ Range(Dual["r_wrist"].out) = {"r_wrist_p", "r_wrist_r"}
  BY RangeOfPair DEF Dual
<1>6. Range(Dual["neck"].out) = {"neck_r", "neck_p"}
  BY RangeOfPair DEF Dual
<1>. QED  BY <1>1, <1>2, <1>3, <1>4, <1>5, <1>6, PairNames

LEMMA DualNames == DualJoints = DOMAIN DualBack
<1>1. DualJoints = Range(Dual["waist"].in) \union Range(Dual["l_wrist"].in)
                     \union Range(Dual["neck"].in) \union Range(Dual["r_wrist"].in)
  BY PairNames DEF DualJoints
<1>. QED  BY <1>1, Pairs, DualBackNames

\* No joint is in two of the three groups, so the order of the lines of
\* Angle2Stroke and Stroke2Angle does not matter.
LEMMA KindsApart ==
  /\ DOMAIN Direct \intersect DOMAIN Single = {}
  /\ DOMAIN Direct \intersect DualJoints = {}
  /\ DOMAIN Single \intersect DualJoints = {}
BY DirectNames, SingleNames, DualNames, DualBackNames

\* Every actuator of a pair is found in its own pair.
LEMMA PairOf ==
  ASSUME NEW d \in DOMAIN Dual, NEW j \in Range(Dual[d].in)
  PROVE  /\ j \in DualJoints
         /\ (CHOOSE e \in DOMAIN Dual : j \in Range(Dual[e].out)) = d
         /\ DualBack[j][3] = d
<1>1. j \in DualJoints
  BY DEF DualJoints
<1>2. \A e \in DOMAIN Dual : j \in Range(Dual[e].out) <=> e = d
  BY PairNames, Pairs
<1>3. (CHOOSE e \in DOMAIN Dual : j \in Range(Dual[e].out)) = d
  BY <1>2
<1>4. DualBack[j][3] = d
  <2>1. CASE d = "waist"
    BY <2>1, Pairs DEF DualBack
  <2>2. CASE d = "l_wrist"
    BY <2>2, Pairs DEF DualBack
  <2>3. CASE d = "neck"
    BY <2>3, Pairs DEF DualBack
  <2>4. CASE d = "r_wrist"
    BY <2>4, Pairs DEF DualBack
  <2>. QED  BY <2>1, <2>2, <2>3, <2>4, PairNames
<1>. QED  BY <1>1, <1>3, <1>4

\* The gains of the two directions belong together: the sign is the same, and
\* the offset of a thumb is the same in both.
LEMMA DirectShape ==
  \A j \in DOMAIN Direct : \E s \in {1, -1} :
    IF j \in Thumbs
      THEN /\ Direct[j][1] = 18 * s /\ Direct[j][2] = 50 * s
           /\ DirectBack[j][1] = 5556 * s /\ DirectBack[j][2] = -5000000 * s
      ELSE /\ Direct[j][1] = 100 * s /\ Direct[j][2] = 0
           /\ DirectBack[j][1] = 1000 * s /\ DirectBack[j][2] = 0
BY DirectNames DEF Direct, DirectBack, Thumbs

LEMMA SingleShape ==
  \A j \in DOMAIN Single :
    /\ \/ Single[j][1] = 1 /\ Single[j][2] \in Int
       \/ Single[j][1] = -1 /\ Single[j][2] = 0
    /\ SingleBack[j][1] = Single[j][1] /\ SingleBack[j][2] = -Single[j][2]
BY SingleNames DEF Single, SingleBack

-----------------------------------------------------------------------------
(* The places of the joints in the vectors of the hardware.                *)

Indexed == index = setJointNames(Names)

\* A name that is there once is found where it is.
LEMMA PlaceOf ==
  ASSUME NEW names \in Seq(STRING), IsInjective(names),
         NEW j \in Joints \union Wheels, NEW k \in DOMAIN names, names[k] = j
  PROVE  setJointNames(names)[j] = k - 1
<1>. DEFINE at == { i \in 0..(Len(names) - 1) : names[i + 1] = j }
<1>1. DOMAIN names = 1..Len(names) /\ Len(names) \in Nat
  OBVIOUS
<1>2. at = {k - 1}
  <2>1. k - 1 \in at
    BY <1>1
  <2>2. ASSUME NEW i \in at PROVE i = k - 1
    <3>1. i + 1 \in DOMAIN names /\ names[i + 1] = names[k] /\ i \in Int
      BY <1>1, <2>2
    <3>2. i + 1 = k
      BY <3>1 DEF IsInjective
    <3>. QED  BY <3>1, <3>2
  <2>. QED  BY <2>1, <2>2
<1>3. setJointNames(names)[j] =
        IF at = {} THEN 0 ELSE CHOOSE i \in at : \A m \in at : i <= m
  BY DEF setJointNames
<1>4. k - 1 \in Int
  BY <1>1
<1>. HIDE DEF at
<1>5. (CHOOSE i \in at : \A m \in at : i <= m) = k - 1
  BY <1>2, <1>4
<1>. QED  BY <1>2, <1>3, <1>5

\* A name that is not there takes the first place, without a word.
LEMMA PlaceOfMissing ==
  ASSUME NEW names \in Seq(STRING), NEW j \in Joints \union Wheels, j \notin Range(names)
  PROVE  setJointNames(names)[j] = 0
<1>1. \A i \in 0..(Len(names) - 1) : names[i + 1] # j
  BY DEF Range
<1>. QED  BY <1>1 DEF setJointNames

\* No two joints share a place exactly when every name of the code is in the
\* list: with the first name one the code knows (waist_y), each name that is
\* missing puts its joint on the actuator of that one (:164-195).
THEOREM PlacesApart ==
  ASSUME NEW names \in Seq(STRING), IsInjective(names),
         names # <<>>, names[1] \in Joints \union Wheels
  PROVE  IsInjective(setJointNames(names)) <=> Joints \union Wheels \subseteq Range(names)
<1>. DEFINE place == setJointNames(names)
<1>1. DOMAIN place = Joints \union Wheels
  BY DEF setJointNames
<1>2. ASSUME Joints \union Wheels \subseteq Range(names)
      PROVE  IsInjective(place)
  <2>. SUFFICES ASSUME NEW i \in Joints \union Wheels, NEW j \in Joints \union Wheels,
                       place[i] = place[j]
                PROVE  i = j
    BY <1>1 DEF IsInjective
  <2>1. PICK k \in DOMAIN names : names[k] = i
    BY <1>2 DEF Range
  <2>2. PICK m \in DOMAIN names : names[m] = j
    BY <1>2 DEF Range
  <2>3. k - 1 = m - 1
    BY <2>1, <2>2, PlaceOf
  <2>. QED  BY <2>1, <2>2, <2>3
<1>3. ASSUME NEW j \in Joints \union Wheels, j \notin Range(names)
      PROVE  ~IsInjective(place)
  <2>1. 1 \in DOMAIN names /\ names[1] # j
    BY <1>3 DEF Range
  <2>2. place[names[1]] = 1 - 1
    BY <2>1, PlaceOf
  <2>3. place[j] = 0
    BY <1>3, PlaceOfMissing
  <2>. QED  BY <1>1, <2>1, <2>2, <2>3 DEF IsInjective
<1>. QED  BY <1>2, <1>3

\* With the names of driver_settings.yaml every joint is found, and no two at
\* one place.
LEMMA IndexFacts ==
  ASSUME Indexed
  PROVE  /\ index \in [Joints \union Wheels -> Places]
         /\ \A j \in Joints \union Wheels : Names[index[j] + 1] = j
         /\ IsInjective(index)
<1>1. ASSUME NEW j \in Joints \union Wheels
      PROVE  index[j] \in Places /\ Names[index[j] + 1] = j
  <2>1. PICK k \in DOMAIN Names : Names[k] = j
    BY NamesAssumption DEF Range
  <2>2. DOMAIN Names = 1..Len(Names) /\ Len(Names) \in Nat
    BY NamesAssumption
  <2>3. index[j] = k - 1
    BY <2>1, NamesAssumption, PlaceOf DEF Indexed
  <2>4. k - 1 \in Places /\ (k - 1) + 1 = k
    BY <2>2 DEF Places
  <2>. QED  BY <2>1, <2>3, <2>4
<1>2. index \in [Joints \union Wheels -> Places]
  BY <1>1 DEF Indexed, setJointNames
<1>3. IsInjective(index)
  BY <1>1, <1>2 DEF IsInjective
<1>. QED  BY <1>1, <1>2, <1>3

\* A place belongs to one joint only.
LEMMA JointAt ==
  ASSUME Indexed, NEW S \in SUBSET Joints, NEW j \in S
  PROVE  /\ index[j] \in Places
         /\ \E k \in S : index[k] = index[j]
         /\ (CHOOSE k \in S : index[k] = index[j]) = j
<1>1. \A k \in S : index[k] = index[j] <=> k = j
  BY IndexFacts DEF IsInjective
<1>2. (CHOOSE k \in S : index[k] = index[j]) = j
  BY <1>1
<1>. QED  BY <1>2, IndexFacts

-----------------------------------------------------------------------------
(* Angle2Stroke, place by place.                                           *)

LEMMA StrokeOfDirect ==
  ASSUME Indexed, NEW angles, NEW j \in DOMAIN Direct
  PROVE  Angle2Stroke(angles)[index[j]] = calcStroke1(angles[index[j]], Direct[j])
<1>1. j \in Joints
  BY DEF Joints
<1>2. /\ index[j] \in Places
      /\ \E k \in Joints : index[k] = index[j]
      /\ (CHOOSE k \in Joints : index[k] = index[j]) = j
  BY <1>1, JointAt
<1>. QED  BY <1>2, KindsApart, Zenon DEF Angle2Stroke

LEMMA StrokeOfSingle ==
  ASSUME Indexed, NEW angles, NEW j \in DOMAIN Single
  PROVE  Angle2Stroke(angles)[index[j]] = calcStroke2(angles[index[j]], Single[j])
<1>1. j \in Joints
  BY DEF Joints
<1>2. /\ index[j] \in Places
      /\ \E k \in Joints : index[k] = index[j]
      /\ (CHOOSE k \in Joints : index[k] = index[j]) = j
  BY <1>1, JointAt
<1>. QED  BY <1>2, KindsApart, Zenon DEF Angle2Stroke

LEMMA StrokeOfPair ==
  ASSUME Indexed, NEW angles, NEW d \in DOMAIN Dual, NEW j \in Range(Dual[d].in)
  PROVE  Angle2Stroke(angles)[index[j]] =
           calcStroke3(angles[index[Dual[d].in[1]]], angles[index[Dual[d].in[2]]],
                       Dual[d])[IF j = Dual[d].out[1] THEN 1 ELSE 2]
<1>1. j \in DualJoints /\ (CHOOSE e \in DOMAIN Dual : j \in Range(Dual[e].out)) = d
  BY PairOf
<1>2. j \in Joints
  BY <1>1 DEF Joints
<1>3. /\ index[j] \in Places
      /\ \E k \in Joints : index[k] = index[j]
      /\ (CHOOSE k \in Joints : index[k] = index[j]) = j
  BY <1>2, JointAt
<1>. QED  BY <1>1, <1>3, KindsApart, Zenon DEF Angle2Stroke

-----------------------------------------------------------------------------
(* Arithmetic.                                                             *)

\* A cast to int16_t loses less than one unit, and never the sign.
LEMMA Quotient ==
  ASSUME NEW a \in Int, NEW t, t = Trunc(a, 100000)
  PROVE  /\ t \in Int
         /\ a >= 0 => 0 <= t /\ 100000 * t <= a /\ a <= 100000 * t + 99999
         /\ a <= 0 => t <= 0 /\ a <= 100000 * t /\ 100000 * t <= a + 99999
<1>1. /\ Trunc(a, 100000) \in Int
      /\ a >= 0 => /\ 0 <= Trunc(a, 100000) /\ 100000 * Trunc(a, 100000) <= a
                   /\ a <= 100000 * Trunc(a, 100000) + 99999
      /\ a <= 0 => /\ Trunc(a, 100000) <= 0 /\ a <= 100000 * Trunc(a, 100000)
                   /\ 100000 * Trunc(a, 100000) <= a + 99999
  BY SMT DEF Trunc
<1>. QED  BY SMT, <1>1

LEMMA TruncBound ==
  ASSUME NEW a \in Int, NEW b \in Nat, Distance(a, 0) <= 100000 * b + 99999
  PROVE  Trunc(a, 100000) \in Int /\ Distance(Trunc(a, 100000), 0) <= b
<1>. DEFINE t == Trunc(a, 100000)
<1>1. /\ t \in Int
      /\ a >= 0 => 0 <= t /\ 100000 * t <= a
      /\ a <= 0 => t <= 0 /\ a <= 100000 * t
  BY SMTT(30), Quotient
<1>. HIDE DEF t
<1>2. Distance(t, 0) <= b
  BY SMT, <1>1 DEF Distance
<1>. QED  BY <1>1, <1>2 DEF t

LEMMA DistanceFacts ==
  ASSUME NEW a \in Int, NEW b \in Int
  PROVE  /\ Distance(a, b) \in Nat
         /\ a >= b => Distance(a, b) = a - b
         /\ a <= b => Distance(a, b) = b - a
BY DEF Distance

-----------------------------------------------------------------------------
(* The tables and their inverse.                                           *)

TableNames == { Single[j][3] : j \in DOMAIN Single }
                \union UNION { Range(Dual[q].table) : q \in DOMAIN Dual }

LEMMA TableFacts ==
  \A n \in TableNames :
    /\ DOMAIN Tables[n] \subseteq Int
    /\ DOMAIN Tables[n] # {}
    /\ \A x \in DOMAIN Tables[n] :
         Tables[n][x] \in Int /\ Distance(Tables[n][x], 0) <= 163830
    /\ \A x, y \in DOMAIN Tables[n] :
         x # y => Distance(Tables[n][x], Tables[n][y]) >= 19
BY TablesAssumption DEF TableNames

\* What is used of a line of calcStroke3 and its inverse.
LEMMA PairShape ==
  \A d \in DOMAIN Dual :
    LET q == Dual[d]
    IN  /\ q.in[1] # q.in[2]
        /\ Range(q.in) = {q.in[1], q.in[2]}
        /\ \A k \in {1, 2} : q.dir[k] \in {1, -1} /\ q.table[k] \in TableNames
<1>. SUFFICES ASSUME NEW d \in DOMAIN Dual
              PROVE  /\ Dual[d].in[1] # Dual[d].in[2]
                     /\ Range(Dual[d].in) = {Dual[d].in[1], Dual[d].in[2]}
                     /\ \A k \in {1, 2} : /\ Dual[d].dir[k] \in {1, -1}
                                          /\ Dual[d].table[k] \in TableNames
  OBVIOUS
<1>1. Dual[d].in[1] # Dual[d].in[2]
  BY PairNames DEF Dual
<1>4. Dual[d].dir[1] \in {1, -1} /\ Dual[d].dir[2] \in {1, -1}
  BY PairNames DEF Dual
<1>2. Range(Dual[d].in) = {Dual[d].in[1], Dual[d].in[2]}
  BY SMTT(30), PairNames, Pairs DEF Dual
<1>3. \A k \in {1, 2} : Dual[d].table[k] \in Range(Dual[d].table)
  <2>1. \A k \in {1, 2} : k \in DOMAIN Dual[d].table
    BY PairNames DEF Dual
  <2>. QED  BY <2>1 DEF Range
<1>. QED  BY <1>1, <1>2, <1>3, <1>4 DEF TableNames

LEMMA NatMinimum ==
  ASSUME NEW T, T \subseteq Nat, T # {}
  PROVE  \E x \in T : \A y \in T : x <= y
<1>. DEFINE R == {ss \in Nat \X Nat : ss[1] < ss[2]}
<1>1. OpToRel(<, Nat) = R
  BY Zenon DEF OpToRel
<1>2. IsWellFoundedOn(R, Nat)
  BY <1>1, NatLessThanWellFounded, Zenon
<1>. HIDE DEF R
<1>3. PICK x \in T : \A y \in T : ~ (<<y, x>> \in R)
  BY <1>2, WFMin, Zenon
<1>4. ASSUME NEW y \in T PROVE x <= y
  <2>1. x \in Nat /\ y \in Nat
    OBVIOUS
  <2>2. ~ (<<y, x>> \in R)
    BY <1>3
  <2>. QED  BY <2>1, <2>2 DEF R
<1>. QED  BY <1>4

\* The inverse table finds a point, and none is nearer to the stroke.
LEMMA InverseFacts ==
  ASSUME NEW n \in TableNames, NEW s \in Int
  PROVE  /\ setStrokeToAngle(s, Tables[n]) \in DOMAIN Tables[n]
         /\ \A y \in DOMAIN Tables[n] :
              Distance(Tables[n][setStrokeToAngle(s, Tables[n])], s)
                <= Distance(Tables[n][y], s)
<1>. DEFINE t == Tables[n]
            T == { Distance(t[x], s) : x \in DOMAIN t }
<1>1. DOMAIN t # {} /\ \A x \in DOMAIN t : t[x] \in Int
  BY TableFacts
<1>. HIDE DEF t
<1>2. T \subseteq Nat /\ T # {}
  BY <1>1, DistanceFacts
<1>3. PICK m \in T : \A y \in T : m <= y
  BY <1>2, NatMinimum
<1>4. PICK x \in DOMAIN t : m = Distance(t[x], s)
  BY <1>3
<1>5. \A y \in DOMAIN t : Distance(t[x], s) <= Distance(t[y], s)
  BY <1>3, <1>4
<1>6. /\ setStrokeToAngle(s, t) \in DOMAIN t
      /\ \A y \in DOMAIN t : Distance(t[setStrokeToAngle(s, t)], s) <= Distance(t[y], s)
  BY <1>5 DEF setStrokeToAngle
<1>. QED  BY <1>6 DEF t

\* A stroke less than half the gap from a point is read as that point.
LEMMA InverseExact ==
  ASSUME NEW n \in TableNames, NEW x \in DOMAIN Tables[n], NEW s \in Int,
         Distance(Tables[n][x], s) <= 9
  PROVE  setStrokeToAngle(s, Tables[n]) = x
<1>. DEFINE z == setStrokeToAngle(s, Tables[n])
<1>1. z \in DOMAIN Tables[n] /\ Distance(Tables[n][z], s) <= Distance(Tables[n][x], s)
  BY InverseFacts
<1>2. Tables[n][x] \in Int /\ Tables[n][z] \in Int
  BY <1>1, TableFacts
<1>3. SUFFICES ASSUME z # x PROVE FALSE
  OBVIOUS
<1>4. Distance(Tables[n][z], Tables[n][x]) >= 19
  BY <1>1, <1>3, TableFacts
<1>. HIDE DEF z
<1>. QED  BY <1>1, <1>2, <1>4 DEF Distance

-----------------------------------------------------------------------------
(* Joints without a table: the ranges that no cycle of commands and holds  *)
(* leaves, and how the two conversions undo each other.                    *)

StrokeRange(j) ==
  { s \in Int : Distance(s, 0) <= IF j \in Thumbs THEN 4140
                                  ELSE IF j \in DOMAIN Direct THEN 18000 ELSE 32766 }

AngleRange(j) ==
  IF j \in DOMAIN Direct
    THEN { a \in Int : Distance(a + 100000 * Direct[j][2], 0)
                         <= IF j \in Thumbs THEN 23001840 ELSE 18000001 }
    ELSE Commandable(j)

DirectReading(j, s, error) ==
  DirectBack[j][1] * s + DirectBack[j][2]
    + (IF DirectBack[j][2] = 0 /\ s # 0 THEN error ELSE 0)

LEMMA DirectCommand ==
  ASSUME NEW j \in DOMAIN Direct, NEW a \in DirectAngles
  PROVE  a \in AngleRange(j)
<1>1. PICK s \in {1, -1} :
        Direct[j][2] = IF j \in Thumbs THEN 50 * s ELSE 0
  BY SMT, DirectShape
<1>2. a \in Int /\ Distance(a, 0) <= 18000000
  BY SMT, DirectAnglesAssumption
<1>3. CASE j \in Thumbs
  <2>1. Distance(a + 100000 * Direct[j][2], 0) <= 23001840
    BY SMT, <1>1, <1>2, <1>3 DEF Distance
  <2>. QED  BY SMT, <2>1, <1>2, <1>3 DEF AngleRange
<1>4. CASE j \notin Thumbs
  <2>1. Distance(a + 100000 * Direct[j][2], 0) <= 18000001
    BY SMT, <1>1, <1>2, <1>4 DEF Distance
  <2>. QED  BY SMT, <2>1, <1>2, <1>4 DEF AngleRange
<1>. QED  BY SMT, <1>3, <1>4

LEMMA DirectStroke ==
  ASSUME NEW j \in DOMAIN Direct, NEW a \in AngleRange(j)
  PROVE  calcStroke1(a, Direct[j]) \in StrokeRange(j)
<1>1. a \in Int
  BY SMT DEF AngleRange
<1>2. PICK s \in {1, -1} :
        IF j \in Thumbs THEN Direct[j][1] = 18 * s /\ Direct[j][2] = 50 * s
                        ELSE Direct[j][1] = 100 * s /\ Direct[j][2] = 0
  BY SMT, DirectShape
<1>. DEFINE u == a + 100000 * Direct[j][2]
            v == Direct[j][1] * u
<1>3. calcStroke1(a, Direct[j]) = Trunc(v, 100000)
  BY SMT, <1>1, NaNAssumption DEF calcStroke1
<1>4. CASE j \in Thumbs
  <2>1. u \in Int /\ v = 18 * (s * u) /\ Distance(u, 0) <= 23001840
    BY SMT, <1>1, <1>2, <1>4 DEF AngleRange
  <2>. HIDE DEF u
  <2>2. v \in Int /\ Distance(v, 0) <= 100000 * 4140 + 99999
    BY SMT, <2>1 DEF Distance
  <2>. HIDE DEF v
  <2>3. Trunc(v, 100000) \in Int /\ Distance(Trunc(v, 100000), 0) <= 4140
    BY SMT, <2>2, TruncBound
  <2>. QED  BY SMT, <1>3, <1>4, <2>3 DEF StrokeRange
<1>5. CASE j \notin Thumbs
  <2>1. u \in Int /\ v = 100 * (s * u) /\ Distance(u, 0) <= 18000001
    BY SMT, <1>1, <1>2, <1>5 DEF AngleRange
  <2>. HIDE DEF u
  <2>2. v \in Int /\ Distance(v, 0) <= 100000 * 18000 + 99999
    BY SMT, <2>1 DEF Distance
  <2>. HIDE DEF v
  <2>3. Trunc(v, 100000) \in Int /\ Distance(Trunc(v, 100000), 0) <= 18000
    BY SMT, <2>2, TruncBound
  <2>. QED  BY SMT, <1>3, <1>5, <2>3 DEF StrokeRange
<1>. QED  BY SMT, <1>4, <1>5

LEMMA DirectReadingInRange ==
  ASSUME NEW j \in DOMAIN Direct, NEW s \in StrokeRange(j), NEW error \in RoundingErrors
  PROVE  DirectReading(j, s, error) \in AngleRange(j)
<1>1. PICK g \in {1, -1} :
        IF j \in Thumbs
          THEN /\ Direct[j][2] = 50 * g
               /\ DirectBack[j][1] = 5556 * g /\ DirectBack[j][2] = -5000000 * g
          ELSE /\ Direct[j][2] = 0
               /\ DirectBack[j][1] = 1000 * g /\ DirectBack[j][2] = 0
  BY SMT, DirectShape
<1>. DEFINE a == DirectReading(j, s, error)
<1>2. s \in Int /\ error \in {-1, 0, 1}
  BY SMT DEF StrokeRange, RoundingErrors
<1>3. CASE j \in Thumbs
  <2>1. Distance(s, 0) <= 4140
    BY SMT, <1>3 DEF StrokeRange
  <2>2. a \in Int /\ a + 100000 * Direct[j][2] = 5556 * (g * s)
    <3>1. a = (5556 * g) * s + -5000000 * g /\ Direct[j][2] = 50 * g
      BY SMT, <1>1, <1>2, <1>3 DEF DirectReading
    <3>. HIDE DEF a
    <3>2. CASE g = 1
      BY SMT, <1>2, <3>1, <3>2
    <3>3. CASE g = -1
      BY SMT, <1>2, <3>1, <3>3
    <3>. QED  BY <3>2, <3>3
  <2>3. g * s \in Int /\ Distance(g * s, 0) <= 4140
    BY SMT, <1>2, <2>1 DEF Distance
  <2>4. Distance(5556 * (g * s), 0) <= 23001840
    BY SMT, <2>3 DEF Distance
  <2>. HIDE DEF a
  <2>5. a \in AngleRange(j)
    BY SMT, <1>3, <2>2, <2>4 DEF AngleRange
  <2>. QED  BY SMT, <2>5 DEF a
<1>4. CASE j \notin Thumbs
  <2>1. Distance(s, 0) <= 18000
    BY SMT, <1>4 DEF StrokeRange
  <2>2. /\ a \in Int /\ a + 100000 * Direct[j][2] = a
        /\ a = 1000 * (g * s) + (IF s # 0 THEN error ELSE 0)
    <3>1. /\ a = (1000 * g) * s + 0 + (IF s # 0 THEN error ELSE 0)
          /\ Direct[j][2] = 0
      BY SMT, <1>1, <1>2, <1>4 DEF DirectReading
    <3>. HIDE DEF a
    <3>2. CASE g = 1
      BY SMT, <1>2, <3>1, <3>2
    <3>3. CASE g = -1
      BY SMT, <1>2, <3>1, <3>3
    <3>. QED  BY <3>2, <3>3
  <2>. HIDE DEF a
  <2>3. Distance(a, 0) <= 18000001
    BY SMT, <1>2, <2>1, <2>2 DEF Distance
  <2>4. a \in AngleRange(j)
    BY SMT, <1>4, <2>2, <2>3 DEF AngleRange
  <2>. QED  BY SMT, <2>4 DEF a
<1>. QED  BY SMT, <1>3, <1>4

\* What a joint without a table reads, when it is commanded, gives a stroke of
\* the same size or one unit less; the gain of the thumbs hides the error.
LEMMA DirectHold ==
  ASSUME NEW j \in DOMAIN Direct, NEW s \in StrokeRange(j), NEW error \in RoundingErrors,
         NEW t, t = calcStroke1(DirectReading(j, s, error), Direct[j])
  PROVE  IF j \in Thumbs
           THEN t = s
           ELSE Distance(t, 0) \in { Distance(s, 0) - 1, Distance(s, 0) }
<1>1. PICK g \in {1, -1} :
        IF j \in Thumbs
          THEN /\ Direct[j][1] = 18 * g /\ Direct[j][2] = 50 * g
               /\ DirectBack[j][1] = 5556 * g /\ DirectBack[j][2] = -5000000 * g
          ELSE /\ Direct[j][1] = 100 * g /\ Direct[j][2] = 0
               /\ DirectBack[j][1] = 1000 * g /\ DirectBack[j][2] = 0
  BY DirectShape
<1>. DEFINE a == DirectReading(j, s, error)
            v == Direct[j][1] * (a + 100000 * Direct[j][2])
<1>2. s \in Int /\ error \in {-1, 0, 1}
  BY DEF StrokeRange, RoundingErrors
<1>3. a \in Int
  BY DirectReadingInRange DEF AngleRange
<1>4. t = Trunc(v, 100000)
  BY SMT, <1>3, NaNAssumption DEF calcStroke1
<1>5. CASE j \in Thumbs
  <2>1. Distance(s, 0) <= 4140
    BY SMT, <1>5 DEF StrokeRange
  <2>2. v = 100008 * s
    <3>1. /\ a = (5556 * g) * s + -5000000 * g
          /\ Direct[j][1] = 18 * g /\ Direct[j][2] = 50 * g
      BY SMT, <1>1, <1>2, <1>5 DEF DirectReading
    <3>. HIDE DEF a
    <3>2. CASE g = 1
      BY SMT, <1>2, <3>1, <3>2
    <3>3. CASE g = -1
      BY SMT, <1>2, <3>1, <3>3
    <3>. QED  BY <3>2, <3>3
  <2>. HIDE DEF v
  <2>3. /\ v \in Int /\ t \in Int
        /\ v >= 0 => 0 <= t /\ 100000 * t <= v /\ v <= 100000 * t + 99999
        /\ v <= 0 => t <= 0 /\ v <= 100000 * t /\ 100000 * t <= v + 99999
    <3>1. v \in Int
      BY SMT, <1>2, <2>2
    <3>. QED  BY SMT, <1>4, <3>1 DEF Trunc
  <2>4. t = s
    BY SMT, <1>2, <2>1, <2>2, <2>3 DEF Distance
  <2>. QED  BY <1>5, <2>4
<1>6. CASE j \notin Thumbs
  <2>. DEFINE e == IF s # 0 THEN error ELSE 0
  <2>0. e \in {-1, 0, 1} /\ (s = 0 => e = 0)
    BY <1>2
  <2>1. v = 100000 * s + 100 * (g * e)
    <3>0. /\ DirectBack[j][1] = 1000 * g /\ DirectBack[j][2] = 0
          /\ Direct[j][1] = 100 * g /\ Direct[j][2] = 0
      BY SMT, <1>1, <1>6
    <3>1. a = (1000 * g) * s + e
      BY SMT, <1>2, <3>0 DEF DirectReading
    <3>. HIDE DEF a, e
    <3>2. CASE g = 1
      BY SMT, <1>2, <2>0, <3>0, <3>1, <3>2
    <3>3. CASE g = -1
      BY SMT, <1>2, <2>0, <3>0, <3>1, <3>3
    <3>. QED  BY <3>2, <3>3
  <2>2. /\ v \in Int
        /\ s = 0 => v = 0
        /\ v <= 100000 * s + 100 /\ 100000 * s <= v + 100
    <3>. HIDE DEF v, e
    <3>. QED  BY SMT, <1>2, <2>0, <2>1
  <2>. HIDE DEF v
  <2>3. /\ t \in Int
        /\ v >= 0 => 0 <= t /\ 100000 * t <= v /\ v <= 100000 * t + 99999
        /\ v <= 0 => t <= 0 /\ v <= 100000 * t /\ 100000 * t <= v + 99999
    BY SMT, <1>4, <2>2 DEF Trunc
  <2>4. \/ s = 0 /\ t = 0
        \/ s > 0 /\ 0 <= t /\ (t = s \/ t = s - 1)
        \/ s < 0 /\ t <= 0 /\ (t = s \/ t = s + 1)
    BY SMT, <1>2, <2>2, <2>3
  <2>5. Distance(t, 0) \in { Distance(s, 0) - 1, Distance(s, 0) }
    BY SMT, <1>2, <2>3, <2>4 DEF Distance
  <2>. QED  BY <1>6, <2>5
<1>. QED  BY <1>5, <1>6

\* The angle read is less than one stroke from the angle commanded.
LEMMA DirectReadsBack ==
  ASSUME NEW j \in DOMAIN Direct, NEW a \in AngleRange(j), NEW error \in RoundingErrors,
         NEW t, t = calcStroke1(a, Direct[j])
  PROVE  Distance(DirectReading(j, t, error), a) <= IF j \in Thumbs THEN 6000 ELSE 1002
<1>1. PICK g \in {1, -1} :
        IF j \in Thumbs
          THEN /\ Direct[j][1] = 18 * g /\ Direct[j][2] = 50 * g
               /\ DirectBack[j][1] = 5556 * g /\ DirectBack[j][2] = -5000000 * g
          ELSE /\ Direct[j][1] = 100 * g /\ Direct[j][2] = 0
               /\ DirectBack[j][1] = 1000 * g /\ DirectBack[j][2] = 0
  BY DirectShape
<1>2. a \in Int /\ error \in {-1, 0, 1}
  BY DEF AngleRange, RoundingErrors
<1>. DEFINE v == Direct[j][1] * (a + 100000 * Direct[j][2])
            r == DirectReading(j, t, error)
<1>3. t = Trunc(v, 100000)
  BY SMT, <1>2, NaNAssumption DEF calcStroke1
<1>4. t \in StrokeRange(j) /\ t \in Int
  BY DirectStroke DEF StrokeRange
<1>5. CASE j \in Thumbs
  <2>. DEFINE w == g * (a + 5000000 * g)
  <2>1. w \in Int /\ v = 18 * w /\ Distance(t, 0) <= 4140
    <3>1. Direct[j][1] = 18 * g /\ Direct[j][2] = 50 * g /\ Distance(t, 0) <= 4140
      BY SMT, <1>1, <1>4, <1>5 DEF StrokeRange
    <3>2. CASE g = 1
      BY SMT, <1>2, <3>1, <3>2
    <3>3. CASE g = -1
      BY SMT, <1>2, <3>1, <3>3
    <3>. QED  BY <3>2, <3>3
  <2>2. /\ v >= 0 => 0 <= t /\ 100000 * t <= v /\ v <= 100000 * t + 99999
        /\ v <= 0 => t <= 0 /\ v <= 100000 * t /\ 100000 * t <= v + 99999
    <3>. HIDE DEF v, w
    <3>. QED  BY SMT, <1>3, <2>1 DEF Trunc
  <2>3. r = 5556 * (g * t) + -5000000 * g
    <3>1. r = (5556 * g) * t + -5000000 * g
      BY SMT, <1>1, <1>2, <1>4, <1>5 DEF DirectReading
    <3>. HIDE DEF r
    <3>2. CASE g = 1
      BY SMT, <1>4, <3>1, <3>2
    <3>3. CASE g = -1
      BY SMT, <1>4, <3>1, <3>3
    <3>. QED  BY <3>2, <3>3
  <2>. HIDE DEF v
  <2>4. 5556 * t - w <= 6000 /\ w - 5556 * t <= 6000
    <3>. HIDE DEF w
    <3>. QED  BY SMT, <1>4, <2>1, <2>2 DEF Distance
  <2>. HIDE DEF r
  <2>5. Distance(r, a) <= 6000
    <3>1. CASE g = 1
      BY SMT, <1>2, <1>4, <2>3, <2>4, <3>1 DEF Distance
    <3>2. CASE g = -1
      BY SMT, <1>2, <1>4, <2>3, <2>4, <3>2 DEF Distance
    <3>. QED  BY <3>1, <3>2
  <2>. QED  BY SMT, <1>5, <2>5 DEF r
<1>6. CASE j \notin Thumbs
  <2>1. v = 100 * (g * a)
    <3>1. Direct[j][1] = 100 * g /\ Direct[j][2] = 0
      BY SMT, <1>1, <1>6
    <3>2. CASE g = 1
      BY SMT, <1>2, <3>1, <3>2
    <3>3. CASE g = -1
      BY SMT, <1>2, <3>1, <3>3
    <3>. QED  BY <3>2, <3>3
  <2>. HIDE DEF v
  <2>2. /\ v \in Int
        /\ v >= 0 => 0 <= t /\ 100000 * t <= v /\ v <= 100000 * t + 99999
        /\ v <= 0 => t <= 0 /\ v <= 100000 * t /\ 100000 * t <= v + 99999
    <3>1. v \in Int
      BY SMT, <1>2, <2>1
    <3>. QED  BY SMT, <1>3, <3>1 DEF Trunc
  <2>. DEFINE e == IF t # 0 THEN error ELSE 0
  <2>0. e \in {-1, 0, 1}
    BY <1>2
  <2>3. r = (1000 * g) * t + e
    <3>1. DirectBack[j][1] = 1000 * g /\ DirectBack[j][2] = 0
      BY SMT, <1>1, <1>6
    <3>. QED  BY SMT, <1>2, <1>4, <3>1 DEF DirectReading
  <2>. HIDE DEF e
  <2>. HIDE DEF r
  <2>4. Distance(r, a) <= 1002
    <3>1. CASE g = 1
      BY SMT, <1>2, <1>4, <2>0, <2>1, <2>2, <2>3, <3>1 DEF Distance
    <3>2. CASE g = -1
      BY SMT, <1>2, <1>4, <2>0, <2>1, <2>2, <2>3, <3>2 DEF Distance
    <3>. QED  BY <3>1, <3>2
  <2>. QED  BY SMT, <1>6, <2>4 DEF r
<1>. QED  BY SMT, <1>5, <1>6

-----------------------------------------------------------------------------
(* Joints with a table of their own.                                       *)

LEMMA SingleTable ==
  \A j \in DOMAIN Single : Single[j][3] \in TableNames
BY DEF TableNames

\* Sign and offset turn the commanded angle into a point of the table.
LEMMA SingleStroke ==
  ASSUME NEW j \in DOMAIN Single, NEW a \in Commandable(j)
  PROVE  /\ a \in Int
         /\ \E x \in DOMAIN Tables[Single[j][3]] :
              /\ a = SingleBack[j][1] * x + SingleBack[j][2]
              /\ calcStroke2(a, Single[j]) = Trunc(Tables[Single[j][3]][x], 10)
<1>1. PICK x \in DOMAIN Tables[Single[j][3]] : a = Single[j][1] * (x - Single[j][2])
  BY KindsApart DEF Commandable
<1>2. x \in Int
  BY SingleTable, TableFacts
<1>3. /\ \/ Single[j][1] = 1 /\ Single[j][2] \in Int
         \/ Single[j][1] = -1 /\ Single[j][2] = 0
      /\ SingleBack[j][1] = Single[j][1] /\ SingleBack[j][2] = -Single[j][2]
  BY SingleShape
<1>4. /\ a \in Int
      /\ a = SingleBack[j][1] * x + SingleBack[j][2]
      /\ Single[j][2] + Single[j][1] * a = x
  BY <1>1, <1>2, <1>3
<1>5. calcStroke2(a, Single[j]) = Trunc(Tables[Single[j][3]][x], 10)
  BY <1>4, NaNAssumption DEF calcStroke2
<1>. QED  BY <1>4, <1>5

\* What is read can be commanded.
LEMMA SingleReading ==
  ASSUME NEW j \in DOMAIN Single, NEW x \in DOMAIN Tables[Single[j][3]]
  PROVE  SingleBack[j][1] * x + SingleBack[j][2] \in Commandable(j)
<1>1. x \in Int
  BY SingleTable, TableFacts
<1>2. /\ \/ Single[j][1] = 1 /\ Single[j][2] \in Int
         \/ Single[j][1] = -1 /\ Single[j][2] = 0
      /\ SingleBack[j][1] = Single[j][1] /\ SingleBack[j][2] = -Single[j][2]
  BY SingleShape
<1>3. SingleBack[j][1] * x + SingleBack[j][2] = Single[j][1] * (x - Single[j][2])
  BY <1>1, <1>2
<1>. QED  BY <1>3, KindsApart, Zenon DEF Commandable

-----------------------------------------------------------------------------
(* Joints moved in pairs.                                                  *)

LEMMA CommandablePair ==
  ASSUME NEW d \in DOMAIN Dual, NEW k \in {1, 2}
  PROVE  /\ Dual[d].in[k] \in Range(Dual[d].in)
         /\ Commandable(Dual[d].in[k])
              = { Dual[d].dir[k] * x : x \in DOMAIN Tables[Dual[d].table[k]] }
         /\ Commandable(Dual[d].in[k]) \subseteq Int
<1>. DEFINE j == Dual[d].in[k]
<1>1. j \in Range(Dual[d].in) /\ Dual[d].in[1] # Dual[d].in[2]
  BY PairShape
<1>2. j \in DualJoints /\ DualBack[j][3] = d
  BY <1>1, PairOf
<1>3. (IF j = Dual[d].in[1] THEN 1 ELSE 2) = k
  BY <1>1
<1>. HIDE DEF j
<1>4. Commandable(j) = { Dual[d].dir[k] * x : x \in DOMAIN Tables[Dual[d].table[k]] }
  BY <1>2, <1>3, KindsApart DEF Commandable
<1>5. Commandable(j) \subseteq Int
  <2>1. Dual[d].dir[k] \in {1, -1} /\ Dual[d].table[k] \in TableNames
    BY PairShape
  <2>2. DOMAIN Tables[Dual[d].table[k]] \subseteq Int
    BY <2>1, TableFacts
  <2>. QED  BY <1>4, <2>1, <2>2
<1>. QED  BY <1>1, <1>4, <1>5 DEF j

\* The two actuators of a pair pull together for one joint and against each
\* other for the other one.
LEMMA PairStroke ==
  ASSUME NEW d \in DOMAIN Dual,
         NEW p \in Commandable(Dual[d].in[1]), NEW r \in Commandable(Dual[d].in[2])
  PROVE  \E x \in DOMAIN Tables[Dual[d].table[1]], y \in DOMAIN Tables[Dual[d].table[2]] :
           /\ p = Dual[d].dir[1] * x /\ r = Dual[d].dir[2] * y
           /\ calcStroke3(p, r, Dual[d])[1] =
                Trunc(Tables[Dual[d].table[1]][x] + Tables[Dual[d].table[2]][y], 10)
           /\ calcStroke3(p, r, Dual[d])[2] =
                Trunc(IF Dual[d].pitch
                        THEN Tables[Dual[d].table[2]][y] - Tables[Dual[d].table[1]][x]
                        ELSE Tables[Dual[d].table[1]][x] - Tables[Dual[d].table[2]][y], 10)
<1>. DEFINE q == Dual[d]
<1>1. PICK x \in DOMAIN Tables[q.table[1]] : p = q.dir[1] * x
  BY CommandablePair
<1>2. PICK y \in DOMAIN Tables[q.table[2]] : r = q.dir[2] * y
  BY CommandablePair
<1>3. p \in Int /\ r \in Int /\ p # NaN /\ r # NaN
  BY CommandablePair, NaNAssumption
<1>4. /\ q.dir[1] \in {1, -1} /\ q.dir[2] \in {1, -1}
      /\ q.table[1] \in TableNames /\ q.table[2] \in TableNames
  BY PairShape
<1>5. x \in Int /\ y \in Int
  BY <1>4, TableFacts
<1>. HIDE DEF q
<1>6. q.dir[1] * p = x /\ q.dir[2] * r = y
  BY <1>1, <1>2, <1>4, <1>5
<1>7. calcStroke3(p, r, q) =
        <<Trunc(Tables[q.table[1]][x] + Tables[q.table[2]][y], 10),
          Trunc(IF q.pitch THEN Tables[q.table[2]][y] - Tables[q.table[1]][x]
                           ELSE Tables[q.table[1]][x] - Tables[q.table[2]][y], 10)>>
  BY <1>3, <1>6 DEF calcStroke3, setDualAngleToStroke
<1>. QED  BY <1>1, <1>2, <1>7 DEF q

\* With one joint of a pair not commanded, neither actuator is.
LEMMA HalfCommanded ==
  ASSUME NEW p, NEW r, NEW q, p = NaN \/ r = NaN, NEW i \in {1, 2}
  PROVE  calcStroke3(p, r, q)[i] = NoStroke
<1>1. calcStroke3(p, r, q) = <<NoStroke, NoStroke>>
  BY DEF calcStroke3
<1>. QED  BY <1>1

-----------------------------------------------------------------------------
(* All joints together.                                                    *)

LEMMA StrokesAreFunction ==
  ASSUME NEW angles, NEW S, \A i \in Places : Angle2Stroke(angles)[i] \in S
  PROVE  Angle2Stroke(angles) \in [Places -> S]
BY Zenon DEF Angle2Stroke

\* The strokes are those of the angles, said place by place.
Converts(out, angles) ==
  /\ \A j \in DOMAIN Direct :
       out[index[j]] = calcStroke1(angles[index[j]], Direct[j])
  /\ \A j \in DOMAIN Single :
       out[index[j]] = calcStroke2(angles[index[j]], Single[j])
  /\ \A d \in DOMAIN Dual : \A k \in {1, 2} :
       out[index[Dual[d].in[k]]] =
         calcStroke3(angles[index[Dual[d].in[1]]], angles[index[Dual[d].in[2]]],
                     Dual[d])[IF Dual[d].in[k] = Dual[d].out[1] THEN 1 ELSE 2]
  /\ \A i \in Places : (\A j \in Joints : index[j] # i) => out[i] = NoStroke

LEMMA AnglesConvert ==
  ASSUME Indexed, NEW angles
  PROVE  Converts(Angle2Stroke(angles), angles)
<1>1. \A i \in Places : (\A j \in Joints : index[j] # i) => Angle2Stroke(angles)[i] = NoStroke
  BY Zenon DEF Angle2Stroke
<1>2. ASSUME NEW d \in DOMAIN Dual, NEW k \in {1, 2}
      PROVE  Angle2Stroke(angles)[index[Dual[d].in[k]]] =
               calcStroke3(angles[index[Dual[d].in[1]]], angles[index[Dual[d].in[2]]],
                           Dual[d])[IF Dual[d].in[k] = Dual[d].out[1] THEN 1 ELSE 2]
  BY CommandablePair, StrokeOfPair
<1>. QED  BY <1>1, <1>2, StrokeOfDirect, StrokeOfSingle DEF Converts

\* A joint is of one of the three kinds; one of a pair is first or second in it.
LEMMA Kinds ==
  ASSUME NEW j \in Joints
  PROVE  \/ j \in DOMAIN Direct
         \/ j \in DOMAIN Single
         \/ \E d \in DOMAIN Dual : \E k \in {1, 2} : j = Dual[d].in[k]
<1>1. CASE j \in DualJoints
  <2>1. PICK d \in DOMAIN Dual : j \in Range(Dual[d].in)
    BY <1>1 DEF DualJoints
  <2>. QED  BY <2>1, PairShape
<1>. QED  BY <1>1 DEF Joints

LEMMA PairNotDirect ==
  ASSUME NEW d \in DOMAIN Dual, NEW k \in {1, 2}
  PROVE  /\ Dual[d].in[k] \in Joints
         /\ Dual[d].in[k] \notin DOMAIN Direct
         /\ AngleRange(Dual[d].in[k]) = Commandable(Dual[d].in[k])
<1>1. Dual[d].in[k] \in DualJoints
  BY CommandablePair, PairOf
<1>. QED  BY <1>1, KindsApart DEF Joints, AngleRange

LEMMA AnglesAreInt ==
  ASSUME NEW j \in Joints
  PROVE  AngleRange(j) \subseteq Int /\ NaN \notin AngleRange(j)
<1>1. CASE j \in DOMAIN Direct
  BY <1>1, NaNAssumption DEF AngleRange
<1>2. CASE j \in DOMAIN Single
  BY <1>2, SingleStroke, KindsApart, NaNAssumption DEF AngleRange
<1>3. ASSUME NEW d \in DOMAIN Dual, NEW k \in {1, 2}, j = Dual[d].in[k]
      PROVE  AngleRange(j) \subseteq Int /\ NaN \notin AngleRange(j)
  BY <1>3, CommandablePair, PairNotDirect, NaNAssumption
<1>. QED  BY <1>1, <1>2, <1>3, Kinds

\* Angles that controllers can have written.
InRange(angles) ==
  \A j \in Joints : angles[index[j]] \in AngleRange(j) \union {NaN}

\* No sum of two table entries, and no angle without a table, gives a stroke
\* beyond int16_t, or 0x7FFF by accident.
LEMMA TruncTenBound ==
  ASSUME NEW a \in Int, Distance(a, 0) <= 327669
  PROVE  Trunc(a, 10) \in Int /\ Distance(Trunc(a, 10), 0) <= 32766
BY SMT DEF Trunc, Distance

LEMMA StrokesInRange ==
  ASSUME NEW out, NEW angles, Converts(out, angles), InRange(angles),
         NEW j \in Joints
  PROVE  out[index[j]] \in StrokeRange(j) \union {NoStroke}
<1>. DEFINE s == out[index[j]]
<1>1. CASE j \in DOMAIN Direct
  <2>1. s = calcStroke1(angles[index[j]], Direct[j])
    BY <1>1 DEF Converts
  <2>2. CASE angles[index[j]] = NaN
    BY <2>1, <2>2 DEF calcStroke1
  <2>3. CASE angles[index[j]] \in AngleRange(j)
    BY <1>1, <2>1, <2>3, DirectStroke
  <2>. QED  BY <2>2, <2>3 DEF InRange
<1>2. CASE j \in DOMAIN Single
  <2>1. s = calcStroke2(angles[index[j]], Single[j])
    BY <1>2 DEF Converts
  <2>2. CASE angles[index[j]] = NaN
    BY <2>1, <2>2 DEF calcStroke2
  <2>3. CASE angles[index[j]] \in AngleRange(j)
    <3>1. angles[index[j]] \in Commandable(j)
      BY <1>2, <2>3, KindsApart DEF AngleRange
    <3>2. PICK x \in DOMAIN Tables[Single[j][3]] : s = Trunc(Tables[Single[j][3]][x], 10)
      BY <1>2, <2>1, <3>1, SingleStroke
    <3>3. /\ Tables[Single[j][3]][x] \in Int
          /\ Distance(Tables[Single[j][3]][x], 0) <= 163830
      BY <1>2, SingleTable, TableFacts
    <3>4. s \in Int /\ Distance(s, 0) <= 32766
      <4>. DEFINE v == Tables[Single[j][3]][x]
      <4>1. v \in Int /\ Distance(v, 0) <= 163830
        BY <3>3
      <4>2. s = Trunc(v, 10)
        BY <3>2
      <4>. HIDE DEF s, v
      <4>3. Distance(v, 0) <= 327669
        BY SMT, <4>1 DEF Distance
      <4>. QED  BY SMT, <4>1, <4>2, <4>3, TruncTenBound
    <3>5. j \notin Thumbs /\ j \notin DOMAIN Direct
      BY <1>2, KindsApart, DirectNames DEF Thumbs
    <3>. HIDE DEF s
    <3>6. s \in StrokeRange(j)
      BY SMT, <3>4, <3>5 DEF StrokeRange
    <3>. QED  BY <3>6 DEF s
  <2>. QED  BY <2>2, <2>3 DEF InRange
<1>3. ASSUME NEW d \in DOMAIN Dual, NEW k \in {1, 2}, j = Dual[d].in[k]
      PROVE  s \in StrokeRange(j) \union {NoStroke}
  <2>. DEFINE p == angles[index[Dual[d].in[1]]]
              r == angles[index[Dual[d].in[2]]]
              i == IF j = Dual[d].out[1] THEN 1 ELSE 2
  <2>1. s = calcStroke3(p, r, Dual[d])[i]
    BY <1>3 DEF Converts
  <2>2. i \in {1, 2}
    OBVIOUS
  <2>. HIDE DEF i
  <2>3. CASE p = NaN \/ r = NaN
    BY <2>1, <2>2, <2>3, HalfCommanded
  <2>4. CASE p # NaN /\ r # NaN
    <3>1. p \in Commandable(Dual[d].in[1]) /\ r \in Commandable(Dual[d].in[2])
      BY <2>4, PairNotDirect DEF InRange
    <3>2. PICK x \in DOMAIN Tables[Dual[d].table[1]], y \in DOMAIN Tables[Dual[d].table[2]] :
            /\ calcStroke3(p, r, Dual[d])[1] =
                 Trunc(Tables[Dual[d].table[1]][x] + Tables[Dual[d].table[2]][y], 10)
            /\ calcStroke3(p, r, Dual[d])[2] =
                 Trunc(IF Dual[d].pitch
                         THEN Tables[Dual[d].table[2]][y] - Tables[Dual[d].table[1]][x]
                         ELSE Tables[Dual[d].table[1]][x] - Tables[Dual[d].table[2]][y], 10)
      <4>. HIDE DEF p, r
      <4>. QED  BY <3>1, PairStroke
    <3>. DEFINE P == Tables[Dual[d].table[1]][x]
                R == Tables[Dual[d].table[2]][y]
    <3>3. /\ P \in Int /\ Distance(P, 0) <= 163830
          /\ R \in Int /\ Distance(R, 0) <= 163830
      BY PairShape, TableFacts
    <3>4. s \in {Trunc(P + R, 10), Trunc(P - R, 10), Trunc(R - P, 10)}
      BY <2>1, <2>2, <3>2
    <3>. HIDE DEF P, R, s
    <3>5. /\ P + R \in Int /\ Distance(P + R, 0) <= 327669
          /\ P - R \in Int /\ Distance(P - R, 0) <= 327669
          /\ R - P \in Int /\ Distance(R - P, 0) <= 327669
      BY SMT, <3>3 DEF Distance
    <3>6. s \in Int /\ Distance(s, 0) <= 32766
      BY SMT, <3>4, <3>5, TruncTenBound
    <3>7. j \notin DOMAIN Direct /\ j \notin Thumbs
      BY <1>3, PairNotDirect, DirectNames DEF Thumbs
    <3>8. s \in StrokeRange(j)
      BY SMT, <3>6, <3>7 DEF StrokeRange
    <3>. QED  BY <3>8 DEF s
  <2>. QED  BY <2>3, <2>4
<1>. QED  BY <1>1, <1>2, <1>3, Kinds

\* A stroke is made only from a command, and one of a pair only from both.
LEMMA OnlyCommanded ==
  ASSUME NEW out, NEW angles, Converts(out, angles), NEW j \in Joints,
         out[index[j]] # NoStroke
  PROVE  \A k \in Served(j) : angles[index[k]] # NaN
<1>1. CASE j \in DOMAIN Direct
  BY <1>1, KindsApart DEF Converts, Served, calcStroke1
<1>2. CASE j \in DOMAIN Single
  BY <1>2, KindsApart DEF Converts, Served, calcStroke2
<1>3. ASSUME NEW d \in DOMAIN Dual, NEW k \in {1, 2}, j = Dual[d].in[k]
      PROVE  \A l \in Served(j) : angles[index[l]] # NaN
  <2>1. /\ j \in DualJoints /\ DualBack[j][3] = d
        /\ Range(Dual[d].in) = {Dual[d].in[1], Dual[d].in[2]}
    BY <1>3, CommandablePair, PairOf, PairShape
  <2>2. Served(j) = {Dual[d].in[1], Dual[d].in[2]}
    BY <2>1 DEF Served
  <2>. DEFINE p == angles[index[Dual[d].in[1]]]
              r == angles[index[Dual[d].in[2]]]
              i == IF j = Dual[d].out[1] THEN 1 ELSE 2
  <2>3. calcStroke3(p, r, Dual[d])[i] # NoStroke
    BY <1>3 DEF Converts
  <2>4. i \in {1, 2}
    OBVIOUS
  <2>. HIDE DEF i
  <2>5. p # NaN /\ r # NaN
    BY <2>3, <2>4, HalfCommanded
  <2>. QED  BY <2>2, <2>5
<1>. QED  BY <1>1, <1>2, <1>3, Kinds

-----------------------------------------------------------------------------
(* Stroke2Angle, place by place.                                           *)

LEMMA ReadingOfDirect ==
  ASSUME Indexed, NEW s, NEW error, NEW j \in DOMAIN Direct
  PROVE  Stroke2Angle(s, error)[index[j]] = DirectReading(j, s[index[j]], error)
<1>1. j \in Joints
  BY DEF Joints
<1>2. /\ index[j] \in Places
      /\ \E k \in Joints : index[k] = index[j]
      /\ (CHOOSE k \in Joints : index[k] = index[j]) = j
  BY <1>1, JointAt
<1>3. j \in DOMAIN DirectBack /\ j \notin DOMAIN SingleBack /\ j \notin DOMAIN DualBack
  BY KindsApart, DirectBackNames, SingleBackNames, DualNames
<1>. QED  BY <1>2, <1>3, Zenon DEF Stroke2Angle, DirectReading

LEMMA ReadingOfSingle ==
  ASSUME Indexed, NEW s, NEW error, NEW j \in DOMAIN Single
  PROVE  Stroke2Angle(s, error)[index[j]] =
           SingleBack[j][1] * setStrokeToAngle(10 * s[index[j]], Tables[Single[j][3]])
             + SingleBack[j][2]
<1>1. j \in Joints
  BY DEF Joints
<1>2. /\ index[j] \in Places
      /\ \E k \in Joints : index[k] = index[j]
      /\ (CHOOSE k \in Joints : index[k] = index[j]) = j
  BY <1>1, JointAt
<1>3. j \notin DOMAIN DirectBack /\ j \in DOMAIN SingleBack /\ j \notin DOMAIN DualBack
  BY KindsApart, DirectBackNames, SingleBackNames, DualNames
<1>. QED  BY <1>2, <1>3, Zenon DEF Stroke2Angle

LEMMA ReadingOfPair ==
  ASSUME Indexed, NEW s, NEW error, NEW d \in DOMAIN Dual, NEW k \in {1, 2}
  PROVE  Stroke2Angle(s, error)[index[Dual[d].in[k]]] =
           DualBack[Dual[d].in[k]][2] *
             setStrokeToAngle(5 * (s[index[Dual[d].in[2]]]
                                     + DualBack[Dual[d].in[k]][1] * s[index[Dual[d].in[1]]]),
                              Tables[Dual[d].table[k]])
<1>. DEFINE j == Dual[d].in[k]
<1>1. j \in DualJoints /\ DualBack[j][3] = d
  BY CommandablePair, PairOf
<1>2. j \in Joints
  BY <1>1 DEF Joints
<1>3. /\ index[j] \in Places
      /\ \E l \in Joints : index[l] = index[j]
      /\ (CHOOSE l \in Joints : index[l] = index[j]) = j
  BY <1>2, JointAt
<1>4. j \notin DOMAIN DirectBack /\ j \notin DOMAIN SingleBack /\ j \in DOMAIN DualBack
  BY <1>1, KindsApart, DirectBackNames, SingleBackNames, DualNames
<1>5. (IF j = Dual[d].in[1] THEN 1 ELSE 2) = k
  BY PairShape
<1>. HIDE DEF j
<1>6. Stroke2Angle(s, error)[index[j]] =
        DualBack[j][2] *
          setStrokeToAngle(5 * (s[index[Dual[d].in[2]]]
                                  + DualBack[j][1] * s[index[Dual[d].in[1]]]),
                           Tables[Dual[d].table[k]])
  BY <1>1, <1>3, <1>4, <1>5, Zenon DEF Stroke2Angle
<1>. QED  BY <1>6 DEF j

\* The sign of a reading is that of the command, or the other one, for the
\* joints whose table goes equally far to both sides.
LEMMA PairBackShape ==
  \A d \in DOMAIN Dual : \A k \in {1, 2} :
    LET j == Dual[d].in[k]
    IN  /\ DualBack[j][1] \in {1, -1}
        /\ IF j \in Mirrored
             THEN /\ DualBack[j][2] = -Dual[d].dir[k]
                  /\ Dual[d].table[k] \in {"waist_r", "wrist_p"}
             ELSE DualBack[j][2] = Dual[d].dir[k]
<1>1. ASSUME NEW d \in DOMAIN Dual, NEW j, j = Dual[d].in[1]
      PROVE  /\ DualBack[j][1] \in {1, -1}
             /\ IF j \in Mirrored
                  THEN /\ DualBack[j][2] = -Dual[d].dir[1]
                       /\ Dual[d].table[1] \in {"waist_r", "wrist_p"}
                  ELSE DualBack[j][2] = Dual[d].dir[1]
  BY <1>1, PairNames DEF Dual, DualBack, Mirrored
<1>2. ASSUME NEW d \in DOMAIN Dual, NEW j, j = Dual[d].in[2]
      PROVE  /\ DualBack[j][1] \in {1, -1}
             /\ IF j \in Mirrored
                  THEN /\ DualBack[j][2] = -Dual[d].dir[2]
                       /\ Dual[d].table[2] \in {"waist_r", "wrist_p"}
                  ELSE DualBack[j][2] = Dual[d].dir[2]
  BY <1>2, PairNames DEF Dual, DualBack, Mirrored
<1>. QED  BY <1>1, <1>2

\* What is read can be commanded, whatever the actuators of the pair do.
LEMMA PairReading ==
  ASSUME NEW d \in DOMAIN Dual, NEW k \in {1, 2},
         NEW x \in DOMAIN Tables[Dual[d].table[k]]
  PROVE  DualBack[Dual[d].in[k]][2] * x \in Commandable(Dual[d].in[k])
<1>. DEFINE j == Dual[d].in[k]
            t == Tables[Dual[d].table[k]]
<1>1. Commandable(j) = { Dual[d].dir[k] * z : z \in DOMAIN t }
  BY CommandablePair
<1>2. Dual[d].dir[k] \in {1, -1} /\ x \in Int
  BY PairShape, TableFacts
<1>3. CASE j \notin Mirrored
  BY <1>1, <1>3, PairBackShape
<1>4. CASE j \in Mirrored
  <2>1. /\ DualBack[j][2] = -Dual[d].dir[k]
        /\ Dual[d].table[k] \in {"waist_r", "wrist_p"}
    BY <1>4, PairBackShape
  <2>2. -x \in DOMAIN t
    BY <2>1, MirrorAssumption
  <2>3. DualBack[j][2] * x = Dual[d].dir[k] * (-x)
    BY <1>2, <2>1
  <2>. QED  BY <1>1, <2>2, <2>3
<1>. QED  BY <1>3, <1>4

LEMMA ReadingsInRange ==
  ASSUME Indexed, NEW s, \A j \in Joints : s[index[j]] \in StrokeRange(j),
         NEW error \in RoundingErrors, NEW j \in Joints
  PROVE  Stroke2Angle(s, error)[index[j]] \in AngleRange(j)
<1>1. CASE j \in DOMAIN Direct
  BY <1>1, ReadingOfDirect, DirectReadingInRange
<1>2. CASE j \in DOMAIN Single
  <2>1. 10 * s[index[j]] \in Int
    BY DEF StrokeRange
  <2>2. setStrokeToAngle(10 * s[index[j]], Tables[Single[j][3]])
          \in DOMAIN Tables[Single[j][3]]
    BY <1>2, <2>1, InverseFacts, SingleTable
  <2>3. Stroke2Angle(s, error)[index[j]] \in Commandable(j)
    BY <1>2, <2>2, ReadingOfSingle, SingleReading
  <2>. QED  BY <1>2, <2>3, KindsApart DEF AngleRange
<1>3. ASSUME NEW d \in DOMAIN Dual, NEW k \in {1, 2}, j = Dual[d].in[k]
      PROVE  Stroke2Angle(s, error)[index[j]] \in AngleRange(j)
  <2>. DEFINE half == 5 * (s[index[Dual[d].in[2]]]
                            + DualBack[j][1] * s[index[Dual[d].in[1]]])
  <2>1. half \in Int
    <3>1. s[index[Dual[d].in[1]]] \in Int /\ s[index[Dual[d].in[2]]] \in Int
      BY PairNotDirect DEF StrokeRange
    <3>2. DualBack[j][1] \in {1, -1}
      BY <1>3, PairBackShape
    <3>. QED  BY <3>1, <3>2
  <2>. HIDE DEF half
  <2>2. setStrokeToAngle(half, Tables[Dual[d].table[k]]) \in DOMAIN Tables[Dual[d].table[k]]
    BY <2>1, InverseFacts, PairShape
  <2>3. Stroke2Angle(s, error)[index[j]] =
          DualBack[j][2] * setStrokeToAngle(half, Tables[Dual[d].table[k]])
    <3>1. Stroke2Angle(s, error)[index[Dual[d].in[k]]] =
            DualBack[Dual[d].in[k]][2] *
              setStrokeToAngle(5 * (s[index[Dual[d].in[2]]]
                 + DualBack[Dual[d].in[k]][1] * s[index[Dual[d].in[1]]]),
                 Tables[Dual[d].table[k]])
      BY ReadingOfPair
    <3>. QED  BY <1>3, <3>1 DEF half
  <2>4. Stroke2Angle(s, error)[index[j]] \in Commandable(j)
    BY <1>3, <2>2, <2>3, PairReading
  <2>. QED  BY <1>3, <2>4, PairNotDirect
<1>. QED  BY <1>1, <1>2, <1>3, Kinds

-----------------------------------------------------------------------------
(* The inductive invariant.                                                *)

\* ReadBack and SpeedKept compare what was written with what the actuators do;
\* neither says where a value that is not yet compared may be.  The invariant
\* gives every vector its range and ties the strokes to the angles and the
\* actuator speeds to the joint speeds.
WrittenInRange ==
  (\A i \in Places : written[i] \in Int \union {NaN}) /\ InRange(written)

Converted ==
  /\ strokes \in [Places -> Int16]
  /\ Converts(strokes, written)

ActuatorsInRange ==
  /\ actuator \in [Places -> Int]
  /\ \A i \in Places : Distance(actuator[i], 0) <= 32766
  /\ \A j \in Joints : actuator[index[j]] \in StrokeRange(j)

SpeedsConverted ==
  /\ joint_vel \in [Places -> Speeds \union {NaN}]
  /\ actuator_vel = calcActuatorVel(joint_vel)

IInv ==
  /\ Indexed
  /\ group \subseteq Joints
  /\ WrittenInRange
  /\ Converted
  /\ ActuatorsInRange
  /\ SpeedsConverted

LEMMA CommandInRange ==
  ASSUME NEW j \in Joints
  PROVE  Commandable(j) \subseteq AngleRange(j)
<1>1. CASE j \in DOMAIN Direct
  <2>1. Commandable(j) = DirectAngles
    BY <1>1, KindsApart DEF Commandable
  <2>. QED  BY <1>1, <2>1, DirectCommand
<1>2. CASE j \notin DOMAIN Direct
  BY <1>2 DEF AngleRange
<1>. QED  BY <1>1, <1>2

LEMMA ServedFacts ==
  ASSUME NEW j \in Joints
  PROVE  j \in Served(j) /\ Served(j) \subseteq Joints
<1>1. CASE j \in DualJoints
  <2>1. PICK d \in DOMAIN Dual : j \in Range(Dual[d].in)
    BY <1>1 DEF DualJoints
  <2>2. Served(j) = Range(Dual[d].in)
    BY <1>1, <2>1, PairOf DEF Served
  <2>3. Range(Dual[d].in) \subseteq DualJoints
    BY DEF DualJoints
  <2>. QED  BY <2>1, <2>2, <2>3 DEF Joints
<1>2. CASE j \notin DualJoints
  BY <1>2 DEF Served
<1>. QED  BY <1>1, <1>2

LEMMA Int16Facts ==
  /\ \A x : x \in Int16 <=> x \in Int /\ Int16Min <= x /\ x <= NoStroke
  /\ Int16Min = -32768 /\ NoStroke = 32767
<1>1. Int16Min = -32768 /\ NoStroke = 32767
  BY SMT DEF Int16Min, NoStroke
<1>2. Int16Min \in Int /\ NoStroke \in Int
  BY SMT, <1>1
<1>3. \A x : x \in Int16 <=> x \in Int /\ Int16Min <= x /\ x <= NoStroke
  BY SMT, <1>2 DEF Int16
<1>. QED  BY <1>1, <1>3

\* Every stroke of the ranges fits int16_t and is not "no command".
LEMMA RangeFits ==
  /\ NoStroke \in Int16
  /\ \A x \in Int : Distance(x, 0) <= 32766 => x \in Int16 /\ x # NoStroke
  /\ \A j : StrokeRange(j) \subseteq Int16 /\ NoStroke \notin StrokeRange(j)
  /\ \A j : \A x \in StrokeRange(j) : x \in Int /\ Distance(x, 0) <= 32766
<1>1. NoStroke \in Int16
  BY SMT, Int16Facts
<1>2. ASSUME NEW x \in Int, Distance(x, 0) <= 32766
      PROVE  x \in Int16 /\ x # NoStroke
  <2>1. -32766 <= x /\ x <= 32766
    BY SMT, <1>2 DEF Distance
  <2>2. Int16Min <= x /\ x <= NoStroke /\ x # NoStroke
    BY SMT, <2>1, Int16Facts
  <2>. QED  BY <2>2, Int16Facts
<1>3. \A j : \A x \in StrokeRange(j) : x \in Int /\ Distance(x, 0) <= 32766
  BY SMT DEF StrokeRange, Distance
<1>. QED  BY <1>1, <1>2, <1>3

LEMMA InitInv == Init => IInv
<1>. SUFFICES ASSUME Init PROVE IInv
  OBVIOUS
<1>1. Indexed
  BY DEF Init, Indexed
<1>2. group \subseteq Joints
  BY GroupsAssumption DEF Init
<1>3. WrittenInRange
  BY <1>1, IndexFacts DEF Init, WrittenInRange, InRange, Nothing
<1>4. Converted
  <2>1. strokes = [i \in Places |-> NoStroke] /\ written = Nothing
    BY DEF Init
  <2>2. \A j \in Joints : strokes[index[j]] = NoStroke /\ written[index[j]] = NaN
    BY <1>1, <2>1, IndexFacts DEF Nothing
  <2>3. /\ \A j \in DOMAIN Direct :
             strokes[index[j]] = calcStroke1(written[index[j]], Direct[j])
        /\ \A j \in DOMAIN Single :
             strokes[index[j]] = calcStroke2(written[index[j]], Single[j])
    BY <2>2 DEF calcStroke1, calcStroke2, Joints
  <2>4. ASSUME NEW d \in DOMAIN Dual, NEW k \in {1, 2}
        PROVE  strokes[index[Dual[d].in[k]]] =
                 calcStroke3(written[index[Dual[d].in[1]]], written[index[Dual[d].in[2]]],
                             Dual[d])[IF Dual[d].in[k] = Dual[d].out[1] THEN 1 ELSE 2]
    <3>1. Dual[d].in[1] \in Joints /\ Dual[d].in[k] \in Joints
      BY PairNotDirect
    <3>. QED  BY <2>2, <3>1, HalfCommanded
  <2>5. strokes \in [Places -> Int16] /\ \A i \in Places : strokes[i] = NoStroke
    BY <2>1, RangeFits
  <2>. QED  BY <2>3, <2>4, <2>5 DEF Converted, Converts
<1>5. ActuatorsInRange
  <2>1. actuator = [i \in Places |-> 0]
    BY DEF Init
  <2>2. Distance(0, 0) = 0
    BY DEF Distance
  <2>3. \A j \in Joints : actuator[index[j]] = 0
    BY <1>1, <2>1, IndexFacts
  <2>4. \A j : 0 \in StrokeRange(j)
    BY SMT, <2>2 DEF StrokeRange
  <2>5. \A i \in Places : Distance(actuator[i], 0) <= 32766
    BY SMT, <2>1, <2>2
  <2>. QED  BY <2>1, <2>3, <2>4, <2>5 DEF ActuatorsInRange
<1>6. SpeedsConverted
  <2>1. joint_vel \in [Places -> Speeds \union {NaN}]
    BY DEF Init, Nothing
  <2>2. actuator_vel = calcActuatorVel(joint_vel)
    BY DEF Init, Nothing, calcActuatorVel
  <2>. QED  BY <2>1, <2>2 DEF SpeedsConverted
<1>. QED  BY <1>1, <1>2, <1>3, <1>4, <1>5, <1>6 DEF IInv

\* A control cycle that commands only angles in range keeps the invariant.
LEMMA WriteInv ==
  ASSUME IInv, NEW angles, Write(angles),
         \A i \in Places : angles[i] \in Int \union {NaN},
         InRange(angles)
  PROVE  IInv'
<1>1. index' = index /\ group' = group /\ written' = angles
  BY DEF Write
<1>2. Indexed' /\ (group \subseteq Joints)'
  BY <1>1 DEF IInv, Indexed
<1>3. WrittenInRange'
  BY <1>1 DEF WrittenInRange, InRange
<1>4. Converted'
  <2>1. strokes' = Angle2Stroke(angles)
    BY DEF Write
  <2>2. Converts(strokes', written')
    BY <1>1, <2>1, AnglesConvert DEF IInv
  <2>3. strokes' \in [Places -> Int16]
    <3>1. ASSUME NEW i \in Places PROVE strokes'[i] \in Int16
      <4>1. CASE \E j \in Joints : index[j] = i
        <5>1. PICK j \in Joints : index[j] = i
          BY <4>1
        <5>2. strokes'[index[j]] \in StrokeRange(j) \union {NoStroke}
          BY <1>1, <2>2, StrokesInRange
        <5>. QED  BY <5>1, <5>2, RangeFits
      <4>2. CASE ~ \E j \in Joints : index[j] = i
        BY <2>2, <4>2, RangeFits DEF Converts
      <4>. QED  BY <4>1, <4>2
    <3>. QED  BY <2>1, <3>1, StrokesAreFunction
  <2>. QED  BY <1>1, <2>2, <2>3 DEF Converted, Converts
<1>5. ActuatorsInRange' /\ SpeedsConverted'
  BY DEF IInv, Write, ActuatorsInRange, SpeedsConverted
<1>. QED  BY <1>2, <1>3, <1>4, <1>5 DEF IInv

\* What the controllers of the group make of a function of its joints.
LEMMA GroupAngles ==
  ASSUME IInv, NEW angles, DOMAIN angles = Places,
         NEW new,
         \A i \in Places :
           angles[i] = IF \E j \in group : index[j] = i
                         THEN new[CHOOSE j \in group : index[j] = i]
                         ELSE NaN,
         \A j \in group : new[j] \in AngleRange(j) \union {NaN}
  PROVE  /\ \A i \in Places : angles[i] \in Int \union {NaN}
         /\ InRange(angles)
<1>1. Indexed /\ group \subseteq Joints
  BY DEF IInv
<1>2. ASSUME NEW j \in group
      PROVE  angles[index[j]] = new[j]
  <2>1. /\ index[j] \in Places
        /\ \E k \in group : index[k] = index[j]
        /\ (CHOOSE k \in group : index[k] = index[j]) = j
    BY <1>1, <1>2, JointAt
  <2>. QED  BY <2>1
<1>3. \A i \in Places : angles[i] \in Int \union {NaN}
  <2>. SUFFICES ASSUME NEW i \in Places
                PROVE  angles[i] \in Int \union {NaN}
    OBVIOUS
  <2>1. CASE \E j \in group : index[j] = i
    <3>1. PICK j \in group : index[j] = i
      BY <2>1
    <3>2. angles[i] \in AngleRange(j) \union {NaN}
      BY <1>2, <3>1
    <3>. QED  BY <1>1, <3>2, AnglesAreInt
  <2>2. CASE ~ \E j \in group : index[j] = i
    BY <2>2
  <2>. QED  BY <2>1, <2>2
<1>4. ASSUME NEW j \in Joints
      PROVE  angles[index[j]] \in AngleRange(j) \union {NaN}
  <2>1. CASE j \in group
    BY <1>2, <2>1
  <2>2. CASE j \notin group
    <3>1. index[j] \in Places /\ \A k \in group : index[k] # index[j]
      BY <1>1, <2>2, IndexFacts DEF IsInjective
    <3>. QED  BY <3>1
  <2>. QED  BY <2>1, <2>2
<1>. QED  BY <1>3, <1>4 DEF InRange

\* The angles a control cycle of Command and of Hold writes.
LEMMA CommandedInRange ==
  ASSUME IInv, Command
  PROVE  \E angles : /\ Write(angles)
                     /\ \A i \in Places : angles[i] \in Int \union {NaN}
                     /\ InRange(angles)
<1>1. PICK new \in [group -> UNION { Commandable(j) : j \in group } \union {NaN}] :
        /\ \A j \in group : new[j] \in Commandable(j) \union {NaN}
        /\ Write([i \in Places |->
                    IF \E j \in group : index[j] = i
                      THEN new[CHOOSE j \in group : index[j] = i]
                      ELSE NaN])
  BY DEF Command
<1>. DEFINE angles == [i \in Places |->
                         IF \E j \in group : index[j] = i
                           THEN new[CHOOSE j \in group : index[j] = i]
                           ELSE NaN]
<1>2. \A j \in group : new[j] \in AngleRange(j) \union {NaN}
  BY <1>1, CommandInRange DEF IInv
<1>3. /\ \A i \in Places : angles[i] \in Int \union {NaN}
      /\ InRange(angles)
  <2>1. /\ DOMAIN angles = Places
        /\ \A i \in Places :
             angles[i] = IF \E j \in group : index[j] = i
                           THEN new[CHOOSE j \in group : index[j] = i]
                           ELSE NaN
    OBVIOUS
  <2>. HIDE DEF angles
  <2>. QED  BY <1>2, <2>1, GroupAngles
<1>4. Write(angles)
  BY <1>1
<1>. HIDE DEF angles
<1>. QED  BY <1>3, <1>4

LEMMA HeldInRange ==
  ASSUME IInv, Hold
  PROVE  \E error \in RoundingErrors : \E angles :
           /\ Write(angles)
           /\ \A i \in Places : angles[i] \in Int \union {NaN}
           /\ InRange(angles)
           /\ \A j \in group : angles[index[j]] = Stroke2Angle(actuator, error)[index[j]]
<1>1. PICK error \in RoundingErrors :
        Write([i \in Places |->
                 IF \E j \in group : index[j] = i
                   THEN Stroke2Angle(actuator, error)[i]
                   ELSE NaN])
  BY DEF Hold
<1>. DEFINE read == Stroke2Angle(actuator, error)
            angles == [i \in Places |->
                         IF \E j \in group : index[j] = i THEN read[i] ELSE NaN]
            new == [j \in group |-> read[index[j]]]
<1>2. Write(angles)
  BY <1>1
<1>3. Indexed /\ group \subseteq Joints /\ \A j \in Joints : actuator[index[j]] \in StrokeRange(j)
  BY DEF IInv, ActuatorsInRange
<1>4. \A j \in group : new[j] \in AngleRange(j) \union {NaN}
  BY <1>3, ReadingsInRange
<1>. HIDE DEF read
<1>5. \A j \in group : angles[index[j]] = read[index[j]]
  BY <1>3, IndexFacts
<1>6. \A i \in Places :
        angles[i] = IF \E j \in group : index[j] = i
                      THEN new[CHOOSE j \in group : index[j] = i]
                      ELSE NaN
  <2>. SUFFICES ASSUME NEW i \in Places, NEW j \in group, index[j] = i
                PROVE  read[i] = new[CHOOSE k \in group : index[k] = i]
    OBVIOUS
  <2>1. (CHOOSE k \in group : index[k] = index[j]) = j
    BY <1>3, JointAt
  <2>. QED  BY <2>1
<1>7. DOMAIN angles = Places
  OBVIOUS
<1>. HIDE DEF angles, new
<1>8. /\ \A i \in Places : angles[i] \in Int \union {NaN}
      /\ InRange(angles)
  BY <1>4, <1>6, <1>7, GroupAngles
<1>. QED  BY <1>2, <1>5, <1>8 DEF read

LEMMA MoveInv ==
  ASSUME IInv, NEW i \in Places, Move(i)
  PROVE  IInv'
<1>1. /\ index' = index /\ group' = group /\ written' = written /\ strokes' = strokes
      /\ joint_vel' = joint_vel /\ actuator_vel' = actuator_vel
      /\ strokes[i] # NoStroke /\ actuator' = [actuator EXCEPT ![i] = strokes[i]]
  BY DEF Move
<1>2. Indexed' /\ (group \subseteq Joints)' /\ WrittenInRange' /\ Converted' /\ SpeedsConverted'
  BY <1>1 DEF IInv, Indexed, WrittenInRange, InRange, Converted, Converts, SpeedsConverted
<1>3. PICK j \in Joints : index[j] = i
  BY <1>1 DEF IInv, Converted, Converts
<1>4. strokes[i] \in StrokeRange(j)
  <2>1. strokes[index[j]] \in StrokeRange(j) \union {NoStroke}
    BY StrokesInRange DEF IInv, Converted, WrittenInRange
  <2>. QED  BY <1>1, <1>3, <2>1
<1>5. actuator \in [Places -> Int] /\ IInv
  BY DEF IInv, ActuatorsInRange
<1>6. \A k \in Places : actuator'[k] = IF k = i THEN strokes[i] ELSE actuator[k]
  BY <1>1, <1>5
<1>7. actuator' \in [Places -> Int] /\ \A k \in Places : Distance(actuator'[k], 0) <= 32766
  BY <1>1, <1>4, <1>5, <1>6, RangeFits DEF IInv, ActuatorsInRange
<1>8. ASSUME NEW k \in Joints
      PROVE  actuator'[index[k]] \in StrokeRange(k)
  <2>1. index[k] \in Places /\ (index[k] = i => k = j)
    BY <1>3, <1>5, IndexFacts DEF IInv, IsInjective
  <2>. QED  BY <1>4, <1>6, <2>1 DEF IInv, ActuatorsInRange
<1>9. ActuatorsInRange'
  BY <1>1, <1>7, <1>8 DEF ActuatorsInRange
<1>. QED  BY <1>2, <1>9 DEF IInv

LEMMA DriveInv ==
  ASSUME IInv, NEW w \in Wheels, Drive(w)
  PROVE  IInv'
<1>1. /\ index' = index /\ group' = group /\ written' = written /\ strokes' = strokes
      /\ actuator' = actuator /\ actuator_vel' = calcActuatorVel(joint_vel')
  BY DEF Drive
<1>2. PICK v \in Speeds \union {NaN} : joint_vel' = [Nothing EXCEPT ![index[w]] = v]
  BY DEF Drive
<1>3. joint_vel' \in [Places -> Speeds \union {NaN}]
  BY <1>2 DEF Nothing
<1>4. SpeedsConverted'
  BY <1>1, <1>3 DEF SpeedsConverted
<1>5. Indexed' /\ (group \subseteq Joints)' /\ WrittenInRange' /\ Converted' /\ ActuatorsInRange'
  BY <1>1 DEF IInv, Indexed, WrittenInRange, InRange, Converted, Converts, ActuatorsInRange
<1>. QED  BY <1>4, <1>5 DEF IInv

LEMMA StutterInv ==
  ASSUME IInv, UNCHANGED vars
  PROVE  IInv'
BY DEF IInv, vars, Indexed, WrittenInRange, InRange, Converted, Converts,
       ActuatorsInRange, SpeedsConverted

LEMMA StepInv == IInv /\ [Next]_vars => IInv'
<1>. SUFFICES ASSUME IInv, [Next]_vars PROVE IInv'
  OBVIOUS
<1>1. CASE Command
  BY <1>1, CommandedInRange, WriteInv
<1>2. CASE Hold
  BY <1>2, HeldInRange, WriteInv
<1>3. ASSUME NEW i \in Places, Move(i) PROVE IInv'
  BY <1>3, MoveInv
<1>4. ASSUME NEW w \in Wheels, Drive(w) PROVE IInv'
  BY <1>4, DriveInv
<1>5. CASE UNCHANGED vars
  BY <1>5, StutterInv
<1>. QED  BY <1>1, <1>2, <1>3, <1>4, <1>5 DEF Next

\* The strokes are always those of the last angles, and every vector stays in
\* its range, in every history of commands, holds and moves (:65-94, :118-148).
THEOREM Invariance == Spec => []IInv
<1>. QED  BY InitInv, StepInv, PTL DEF Spec

-----------------------------------------------------------------------------
(* Types, speeds and the two action properties.                            *)

LEMMA SpeedsInRange ==
  ASSUME SpeedsConverted, NEW i \in Places
  PROVE  \/ joint_vel[i] = NaN /\ actuator_vel[i] = NoStroke
         \/ /\ joint_vel[i] \in Int /\ Distance(joint_vel[i], 0) <= 327669
            /\ actuator_vel[i] = Trunc(joint_vel[i], 10)
            /\ actuator_vel[i] \in Int /\ Distance(actuator_vel[i], 0) <= 32766
<1>. DEFINE v == joint_vel[i]
<1>1. actuator_vel[i] = IF v = NaN THEN NoStroke ELSE Trunc(v, 10)
  BY DEF SpeedsConverted, calcActuatorVel
<1>2. CASE v = NaN
  BY <1>1, <1>2
<1>3. CASE v # NaN
  <2>1. v \in Int /\ Distance(v, 0) <= 327669
    BY <1>3, SpeedsAssumption DEF SpeedsConverted
  <2>2. actuator_vel[i] = Trunc(v, 10)
    BY <1>1, <1>3
  <2>. HIDE DEF v
  <2>3. Trunc(v, 10) \in Int /\ Distance(Trunc(v, 10), 0) <= 32766
    BY SMT, <2>1, TruncTenBound
  <2>. QED  BY <2>1, <2>2, <2>3 DEF v
<1>. QED  BY <1>2, <1>3

LEMMA InvTypes == IInv => TypeOK
<1>. SUFFICES ASSUME IInv PROVE TypeOK
  OBVIOUS
<1>1. index \in [Joints \union Wheels -> Places] /\ IsInjective(index)
  BY IndexFacts DEF IInv
<1>2. group \subseteq Joints /\ \A i \in Places : written[i] \in Int \union {NaN}
  BY DEF IInv, WrittenInRange
<1>3. strokes \in [Places -> Int16]
  BY DEF IInv, Converted
<1>4. actuator \in [Places -> Int16 \ {NoStroke}]
  BY RangeFits DEF IInv, ActuatorsInRange
<1>5. ASSUME NEW i \in Places
      PROVE  joint_vel[i] \in Int \union {NaN} /\ actuator_vel[i] \in Int16
  BY SpeedsInRange, RangeFits DEF IInv
<1>6. actuator_vel \in [Places -> Int16]
  BY <1>5 DEF IInv, SpeedsConverted, calcActuatorVel
<1>. QED  BY <1>1, <1>2, <1>3, <1>4, <1>5, <1>6 DEF TypeOK

\* Every vector keeps its length and its type; no stroke overflows int16_t, and
\* none but "no command" is 0x7FFF.
THEOREM TypeCorrect == Spec => []TypeOK
<1>. QED  BY Invariance, InvTypes, PTL

LEMMA InvSpeedKept == IInv => SpeedKept
<1>. SUFFICES ASSUME IInv, NEW i \in Places
              PROVE  LET v    == joint_vel[i]
                         back == calcJointVel(actuator_vel)[i]
                     IN  /\ back = NaN <=> v = NaN
                         /\ v # NaN => /\ Distance(back, 0) <= Distance(v, 0)
                                       /\ Distance(back, v) < 10
  BY DEF SpeedKept
<1>. DEFINE v    == joint_vel[i]
            a    == actuator_vel[i]
            back == calcJointVel(actuator_vel)[i]
<1>1. back = IF a = NoStroke THEN NaN ELSE 10 * a
  BY DEF calcJointVel
<1>2. \/ v = NaN /\ a = NoStroke
      \/ /\ v \in Int /\ a = Trunc(v, 10)
         /\ a \in Int /\ Distance(a, 0) <= 32766
  BY SpeedsInRange DEF IInv
<1>. HIDE DEF back, v, a
<1>3. CASE v = NaN
  <2>1. a = NoStroke
    BY <1>2, <1>3, NaNAssumption
  <2>. QED  BY <1>1, <1>3, <2>1 DEF v, back
<1>4. CASE v # NaN
  <2>1. /\ v \in Int /\ a = Trunc(v, 10)
        /\ a \in Int /\ Distance(a, 0) <= 32766
    BY <1>2, <1>4
  <2>2. a # NoStroke
    BY <2>1, RangeFits
  <2>3. back = 10 * a /\ back \in Int /\ back # NaN
    BY <1>1, <2>1, <2>2, NaNAssumption
  <2>4. /\ v >= 0 => 0 <= a /\ 10 * a <= v /\ v <= 10 * a + 9
        /\ v <= 0 => a <= 0 /\ v <= 10 * a /\ 10 * a <= v + 9
    BY SMT, <2>1 DEF Trunc
  <2>5. Distance(back, 0) <= Distance(v, 0) /\ Distance(back, v) < 10
    BY SMT, <2>1, <2>3, <2>4 DEF Distance
  <2>. QED  BY <1>4, <2>3, <2>5 DEF v, back
<1>. QED  BY <1>3, <1>4

\* A wheel that is told to stand still is not a wheel that is told nothing, and
\* no conversion makes it faster or turns it round (:198-216).
THEOREM SpeedSurvives == Spec => []SpeedKept
<1>. QED  BY Invariance, InvSpeedKept, PTL

\* An actuator moves only for joints that are commanded, and one of a pair only
\* if both of its joints are (:51-55).
THEOREM NoMoveUncommanded == Spec => MovesOnlyCommanded
<1>. DEFINE A == \A j \in Joints : actuator'[index[j]] # actuator[index[j]] =>
                   \A k \in Served(j) : written[index[k]] # NaN
<1>1. IInv /\ [Next]_vars => [A]_vars
  <2>. SUFFICES ASSUME IInv, [Next]_vars, NEW j \in Joints,
                       actuator'[index[j]] # actuator[index[j]]
                PROVE  \A k \in Served(j) : written[index[k]] # NaN
    BY DEF vars
  <2>1. PICK i \in Places : Move(i)
    <3>1. ~ UNCHANGED actuator
      OBVIOUS
    <3>. QED  BY <3>1 DEF Next, vars, Command, Hold, Write, Drive
  <2>2. strokes[i] # NoStroke /\ actuator' = [actuator EXCEPT ![i] = strokes[i]]
    BY <2>1 DEF Move
  <2>3. index[j] = i
    BY <2>2, IndexFacts DEF IInv, ActuatorsInRange
  <2>. QED  BY <2>2, <2>3, OnlyCommanded DEF IInv, Converted
<1>. QED  BY <1>1, Invariance, PTL DEF Spec, MovesOnlyCommanded

\* Commanding what is read, over and over, never lets a joint without a table
\* run away (:74-80 against :121-134).
THEOREM HoldIsStable == Spec => HoldCreepsInward
<1>. DEFINE A == Hold => \A j \in group \intersect DOMAIN Direct :
                   LET i == index[j]
                   IN  IF j \in {"l_thumb", "r_thumb"}
                         THEN strokes'[i] = actuator[i]
                         ELSE Distance(strokes'[i], 0) \in
                                { Distance(actuator[i], 0) - 1, Distance(actuator[i], 0) }
<1>1. IInv => A
  <2>. SUFFICES ASSUME IInv, Hold, NEW j \in group \intersect DOMAIN Direct
                PROVE  IF j \in Thumbs
                         THEN strokes'[index[j]] = actuator[index[j]]
                         ELSE Distance(strokes'[index[j]], 0) \in
                                { Distance(actuator[index[j]], 0) - 1,
                                  Distance(actuator[index[j]], 0) }
    BY DEF Thumbs
  <2>0. PICK error \in RoundingErrors : \E angles :
          /\ Write(angles)
          /\ \A k \in group : angles[index[k]] = Stroke2Angle(actuator, error)[index[k]]
    BY HeldInRange
  <2>1. PICK angles :
          /\ Write(angles)
          /\ angles[index[j]] = Stroke2Angle(actuator, error)[index[j]]
    BY <2>0
  <2>2. Indexed /\ actuator[index[j]] \in StrokeRange(j)
    BY DEF IInv, ActuatorsInRange
  <2>3. strokes'[index[j]] = calcStroke1(angles[index[j]], Direct[j])
    BY <2>1, <2>2, StrokeOfDirect DEF Write
  <2>4. angles[index[j]] = DirectReading(j, actuator[index[j]], error)
    BY <2>1, <2>2, ReadingOfDirect
  <2>. QED  BY <2>2, <2>3, <2>4, DirectHold
<1>2. IInv /\ [Next]_vars => [A]_vars
  BY <1>1
<1>. QED  BY <1>2, Invariance, PTL DEF Spec, HoldCreepsInward

-----------------------------------------------------------------------------
(* What is read back is what was commanded.                                *)

\* Half the sum of the strokes of a sum and of a difference.
LEMMA HalfSum ==
  ASSUME NEW P \in Int, NEW R \in Int
  PROVE  /\ 5 * (Trunc(P + R, 10) + Trunc(P - R, 10)) \in Int
         /\ Distance(P, 5 * (Trunc(P + R, 10) + Trunc(P - R, 10))) <= 9
<1>. DEFINE u == P + R
            w == P - R
            a == Trunc(u, 10)
            b == Trunc(w, 10)
<1>1. u \in Int /\ w \in Int /\ u + w = 2 * P
  OBVIOUS
<1>. HIDE DEF u, w
<1>2. a \in Int /\ 10 * a <= u + 9 /\ u <= 10 * a + 9
  BY SMT, <1>1 DEF Trunc
<1>3. b \in Int /\ 10 * b <= w + 9 /\ w <= 10 * b + 9
  BY SMT, <1>1 DEF Trunc
<1>. HIDE DEF a, b
<1>4. 5 * (a + b) \in Int /\ Distance(P, 5 * (a + b)) <= 9
  BY SMT, <1>1, <1>2, <1>3 DEF Distance
<1>. QED  BY <1>4 DEF a, b, u, w

LEMMA HalfDifference ==
  ASSUME NEW P \in Int, NEW R \in Int
  PROVE  /\ 5 * (Trunc(P - R, 10) - Trunc(P + R, 10)) \in Int
         /\ Distance(-R, 5 * (Trunc(P - R, 10) - Trunc(P + R, 10))) <= 9
<1>. DEFINE u == P + R
            w == P - R
            a == Trunc(u, 10)
            b == Trunc(w, 10)
<1>1. u \in Int /\ w \in Int /\ w - u = -2 * R
  OBVIOUS
<1>. HIDE DEF u, w
<1>2. a \in Int /\ 10 * a <= u + 9 /\ u <= 10 * a + 9
  BY SMT, <1>1 DEF Trunc
<1>3. b \in Int /\ 10 * b <= w + 9 /\ w <= 10 * b + 9
  BY SMT, <1>1 DEF Trunc
<1>. HIDE DEF a, b
<1>4. 5 * (b - a) \in Int /\ Distance(-R, 5 * (b - a)) <= 9
  BY SMTT(30), <1>1, <1>2, <1>3 DEF Distance
<1>. QED  BY <1>4 DEF a, b, u, w

\* The two strokes of a pair, told apart again: the table entry of each of its
\* joints, with the other sign for the joints in Mirrored.
LEMMA PairHalf ==
  ASSUME NEW d \in DOMAIN Dual, NEW k \in {1, 2}, NEW P \in Int, NEW R \in Int,
         NEW c, c[1] = Trunc(P + R, 10),
         c[2] = Trunc(IF Dual[d].pitch THEN R - P ELSE P - R, 10),
         NEW s1, s1 = c[IF Dual[d].in[1] = Dual[d].out[1] THEN 1 ELSE 2],
         NEW s2, s2 = c[IF Dual[d].in[2] = Dual[d].out[1] THEN 1 ELSE 2],
         NEW half, half = 5 * (s2 + DualBack[Dual[d].in[k]][1] * s1)
  PROVE  /\ half \in Int
         /\ LET V == IF k = 1 THEN P ELSE R
            IN  Distance(IF Dual[d].in[k] \in Mirrored THEN -V ELSE V, half) <= 9
<1>. DEFINE b == DualBack[Dual[d].in[k]][1]
<1>0. Trunc(P + R, 10) \in Int /\ Trunc(P - R, 10) \in Int /\ Trunc(R - P, 10) \in Int
  BY SMT DEF Trunc
<1>1. CASE d = "waist"
  <2>1. s1 = Trunc(P + R, 10) /\ s2 = Trunc(P - R, 10)
    BY <1>1 DEF Dual
  <2>2. CASE k = 1
    <3>1. b = 1 /\ Dual[d].in[k] \notin Mirrored
      BY <1>1, <2>2 DEF Dual, DualBack, Mirrored
    <3>2. half = 5 * (Trunc(P + R, 10) + Trunc(P - R, 10))
      BY <1>0, <2>1, <3>1
    <3>. QED  BY <2>2, <3>1, <3>2, HalfSum
  <2>3. CASE k = 2
    <3>1. b = -1 /\ Dual[d].in[k] \in Mirrored
      BY <1>1, <2>3 DEF Dual, DualBack, Mirrored
    <3>2. half = 5 * (Trunc(P - R, 10) - Trunc(P + R, 10))
      BY <1>0, <2>1, <3>1
    <3>. QED  BY <2>3, <3>1, <3>2, HalfDifference
  <2>. QED  BY <2>2, <2>3
<1>2. CASE d \in {"l_wrist", "r_wrist"}
  <2>1. s1 = Trunc(P + R, 10) /\ s2 = Trunc(R - P, 10)
    <3>1. CASE d = "l_wrist"
      BY <3>1 DEF Dual
    <3>2. CASE d = "r_wrist"
      BY <3>2 DEF Dual
    <3>. QED  BY <1>2, <3>1, <3>2
  <2>2. CASE k = 1
    <3>1. b = -1 /\ Dual[d].in[k] \in Mirrored
      <4>1. CASE d = "l_wrist"
        BY <2>2, <4>1 DEF Dual, DualBack, Mirrored
      <4>2. CASE d = "r_wrist"
        BY <2>2, <4>2 DEF Dual, DualBack, Mirrored
      <4>. QED  BY <1>2, <4>1, <4>2
    <3>2. half = 5 * (Trunc(R - P, 10) - Trunc(R + P, 10))
      <4>1. P + R = R + P
        OBVIOUS
      <4>. QED  BY <1>0, <2>1, <3>1, <4>1
    <3>. QED  BY <2>2, <3>1, <3>2, HalfDifference
  <2>3. CASE k = 2
    <3>1. b = 1 /\ Dual[d].in[k] \notin Mirrored
      <4>1. CASE d = "l_wrist"
        BY <2>3, <4>1 DEF Dual, DualBack, Mirrored
      <4>2. CASE d = "r_wrist"
        BY <2>3, <4>2 DEF Dual, DualBack, Mirrored
      <4>. QED  BY <1>2, <4>1, <4>2
    <3>2. half = 5 * (Trunc(R + P, 10) + Trunc(R - P, 10))
      <4>1. P + R = R + P
        OBVIOUS
      <4>. QED  BY <1>0, <2>1, <3>1, <4>1
    <3>3. half \in Int /\ Distance(R, half) <= 9
      BY <3>2, HalfSum
    <3>. QED  BY <2>3, <3>1, <3>3
  <2>. QED  BY <2>2, <2>3
<1>3. CASE d = "neck"
  <2>1. s1 = Trunc(P - R, 10) /\ s2 = Trunc(P + R, 10)
    BY <1>3 DEF Dual
  <2>2. CASE k = 1
    <3>1. b = 1 /\ Dual[d].in[k] \notin Mirrored
      BY <1>3, <2>2 DEF Dual, DualBack, Mirrored
    <3>2. half = 5 * (Trunc(P + R, 10) + Trunc(P - R, 10))
      BY <1>0, <2>1, <3>1
    <3>. QED  BY <2>2, <3>1, <3>2, HalfSum
  <2>3. CASE k = 2
    <3>1. b = -1 /\ Dual[d].in[k] \notin Mirrored
      BY <1>3, <2>3 DEF Dual, DualBack, Mirrored
    <3>2. half = -(5 * (Trunc(P - R, 10) - Trunc(P + R, 10)))
      BY <1>0, <2>1, <3>1
    <3>3. half \in Int /\ Distance(R, half) <= 9
      BY SMT, <1>0, <3>2, HalfDifference DEF Distance
    <3>. QED  BY <2>3, <3>1, <3>3
  <2>. QED  BY <2>2, <2>3
<1>. QED  BY <1>1, <1>2, <1>3, PairNames

\* Through a nearly symmetric table, a point whose entry has changed its sign
\* is read as the point on the other side of 0, or one next to it.
LEMMA InverseMirrored ==
  ASSUME NEW n \in TableNames, n \in {"waist_r", "wrist_p"},
         NEW x \in DOMAIN Tables[n], NEW s \in Int, Distance(-Tables[n][x], s) <= 9
  PROVE  Distance(setStrokeToAngle(s, Tables[n]), -x) <= 1
<1>. DEFINE t == Tables[n]
            z == setStrokeToAngle(s, t)
<1>1. -x \in DOMAIN t /\ z \in DOMAIN t
  BY MirrorAssumption, InverseFacts
<1>2. Distance(t[z], s) <= Distance(t[-x], s)
  BY <1>1, InverseFacts
<1>3. t[x] \in Int /\ t[z] \in Int /\ t[-x] \in Int /\ x \in Int /\ z \in Int
  BY <1>1, TableFacts
<1>4. Distance(z, -x) > 1 => Distance(t[z], -t[x]) > Distance(t[-x], -t[x]) + 18
  BY <1>1, MirrorAssumption
<1>. DEFINE a == t[x]
            b == t[z]
            c == t[-x]
<1>5. /\ a \in Int /\ b \in Int /\ c \in Int
      /\ Distance(-a, s) <= 9 /\ Distance(b, s) <= Distance(c, s)
  BY <1>2, <1>3
<1>. HIDE DEF a, b, c
<1>6. Distance(b, -a) <= Distance(c, -a) + 18
  BY SMT, <1>5 DEF Distance
<1>7. ~ (Distance(z, -x) > 1)
  <2>1. Distance(b, -a) \in Nat /\ Distance(c, -a) \in Nat
    BY <1>5, DistanceFacts
  <2>2. ~ (Distance(b, -a) > Distance(c, -a) + 18)
    BY <1>6, <2>1
  <2>. QED  BY <1>4, <2>2 DEF a, b, c
<1>8. Distance(z, -x) \in Nat
  <2>1. -x \in Int
    BY <1>3
  <2>. QED  BY <1>3, <2>1, DistanceFacts
<1>. QED  BY <1>7, <1>8

LEMMA InvReadBack == IInv => ReadBack
<1>. SUFFICES ASSUME IInv, NEW j \in group, Arrived(j), NEW error \in RoundingErrors
              PROVE  Distance(Stroke2Angle(actuator, error)[index[j]], written[index[j]])
                       <= Tolerance(j)
  BY DEF ReadBack
<1>. DEFINE read == Stroke2Angle(actuator, error)[index[j]]
            a    == written[index[j]]
<1>1. Indexed /\ j \in Joints /\ Converts(strokes, written) /\ InRange(written)
  BY DEF IInv, Converted, WrittenInRange
<1>2. \A k \in Served(j) : written[index[k]] # NaN /\ actuator[index[k]] = strokes[index[k]]
  BY DEF Arrived
<1>3. a \in AngleRange(j) /\ actuator[index[j]] = strokes[index[j]]
  BY <1>1, <1>2, ServedFacts DEF InRange
<1>4. CASE j \in DOMAIN Direct
  <2>1. actuator[index[j]] = calcStroke1(a, Direct[j])
    BY <1>1, <1>3, <1>4 DEF Converts
  <2>2. read = DirectReading(j, actuator[index[j]], error)
    BY <1>1, <1>4, ReadingOfDirect
  <2>. HIDE DEF read, a
  <2>3. Distance(read, a) <= IF j \in Thumbs THEN 6000 ELSE 1002
    BY SMT, <1>3, <1>4, <2>1, <2>2, DirectReadsBack
  <2>4. Tolerance(j) = IF j \in Thumbs THEN 6000 ELSE 1002
    BY <1>4, DirectNames DEF Tolerance, Thumbs, Mirrored
  <2>. QED  BY <2>3, <2>4 DEF read, a
<1>5. CASE j \in DOMAIN Single
  <2>. DEFINE t == Tables[Single[j][3]]
  <2>1. a \in Commandable(j) /\ Single[j][3] \in TableNames
    BY <1>3, <1>5, KindsApart, SingleTable DEF AngleRange
  <2>2. PICK x \in DOMAIN t :
          /\ a = SingleBack[j][1] * x + SingleBack[j][2]
          /\ calcStroke2(a, Single[j]) = Trunc(t[x], 10)
    <3>. HIDE DEF a
    <3>. QED  BY <1>5, <2>1, SingleStroke
  <2>. DEFINE v == t[x]
  <2>3. actuator[index[j]] = Trunc(v, 10)
    BY <1>1, <1>3, <1>5, <2>2 DEF Converts
  <2>4. v \in Int
    BY <2>1, TableFacts
  <2>. DEFINE s == 10 * actuator[index[j]]
  <2>5. s \in Int /\ Distance(v, s) <= 9
    <3>. HIDE DEF v
    <3>. QED  BY SMT, <2>3, <2>4 DEF Trunc, Distance
  <2>6. setStrokeToAngle(s, t) = x
    <3>. HIDE DEF s
    <3>. QED  BY <2>1, <2>5, InverseExact
  <2>7. read = a
    BY <1>1, <1>5, <2>2, <2>6, ReadingOfSingle
  <2>8. Distance(read, a) = 0
    <3>1. a \in Int
      BY <1>1, <1>3, AnglesAreInt
    <3>. HIDE DEF read, a
    <3>. QED  BY <2>7, <3>1, DistanceFacts
  <2>9. Tolerance(j) = 0
    BY <1>5, SingleNames, DirectNames DEF Tolerance, Mirrored
  <2>. QED  BY <2>8, <2>9
<1>6. ASSUME NEW d \in DOMAIN Dual, NEW k \in {1, 2}, j = Dual[d].in[k]
      PROVE  Distance(read, a) <= Tolerance(j)
  <2>. DEFINE p  == written[index[Dual[d].in[1]]]
              r  == written[index[Dual[d].in[2]]]
              s1 == actuator[index[Dual[d].in[1]]]
              s2 == actuator[index[Dual[d].in[2]]]
              c  == calcStroke3(p, r, Dual[d])
              half == 5 * (s2 + DualBack[Dual[d].in[k]][1] * s1)
              t  == Tables[Dual[d].table[k]]
  <2>1. Served(j) = {Dual[d].in[1], Dual[d].in[2]}
    <3>1. j \in DualJoints /\ DualBack[j][3] = d
      BY <1>6, CommandablePair, PairOf
    <3>. QED  BY <3>1, PairShape DEF Served
  <2>2. p \in Commandable(Dual[d].in[1]) /\ r \in Commandable(Dual[d].in[2])
    BY <1>1, <1>2, <2>1, PairNotDirect DEF InRange
  <2>3. /\ s1 = c[IF Dual[d].in[1] = Dual[d].out[1] THEN 1 ELSE 2]
        /\ s2 = c[IF Dual[d].in[2] = Dual[d].out[1] THEN 1 ELSE 2]
    BY <1>1, <1>2, <2>1 DEF Converts
  <2>4. PICK x \in DOMAIN Tables[Dual[d].table[1]], y \in DOMAIN Tables[Dual[d].table[2]] :
          /\ p = Dual[d].dir[1] * x /\ r = Dual[d].dir[2] * y
          /\ c[1] = Trunc(Tables[Dual[d].table[1]][x] + Tables[Dual[d].table[2]][y], 10)
          /\ c[2] = Trunc(IF Dual[d].pitch
                            THEN Tables[Dual[d].table[2]][y] - Tables[Dual[d].table[1]][x]
                            ELSE Tables[Dual[d].table[1]][x] - Tables[Dual[d].table[2]][y], 10)
    <3>. HIDE DEF p, r
    <3>. QED  BY <2>2, PairStroke
  <2>. DEFINE P == Tables[Dual[d].table[1]][x]
              R == Tables[Dual[d].table[2]][y]
              z == IF k = 1 THEN x ELSE y
              V == IF k = 1 THEN P ELSE R
  <2>5. P \in Int /\ R \in Int /\ Dual[d].table[k] \in TableNames
    BY PairShape, TableFacts
  <2>6. z \in DOMAIN t /\ V = t[z] /\ a = Dual[d].dir[k] * z
    <3>1. CASE k = 1
      BY <1>6, <2>4, <3>1
    <3>2. CASE k = 2
      BY <1>6, <2>4, <3>2
    <3>. QED  BY <3>1, <3>2
  <2>7. half \in Int /\ Distance(IF j \in Mirrored THEN -V ELSE V, half) <= 9
    <3>1. /\ c[1] = Trunc(P + R, 10)
          /\ c[2] = Trunc(IF Dual[d].pitch THEN R - P ELSE P - R, 10)
      BY <2>4
    <3>2. half = 5 * (s2 + DualBack[Dual[d].in[k]][1] * s1)
      OBVIOUS
    <3>. HIDE DEF P, R, c, s1, s2, half
    <3>3. /\ half \in Int
          /\ Distance(IF Dual[d].in[k] \in Mirrored
                        THEN -(IF k = 1 THEN P ELSE R) ELSE (IF k = 1 THEN P ELSE R),
                      half) <= 9
      BY <2>3, <2>5, <3>1, <3>2, PairHalf
    <3>. QED  BY <1>6, <3>3
  <2>8. read = DualBack[j][2] * setStrokeToAngle(half, t)
    <3>1. Stroke2Angle(actuator, error)[index[Dual[d].in[k]]] =
            DualBack[Dual[d].in[k]][2] *
              setStrokeToAngle(5 * (actuator[index[Dual[d].in[2]]]
                 + DualBack[Dual[d].in[k]][1] * actuator[index[Dual[d].in[1]]]),
                 Tables[Dual[d].table[k]])
      BY <1>1, ReadingOfPair
    <3>. QED  BY <1>6, <3>1
  <2>9. z \in Int /\ Dual[d].dir[k] \in {1, -1}
    BY <2>5, <2>6, TableFacts, PairShape
  <2>. HIDE DEF half, z, V, read, a
  <2>10. CASE j \notin Mirrored
    <3>1. setStrokeToAngle(half, t) = z
      BY <2>5, <2>6, <2>7, <2>10, InverseExact
    <3>2. DualBack[j][2] = Dual[d].dir[k]
      BY <1>6, <2>10, PairBackShape
    <3>3. read = a /\ a \in Int
      BY <2>6, <2>8, <2>9, <3>1, <3>2
    <3>4. Distance(read, a) = 0
      BY <3>3, DistanceFacts
    <3>5. Tolerance(j) = 0
      <4>1. j \notin DOMAIN Direct
        BY <1>6, PairNotDirect
      <4>. QED  BY <2>10, <4>1, DirectNames DEF Tolerance
    <3>. QED  BY <3>4, <3>5 DEF read, a
  <2>11. CASE j \in Mirrored
    <3>. DEFINE n == setStrokeToAngle(half, t)
    <3>1. DualBack[j][2] = -Dual[d].dir[k] /\ Dual[d].table[k] \in {"waist_r", "wrist_p"}
      BY <1>6, <2>11, PairBackShape
    <3>2. Distance(n, -z) <= 1
      BY <2>5, <2>6, <2>7, <2>11, <3>1, InverseMirrored
    <3>3. n \in Int
      BY <2>5, <2>7, InverseFacts, TableFacts
    <3>. HIDE DEF n
    <3>4. read = (-Dual[d].dir[k]) * n
      BY <2>8, <3>1 DEF n
    <3>5. Distance(read, a) <= 1
      <4>1. CASE Dual[d].dir[k] = 1
        BY SMT, <2>6, <2>9, <3>2, <3>3, <3>4, <4>1 DEF Distance
      <4>2. CASE Dual[d].dir[k] = -1
        BY SMT, <2>6, <2>9, <3>2, <3>3, <3>4, <4>2 DEF Distance
      <4>. QED  BY <2>9, <4>1, <4>2
    <3>6. Tolerance(j) = 1
      <4>1. j \notin DOMAIN Direct
        BY <1>6, PairNotDirect
      <4>. QED  BY <2>11, <4>1, DirectNames DEF Tolerance
    <3>. QED  BY <3>5, <3>6 DEF read, a
  <2>. QED  BY <2>10, <2>11 DEF read, a
<1>. QED  BY <1>1, <1>4, <1>5, <1>6, Kinds

\* What is read back from actuators that have obeyed is what was commanded, for
\* each of the 24 joints: exactly at a point of a table, by one point for a
\* mirrored joint, by less than one stroke without a table (:65-94, :118-148).
THEOREM CommandsReadBack == Spec => []ReadBack
<1>. QED  BY Invariance, InvReadBack, PTL

=============================================================================
