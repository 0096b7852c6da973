\* The code's constants; the wheel wraps three times in each direction.
SPECIFICATION Spec
CONSTANTS
  Wheels <- OneWheel
  MaxAng = 13602
  Threshold = 13000
  FirstRaw <- RealFirst
  Steps <- RealSteps
  Positions <- RealPositions
INVARIANTS TypeOK AngleTracks
