SPECIFICATION Spec
CONSTANTS
  NaN = NaN
  Names <- RealNames
  Tables <- RealTables
  DirectAngles <- SmallAngles
  Speeds <- WheelSpeeds
  Groups <- AllGroups
INVARIANTS TypeOK ReadBack SpeedKept
PROPERTIES HoldCreepsInward MovesOnlyCommanded
