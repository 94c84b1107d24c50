CONSTANTS
  Base = 8
  None = None
  NoArm = NoArm
  Names <- MCSharingNames
  CodecOf <- MCCodecOf
  ClassOf <- MCClassOf
  ViewOf <- MCViewOf
  ValuesOf <- MCValuesOf
  LimitsOf <- MCLimitsOf
  DefaultLimits <- MCDefaultLimits
  ForeignOf <- MCForeignOf
  Cuts <- MCCuts
  Tails <- MCTails
SPECIFICATION CompatSpec
CHECK_DEADLOCK FALSE
INVARIANT ViewKeepsBytes
