CONSTANTS
  Base = 8
  None = None
  NoArm = NoArm
  Names <- MCNames
  CodecOf <- MCCodecOf
  ClassOf <- MCClassOf
  ViewOf <- MCViewOf
  ValuesOf <- MCValuesOf
  LimitsOf <- MCLimitsOf
  DefaultLimits <- MCDefaultLimits
  ForeignOf <- MCForeignOf
  Cuts <- MCCuts
  Tails <- MCTails
SPECIFICATION CompatSpec
CHECK_DEADLOCK FALSE
INVARIANTS
  RoundTrip
  OneEncoding
  NoPartIsWhole
  EncodesWhatFits
  ViewKeepsKeptBytes
