SPECIFICATION Spec
CONSTANTS
    None = None
    Pending = Pending
    Invalid = Invalid
    OutOfRange = Invalid
    Null = Null
    Places = 3
    MaxDenom = 12
    MaxLimit = 99999
    Given <- MCGiven
    KeyBytes = 2
    IdBytes = 1
    Word = 2
    MaxInner = 3
    Part = 2
    MaxText = 4
    MaxId = 9
INVARIANTS
    ShownMeansGiven
    RebuiltIsTheSame
    NearTextsAreRefused
    IntegersKeepTheirValue
CHECK_DEADLOCK FALSE
