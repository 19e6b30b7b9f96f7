SPECIFICATION CrFairSpec
CONSTANTS
  none = none
  k1 = k1
  k2 = k2
  r1 = r1
  Unset <- none
  Settings <- MCSettings
  Defaulted <- MCDefaulted
  Texts <- MCTexts
  Empty <- MCEmpty
  Requests = {r1}
  Asked <- MCAsked
  Keys = {k1, k2}
  Formats <- MCFormats
  MaxSaves = 2
  MaxMtime = 2
INVARIANT LiveIsWhole
INVARIANT InheritsNearest
PROPERTY AcceptedAsConfigured
PROPERTY SavedIsServed
CHECK_DEADLOCK FALSE
