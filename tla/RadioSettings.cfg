\* Two profiles, two values of each setting and all modes, three calls that change
\* one, a restart.
SPECIFICATION Spec
CONSTANTS
  Profiles = {"profile0", "profile1"}
  DefaultProfile = "profile0"
  Freqs = {1, 2}
  OtherFreqs = {9}
  Modes = {"LSB", "USB", "CW"}
  Levels = {1, 2}
  BFOs = {1, 2}
  MaxSets = 3
  MaxRestarts = 1
INVARIANTS TypeOK StoredAsSet SavedWhenClean HardwareFollows
PROPERTY ComesBackAsLeft
