\* A profile of another frequency is made the active one.
SPECIFICATION Spec
CONSTANTS
  Profiles = {"profile0", "profile1"}
  DefaultProfile = "profile0"
  Freqs = {1, 2}
  OtherFreqs = {9}
  Modes = {"LSB", "CW"}
  Levels = {1, 2}
  BFOs = {1, 2}
  MaxSets = 2
  MaxRestarts = 0
INVARIANT TunedToProfile
