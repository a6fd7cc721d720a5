\* Five movements of the key and commands of clients, or three of the tuning
\* knob, or two of the volume knob.
SPECIFICATION FairSpec
CONSTANTS
  Profiles = {"profile0", "profile1"}
  DefaultProfile = "profile0"
  PttProfiles = {"profile1"}
  KnobProfiles = {"profile0"}
  Fast = 1
  Step = 1
  MinFreq = 1
  MaxFreq = 6
  Freqs = {2}
  Volumes = {2}
  Start <- MCStart
  MaxEvents <- MCMaxEvents
INVARIANTS TypeOK KnobCounted DialFollowsTicks
PROPERTIES KnobCaughtUp KeyHeard
