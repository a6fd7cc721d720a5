\* One call from another station and one run of uuport, in every order, with
\* everybody hanging up in the end.
SPECIFICATION PatientSpec
CONSTANTS
  MaxIncoming = 1
  MaxPorts = 1
  MaxUnread = 1
INVARIANTS TypeOK ConnectedFollowsLink NoSessionWhenInactive CleanUpStands
PROPERTY CleanUpEnds
\* After the last bounded call nothing more need happen.
CHECK_DEADLOCK FALSE
