\* Edits by two requests, one transient error, one crash of the scheduler.
CONSTANTS
  e1 = e1  e2 = e2  six = six  seven = seven
  Profiles <- MCProfiles
  Times = {six, seven}
  Editors = {e1, e2}
  Nobody = Nobody
  NoTime = NoTime
  Unset = Unset
  MaxFaults = 1
  MaxCrashes = 1
SPECIFICATION FairSpec
INVARIANTS TypeOK JobsMirrorProfiles TornIsNoticed
PROPERTIES EventuallyInStep
CHECK_DEADLOCK FALSE
