\* One read of the database fails; the scheduler stays up.
CONSTANTS
  e1 = e1  e2 = e2  six = six  seven = seven
  Profiles <- MCProfiles
  Times = {six, seven}
  Editors = {e1, e2}
  Nobody = Nobody
  NoTime = NoTime
  Unset = Unset
  MaxFaults = 1
  MaxCrashes = 0
SPECIFICATION FairSpec
PROPERTIES EnabledAreScheduled
CHECK_DEADLOCK FALSE
