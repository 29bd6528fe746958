SPECIFICATION FairSpec
CONSTANTS
  r1 = r1
  r2 = r2
  new = new
  rejected = rejected
  Requests = {r1, r2}
  Postings <- MCPostings
  STATUSES = {new, rejected}
  STATUS_NEW = new
  NoStatus = NoStatus
  Migration = Migration
  Nobody = Nobody
  MaxTime = 1
INVARIANTS TypeOK HistoryChain AllOrNothing NoCircularWait SingleStampsNeverBackdate
PROPERTIES EveryRequestEnds ImplementsLedger
CHECK_DEADLOCK FALSE
