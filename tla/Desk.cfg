SPECIFICATION DeskSpec
CONSTANTS
  r0 = r0
  r1 = r1
  b1 = b1
  c1 = c1
  indeed1 = indeed1
  indeed2 = indeed2
  indeed3 = indeed3
  title3 = title3
  indeed = indeed
  f1 = f1
  f2 = f2
  f3 = f3
  acme = acme
  globex = globex
  new = new
  rejected = rejected
  Requests = {b1}
  Postings <- MCPostings
  STATUSES = {new, rejected}
  STATUS_NEW = new
  NoStatus = NoStatus
  Migration = Migration
  Nobody = Nobody
  MaxTime = 0
  Past = r0
  Runs = {r0, r1}
  Normalisers = {c1}
  Listings = {indeed1, indeed2, indeed3, title3}
  Sites = {indeed}
  Roles = {f1, f2, f3}
  Employers = {acme, globex}
  SiteOf <- MCSiteOf
  RoleOf <- MCRoleOf
  EmployerOf <- MCEmployerOf
  IdOf <- MCIdOf
  Defect <- MCDefect
  Offers <- MCOffers
  MaxFaults = 1
INVARIANTS HistoryChain CirclesNeedInsert
CHECK_DEADLOCK FALSE
