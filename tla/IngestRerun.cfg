SPECIFICATION Spec
CONSTANTS
  r1 = r1
  r2 = r2
  r3 = r3
  c1 = c1
  indeed1 = indeed1
  linkedin1 = linkedin1
  indeed2 = indeed2
  wide2 = wide2
  title2 = title2
  company3 = company3
  indeed = indeed
  linkedin = linkedin
  f1 = f1
  f2 = f2
  f3 = f3
  acme = acme
  globex = globex
  Runs = {r1, r2}
  Normalisers = {c1}
  Listings = {indeed1, linkedin1, indeed2, wide2, title2, company3}
  Sites = {indeed, linkedin}
  Roles = {f1, f2, f3}
  Employers = {acme, globex}
  SiteOf <- MCSiteOf
  RoleOf <- MCRoleOf
  EmployerOf <- MCEmployerOf
  IdOf <- MCIdOf
  Defect <- MCDefect
  Offers <- MCOffers
  Nobody = Nobody
  MaxFaults = 0
INVARIANT NormaliseReRunnable
CHECK_DEADLOCK FALSE
