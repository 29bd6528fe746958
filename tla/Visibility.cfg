SPECIFICATION Spec
CONSTANTS
  q1 = q1
  a1 = a1
  a2 = a2
  acme = acme
  other = other
  new = new
  rejected = rejected
  eg = eg
  indeed = indeed
  linkedin = linkedin
  egypt = egypt
  gulf = gulf
  Readers = {q1}
  Admins = {a1, a2}
  Postings <- MCPostings
  Employers = {acme, other}
  EmployerOf <- MCEmployerOf
  STATUSES = {new, rejected}
  STATUS_NEW = new
  STATUS_REJECTED = rejected
  NoStatus = NoStatus
  AnyStatus = AnyStatus
  CountryOf <- MCCountryOf
  COUNTRY_UNKNOWN = COUNTRY_UNKNOWN
  AnyCountry = AnyCountry
  FirstSeen <- MCFirstSeen
  Sites = {indeed, linkedin}
  AnySource = AnySource
  SourcesOf <- MCSourcesOf
  NoStamp = 0
  Profiles = {egypt, gulf}
  Disabled = {gulf}
  SurfacedBy <- MCSurfacedBy
  Ticked = {{1, 3}}
  Stocks = {{}, {1, 2}, {1, 2, 3}}
  Blacklists = {{}, {acme}}
  Asked <- MCAsked
  PAGE_SIZE = 2
  LIMIT = 1
  MaxWrites = 2
INVARIANTS TypeOK NothingHidden FiguresAgree PagesPartition LiftBringsBack
PROPERTIES FlagTakesEffect ShownIsTrue
SYMMETRY MCSymmetry
CHECK_DEADLOCK FALSE
