SPECIFICATION Spec
CONSTANTS
  Names <- MCNames
  Titles <- MCTitles
  Places <- MCPlaces
  Forms <- MCForms
  Glosses <- MCGlosses
  Tags <- MCTags
  Noise <- MCNoise
  LEGAL_SUFFIXES = {"inc", "co", "company", "ltd", "sae", "kk"}
  ARABIC = {"ar halan", "ar acme"}
  MARKS = {"-", "|"}
  NUMBERS = {"9981", "12345", "737"}
  Joined <- MCJoined
  NAME_TO_ISO2 <- MCNAME_TO_ISO2
  ARABIC_COUNTRY_ALIASES <- MCARABIC_COUNTRY_ALIASES
  NoCountry = "NONE"
INVARIANTS EmployerKeyIsName TitleKeyIsTitle CountryNeverGuessed RolesStayApart
CHECK_DEADLOCK FALSE
