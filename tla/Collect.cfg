\* Two saves of two forms, from an empty table or not, around one run of up to
\* two searches.
CONSTANTS
  a1 = a1  a2 = a2  r1 = r1  indeed = indeed  linkedin = linkedin
  Savers = {a1, a2}
  Runs = {r1}
  Keys <- MCKeys
  Values = {0, 1, 2}
  Default <- MCDefault
  Forms <- MCForms
  NoRow = NoRow
  Nobody = Nobody
  Sites = {indeed, linkedin}
  Enabled <- MCEnabled
  Searches <- MCSearches
  LIMIT = 1
  DELAY = 2
SPECIFICATION FairSpec
INVARIANTS TypeOK ConfigIsCurrent OneConfigPerRun CountsAccount
PROPERTIES SaveIsWhole EverySaveEnds
CHECK_DEADLOCK FALSE
