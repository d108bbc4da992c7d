CONSTANTS
  s1 = s1
  s2 = s2
  own = own
  shared = shared
  Source = {s1, s2}
  Header = {own, shared}
  Includes <- MCIncludes
  MaxEdits = 2
  MaxMishaps = 1
CHECK_DEADLOCK FALSE
SPECIFICATION FairSpec
INVARIANTS NoChangeIsForgotten ChangeReachesSomeone LinkedIsCurrent
PROPERTIES EditsAreBuilt
