CONSTANTS
  plain = plain
  cut = cut
  Key = {k1, k2}
  Value = {plain, cut}
  CString <- MCCString
  MaxLength = 2
  MaxCalls = 3
  MaxOthers = 1
CHECK_DEADLOCK FALSE
SPECIFICATION Spec
INVARIANTS TestTellsTruth ListTellsTruth EndsForAReason WriteIsAllOrNothing
