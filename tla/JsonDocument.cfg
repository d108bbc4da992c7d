CONSTANTS
  o1 = o1
  o2 = o2
  Object = {o1, o2}
  a1 = a1
  Array = {a1}
  KeyOrder <- MCKeyOrder
  Key <- MCKey
  Scalars <- MCScalars
  Items <- MCItems
  Letter = {"k", "x"}
  Widths = {1, 2}
  MaxSize = 3
SPECIFICATION Spec
CHECK_DEADLOCK FALSE
INVARIANTS NullIsEmpty RoundTrip FormattedIsRead CutIsPart ReadsWithin NumbersAreRead
