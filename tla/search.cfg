CONSTANTS
  i1 = i1  i2 = i2  i3 = i3  i4 = i4
  None = None
  Item = {i1, i2, i3, i4}
  Kinds = {"offset", "logged", "all"}
  Sizes = {1, 2}
  Lists <- ShortLists
  MaxEdits = 1
SPECIFICATION SearchSpec
INVARIANTS ShownWereReadable OrderKeptUnlessShifted QuietSearchIsComplete
PROPERTY SearchesAreAnswered
CHECK_DEADLOCK FALSE
