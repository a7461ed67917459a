\* Two users, one request each.
CONSTANTS
  Requests = {"a1", "b1"}
  Users = {"a", "b"}
  userId <- MCUserOf
  kind <- KindLists
  InLeak = {"a1"}
  Workers = {"w1", "w2"}
  NumLevels = 2
  MaxX = 1
  Null = Null
SPECIFICATION Spec
INVARIANT ResultIsFinal
CHECK_DEADLOCK FALSE
