\* A heavy-gas and a Gaussian request of user a, which fill the same lists, and a
\* VCE one of user b; two pool threads and two rounds over x.  The service comes
\* to rest when every request is answered, and also when the remaining ones wait
\* behind the count of a dead task.
CONSTANTS
  Requests = {"a1", "a2", "b1"}
  Users = {"a", "b"}
  userId <- MCUserOf
  kind <- KindLists
  InLeak = {"a1"}
  Workers = {w1, w2}
  NumLevels = 1
  MaxX = 2
  Null = Null
SPECIFICATION Spec
SYMMETRY WorkerSymmetry
INVARIANTS TypeOK CountIsOutstanding FlagHasCause UsersIsolated AloneIsComplete
PROPERTY FlagFallsWhenDrained
CHECK_DEADLOCK FALSE
