\* A Gaussian and two VCE requests of one user and one pool thread: a task meets
\* entries of its own and of the other kind, and tasks queue up.  Liveness under
\* the scheduling of the threads.  At rest every request is answered or waits
\* behind a dead task.
CONSTANTS
  Requests = {"a1", "a2", "a3"}
  Users = {"a"}
  userId <- MCUserOf
  kind <- KindVceGauss
  InLeak = {}
  Workers = {"w1"}
  NumLevels = 1
  MaxX = 1
  Null = Null
SPECIFICATION FairSpec
PROPERTIES TasksEnd AnsweredUnlessTaskDies
CHECK_DEADLOCK FALSE
