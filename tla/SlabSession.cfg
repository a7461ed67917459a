\* Two runs and one calculation of user a, one run of user b.  The session
\* rests when every request is answered.
CONSTANTS
  Runs = {"ra1", "ra2", "rb1"}
  Calcs = {"ca1"}
  Users = {"a", "b"}
  userId <- MCUserOf
  Null = Null
SPECIFICATION FairSpec
INVARIANTS TypeOK ResultsAreOwn PairFromOneRun AnswerIsOwn CalcIsConsistent
PROPERTY RunsEnd
CHECK_DEADLOCK FALSE
