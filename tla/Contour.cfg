CONSTANTS
  Clicks = {"first", "second"}
  Answers <- MCAnswers
SPECIFICATION Spec
INVARIANT NearestIsTaken
CHECK_DEADLOCK FALSE
