\* Two clicks and two iframes.  The page rests when every promise is settled or hangs.
CONSTANTS
  Shots = {"s1", "s2", "f1", "f2"}
  Frames = {"f1", "f2"}
  Owner <- MCOwner
  Srcs = {"tile", "photo", "icon", "chart", "logo"}
  Images <- MCImages
  Kind <- MCKind
  Reach <- MCReach
  Silent = {"photo"}
  Options <- MCOptions
  SVGDraws = FALSE
  Base64Taints = TRUE
  ForeignDraws = TRUE
  NoShot = NoShot
SPECIFICATION FairSpec
INVARIANTS TypeOK NeverTainted DoneIsSettled AskedOnce FailureHasCause
PROPERTY ClicksEnd
CHECK_DEADLOCK FALSE
