\* Texts with combining marks.  The breaker stops at the end of the text.
CONSTANTS
  Texts <- MarkTexts
  Options <- MCOptions
SPECIFICATION Spec
INVARIANT MarksStay
CHECK_DEADLOCK FALSE
