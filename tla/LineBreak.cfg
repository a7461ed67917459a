\* Texts of up to five characters.  The breaker stops at the end of the text.
CONSTANTS
  Texts <- MCTexts
  Options <- MCOptions
SPECIFICATION Spec
INVARIANTS BoundsAreOwn NumbersStay FlagsArePaired WordBreakIsMonotone
CHECK_DEADLOCK FALSE
