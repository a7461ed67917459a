\* One list inside another and what follows them.  The walk stops at its end or
\* at an exception.
CONSTANTS
  Nodes = {"ol", "a", "b", "sub", "p"}
  Open <- MCOpen
  Close <- MCClose
  Names = {"c", "d"}
  Styles <- MCStyles
SPECIFICATION Spec
INVARIANTS ScopesMatchPath ContentIsReference ThrowsExactlyThere
CHECK_DEADLOCK FALSE
