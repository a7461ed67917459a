\* Documents of five elements.  Drawing ends.
CONSTANTS
  Nodes = {"r", "a", "b", "c", "d"}
  Open <- MCOpen
  Close <- MCClose
  Root = "r"
  Styles <- MCStyles
SPECIFICATION Spec
INVARIANTS PaintedOnce PaintOrderIsCSS TransformsAreOwn OpacityIsOwn
CHECK_DEADLOCK FALSE
