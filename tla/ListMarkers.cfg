\* Lists of up to six items.  Parsing ends.
CONSTANTS
  Docs <- MCDocs
SPECIFICATION Spec
INVARIANTS NumberingIsHTML MarkersReadBack AdditiveIsCanonical
CHECK_DEADLOCK FALSE
