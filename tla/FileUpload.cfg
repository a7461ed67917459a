\* Three uploads under names of their own, one of them longer than an int can
\* index.  An upload that has ended stays so.
CONSTANTS
  Uploads = {"u1", "u2", "u3"}
  Names = {"nu1", "nu2", "nu3"}
  nameOf <- LongNames
  fileLen <- LongLengths
  starPos <- AtStart
  oldLen <- NoOld
  Chunk = 2
  IntLimit = 3
SPECIFICATION FairSpec
INVARIANTS TypeOK OneMessage ReplyIsPosition
PROPERTIES TransferSpec UploadsEnd
CHECK_DEADLOCK FALSE
