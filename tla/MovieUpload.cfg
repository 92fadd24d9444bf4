CONSTANTS
  Uploads = {u1, u2}
  Names = {n1}
  MaxChunks = 3
  Window = 1
  Absent = Absent
  Hole = Hole
SPECIFICATION FairSpec
INVARIANTS TypeOK SoleUploadIsPrefix OkIsWhole ClientOkIsWritten
PROPERTY EveryUploadEnds
\* The clients come to an end.
CHECK_DEADLOCK FALSE
