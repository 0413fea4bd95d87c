SPECIFICATION FairReaderSpec
CONSTANTS
  ChunkSize = 3
  MaxBlock = 2
  MaxLength = 8
  MaxResizes = 3
INVARIANT ReaderInv
PROPERTY ReaderEnds
\* A reader that is done or has failed has no next step.
CHECK_DEADLOCK FALSE
