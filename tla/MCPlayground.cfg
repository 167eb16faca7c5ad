SPECIFICATION FairSpec
CONSTANTS
  MaxRequests = 2
  MaxFaults = 1
  ChunkTypes = {"text", "think"}
  None = None
  Typed = Typed
  Interrupted = Interrupted
INVARIANTS
  TypeOK
  AnswersKeptApart
  UnsettledCanEnd
PROPERTY
  AnswersSettle
CONSTRAINT
  CrossingWithoutFaults
