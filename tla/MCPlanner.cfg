SPECIFICATION Spec
CONSTANTS
  None = None
  Streams <- MCStreams
INVARIANTS
  TypeOK
  AllOrNothing
  FailsClosed
  ReasonsMatchBlockers
  OrderedByContent
CHECK_DEADLOCK FALSE
