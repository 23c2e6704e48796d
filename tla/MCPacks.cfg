SPECIFICATION PackSpec
CONSTANTS
  None = None
  NoPack = NoPack
  Module <- MCModule
  NoModule <- MCNoModule
  Libraries <- MCLibraries
  Packed <- MCPacked
  Untyped <- MCUntyped
  Specs <- MCSpecs
  MaxEdits = 2
INVARIANTS
  TypeOK
  ClosureInImportOrder
  RejectedIffCyclic
  ReportedCyclesExist
  AcceptedPacksAreWhole
PROPERTY
  WalkEnds
CHECK_DEADLOCK FALSE
