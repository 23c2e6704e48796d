SPECIFICATION Spec
CONSTANTS
  S1 = S1
  KindA = KindA
  KindB = KindB
  Pct = Pct
  None = None
  MaxQty = 2
  Symbol <- MCSymbol
  RuleName <- MCRuleName
  IntentKind <- MCIntentKind
  Percent <- MCPercent
  Inputs <- MCInputs
  DeclareArgs <- MCDeclareArgs
  CapQty <- MCCapQty
INVARIANTS
  TypeOK
  LookupConsistent
  ResolutionSound
  GateExact
  TraceComplete
PROPERTIES
  ClosedEventsFrozen
  RefinesLedger
  Terminates
CHECK_DEADLOCK FALSE
