SPECIFICATION IntentSpec
CONSTANTS
  S1 = S1
  KindA = KindA
  KindB = KindB
  Pct = Pct
  None = None
  MaxQty = 2
  MaxIntents = 4
  Symbol <- MCSymbol
  RuleName <- MCRuleName
  IntentKind <- MCIntentKind
  Percent <- MCPercent
  Args <- MCArgs
  EventSymbol = S1
  Emitter = "r"
INVARIANTS
  ResolutionIsStable
  LosersAreIrrelevant
  LosersPointToWinners
  OrderOnlyBreaksTies
PROPERTY
  DisplacedOnlyByWinner
CHECK_DEADLOCK FALSE
