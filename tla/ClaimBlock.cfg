SPECIFICATION Spec
CONSTANTS
  S1 = S1
  KindA = KindA
  KindB = KindB
  Pct = Pct
  None = None
  MaxQty = 2
  Symbol <- MCSymbol
  RuleName <- MCRuleName
  IntentKind <- MCIntentKind
  Percent <- MCPercent
  Inputs <- ClaimInputs
  DeclareArgs <- MCDeclareArgs
  CapQty <- MCCapQty
INVARIANT
  BlockBlocksAllPrimary
CHECK_DEADLOCK FALSE
