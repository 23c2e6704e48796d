SPECIFICATION Spec
CONSTANTS
  Ident <- MCIdent
  Literal <- MCLiteral
  Levels = 12
  LiteralType <- MCLiteralType
  LiteralValue <- MCLiteralValue
  NumberOfString <- MCNumberOfString
  Tasks <- MCTasks
  Events <- MCEvents
  MetricValues <- MCMetricValues
INVARIANTS
  TypeOK
  ParsesAsGrammar
  BlocksFollowIndentation
  AcceptedExpressionsRun
  IndicatorsFollowBars
  UnknownNeverDecides
  UnknownsFailClosed
CHECK_DEADLOCK FALSE
