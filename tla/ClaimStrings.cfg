SPECIFICATION Spec
CONSTANTS
  Ident <- MCIdent
  Literal <- MCLiteral
  Levels = 12
  LiteralType <- MCLiteralType
  LiteralValue <- MCLiteralValue
  NumberOfString <- MCNumberOfString
  Tasks <- StringTasks
  Events <- MCEvents
  MetricValues <- MCMetricValues
INVARIANT
  StringsCompare
CHECK_DEADLOCK FALSE
