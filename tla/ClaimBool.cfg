SPECIFICATION Spec
CONSTANTS
  Ident <- MCIdent
  Literal <- MCLiteral
  Levels = 12
  LiteralType <- MCLiteralType
  LiteralValue <- MCLiteralValue
  NumberOfString <- MCNumberOfString
  Tasks <- BoolTasks
  Events <- MCEvents
  MetricValues <- MCMetricValues
INVARIANT
  ConditionsAreBool
CHECK_DEADLOCK FALSE
