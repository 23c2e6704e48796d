SPECIFICATION Spec
CONSTANTS
  tcs = tcs
  infy = infy
  call100 = call100
  call100ce = call100ce
  call110 = call110
  put90 = put90
  other100 = other100
  junk = junk
  None = None
  Unknown = Unknown
  Spelling <- MCSpelling
  Chain = {tcs, infy}
  Contract <- MCContract
  Parsed <- MCParsed
  IdOf <- MCIdOf
  Rows <- MCRows
  Requests <- MCRequests
  OddRows <- MCOddRows
  MaxRows = 4
  MaxOdd = 2
INVARIANTS
  NoRowLost
  RowOrderIrrelevant
  MetricsAgree
  SelectionFindsItsContract
  OtmRanksAscend
CHECK_DEADLOCK FALSE
