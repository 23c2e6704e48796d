SPECIFICATION Spec
CONSTANTS
  plain = plain
  smoothed = smoothed
  guard = guard
  broken = broken
  ema = ema
  rsi = rsi
  bars = bars
  moreBars = moreBars
  quotes = quotes
  chains = chains
  junk = junk
  day = day
  nextDay = nextDay
  optionDay = optionDay
  chainDay = chainDay
  None = None
  Torn = Torn
  Text <- MCText
  Packs <- MCPacks
  Clean <- MCClean
  Serves <- MCServes
  Uses <- MCUses
  Indicator = {ema, rsi}
  Version = {1, 2}
  Content = {bars, moreBars, quotes, chains, junk}
  Events = {day, nextDay, optionDay, chainDay}
  ReadAs <- MCReadAs
  KindIn <- MCKindIn
  Raising = {nextDay}
  Earlier <- MCEarlier
  MaxChanges = 2
INVARIANTS
  TypeOK
  ReplayFaithful
  ReturnedRunsReplay
PROPERTIES
  EarlierLogKept
CHECK_DEADLOCK FALSE
