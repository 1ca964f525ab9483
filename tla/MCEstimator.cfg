SPECIFICATION Spec
CONSTANTS
  Genesis <- MCGenesis
  Blocks <- MCBlocks
  MaxHeight = 2
  Callers = {c1, c2}
  PriceCallers = {c2}
  Percentiles <- MCPercentiles
  Counts = {0, 3}
  MinSuggestedTip = 1
  MaxSuggestedTip = 30
  SuggestedTipPercentile = 40
  SuggestedTipMaxBlocks = 2
  HistoryMaxBlocksFromHead = 1
  HistoryMaxBlocks = 2
INVARIANT HistoryMatchesChain
PROPERTY SuggestionIsFresh
CHECK_DEADLOCK FALSE
