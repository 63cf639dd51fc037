CONSTANTS
  MaxDedupKey = 2
  MaxAlias = 3
  MaxSummary = 2
  MaxMessage = 1
  Inputs <- MCInputs
  Setups <- MCSetups
  Outages <- MCOutages
  By <- MCBy
  Rule <- MCRule
  MaxCalls = 3
SPECIFICATION RequestSpec
INVARIANTS   KeyTellsApart DigestSpeaksForAll
