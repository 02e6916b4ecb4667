SPECIFICATION Spec
CONSTANTS
  s1 = s1  s2 = s2  c1 = c1  c2 = c2  None = None
  Clients = {c1, c2}
  Servers = {s1, s2}
  MaxRound = 2
  RoundWrap = 3
  Drafts <- AllEntries
  PACK_BYTES = 2
  Configs <- AllConfigs
  ClientCalls <- SomeClientCalls
  ServerCalls <- SomeServerCalls
  CombineCalls <- SomeCombineCalls
  MaxContributions = 3
  MaxShares = 2
INVARIANTS TypeOK OpensOnlyWhole PayloadsArrive CompleteRoundOpens
CHECK_DEADLOCK FALSE
