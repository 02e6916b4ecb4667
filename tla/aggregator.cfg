CONSTANTS
  s1 = s1  s2 = s2  c1 = c1  c2 = c2
  d1 = d1  d2 = d2  L = L  M = M  Odd = Odd  None = None
  Clients = {c1, c2}
  Servers = {s1, s2}
  MaxRound = 2
  RoundWrap = 2
  Drafts = {d1, d2}
  Shapes = {L, M, Odd}
  ConfigShapes = {L, M}
  Batches <- AllBatches
  Leaves <- OtherLeaves
SPECIFICATION Spec
INVARIANTS TypeOK ReturnsAggregations BatchNeverFails SplitsAgree MergesAreAggregations
PROPERTIES GrowsWithinRound AddsRegisteredOnly
