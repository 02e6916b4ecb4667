CONSTANTS
  s1 = s1  s2 = s2  c1 = c1  c2 = c2  t1 = t1  t2 = t2  t3 = t3
  d1 = d1  d2 = d2  L = L  M = M  Odd = Odd  None = None
  Clients = {c1}
  Servers = {s1, s2}
  MaxRound = 2
  RoundWrap = 2
  Drafts = {d1}
  Shapes = {L, M, Odd}
  ConfigShapes = {L, M}
  Threads = {t1, t2, t3}
  Host <- ThreeHosts
  Submissions = {}
  Aggregations <- OneBatch
  PeerKeys <- AllPeers
SPECIFICATION LeaderSpec
INVARIANTS TypeOK OutputIsPlaintext OutputNeedsEveryShare NothingFromTheFuture
