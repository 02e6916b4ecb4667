\* Three keys and two values in two rows of two columns: every table of up to
\* four entries, and those of up to one entry with any one cell replaced by any
\* three field elements.
SPECIFICATION RoundSpec
CONSTANTS
  Gamma = 2
  Delta = 2
  P = 5
  Half = 8
  LANES = 5
  Packed = 3
  Values = {0, 2}
  Buckets <- AllBuckets
  MaxInserts = 4
  MaxAltered = 1
  None = None
  Servers = 2
  Keystream <- SomeKeystream
  Contributions <- SomeContributions
  MaxClients = 5
  Threads = {1, 2}
INVARIANTS TypeOK OkExplainsTable PeelsWhatIsCounted RecoversInserted StallsOnlyOnCore
INVARIANTS RoundCarriesTables PadsUseFreshWords CandidatesAreUniform
CHECK_DEADLOCK FALSE
