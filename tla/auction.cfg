\* A bandwidth that is no multiple of the chunk: 7 bytes are 3 chunks of 2, and one
\* byte is left over.  A bid of 5 bytes takes the whole vector, one of
\* 7 fits the bandwidth but not its chunks.
SPECIFICATION Spec
CONSTANTS
  total_bandwidth  = 7
  min_message_size = 2
  chunk_bytes      = 2
  Hashes  = {1, 2}
  Weights = {0, 1, 2, 3}
  Sizes   = {1, 3, 4, 5, 7}
  Bids <- AllBids
  MaxBids = 3
  Servers = 2
  Threads = {1, 2}
  None = None
INVARIANTS Optimal SlotsPartitionVector SlotsCarryPayloads
PROPERTY EarlierBidsPreferred
CHECK_DEADLOCK FALSE
