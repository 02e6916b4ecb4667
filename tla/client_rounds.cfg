\* One client, three rounds that may be skipped, registrations; the client may
\* be asked for its message of the second round again and again.
SPECIFICATION Spec
CONSTANTS
  c1 = c1
  c2 = c2
  Clients = {c1}
  Servers = {s1}
  Rounds = {1, 2, 3}
  Messages = {1, 2, 3}
  SizeOf <- Lengths
  MessagesOf <- OwnMessages
  BidValues = {1}
  AgainIn = {2}
  total_bandwidth = 5
  min_message_size = 1
  chunk_bytes = 2
  None = None
INVARIANTS TypeOK WritesOnlyWhatItWon BidsAreHonoured TransmittedOnce
CHECK_DEADLOCK FALSE
