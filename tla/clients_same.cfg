\* Two users with the same message.
SPECIFICATION RegisteredSpec
CONSTANTS
  c1 = c1
  c2 = c2
  Clients = {c1, c2}
  Servers = {s1}
  Rounds = {1, 2}
  Messages = {1, 2, 3}
  SizeOf <- Lengths
  MessagesOf <- SameMessages
  BidValues = {1}
  AgainIn = {}
  total_bandwidth = 5
  min_message_size = 1
  chunk_bytes = 2
  None = None
INVARIANT WinningMessagesAppear
CHECK_DEADLOCK FALSE
