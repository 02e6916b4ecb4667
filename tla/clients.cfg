\* Two users with different messages; each client is asked once per round.
SPECIFICATION AskedSpec
CONSTANTS
  c1 = c1
  c2 = c2
  Clients = {c1, c2}
  Servers = {s1}
  Rounds = {1, 2}
  Messages = {1, 2, 3}
  SizeOf <- Lengths
  MessagesOf <- OwnMessages
  BidValues = {1}
  AgainIn = {}
  total_bandwidth = 5
  min_message_size = 1
  chunk_bytes = 2
  None = None
INVARIANTS WinningMessagesAppear SlotsKeepClientsApart
PROPERTY EveryRoundIsAnswered
CHECK_DEADLOCK FALSE
