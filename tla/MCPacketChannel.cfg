\* Twelve sequence numbers, a window of two, a ledger of three.
CONSTANTS
  client = client
  server = server
  Endpoints = {client, server}
  Modulus = 12
  AckHistory = 2
  HistoryCapacity = 3
  FirstSequence <- NearWrap
  MaxSends <- LongVersusShort
  MaxResets <- OneReset
  NoRecord = NoRecord
SPECIFICATION PacketSpec
INVARIANTS ReportedWasReceived TrackerIsExact
PROPERTY AcceptedOnce
CHECK_DEADLOCK FALSE
