\* Three requests of two threads.
CONSTANTS
  Families = {"requests"}
  BadFrames = FALSE
  workerThread = workerThread
  serverThread = serverThread
  Requesters = {workerThread, serverThread}
  SeqNumbers = 2
  MaxRequests = 3
  MaxLinksUp = 2
  PeerReconnects = FALSE
  MaxLinks = 3
  MaxExchanges = 2
  MaxFrames = 7
  Names = {"A", "B"}
  MaxSaves = 2
  MaxChunks = 2
  MaxMsgs = 2
  InboxMax = 1
  NoFile = NoFile
  MaxOffers = 2
  MaxPeerChunks = 2
  MaxPeerLinks = 2
SPECIFICATION Spec
PROPERTY NoAnswerMissed
CHECK_DEADLOCK FALSE
