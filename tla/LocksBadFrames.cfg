\* The calls under the two locks; a frame or a proof may fail to verify.
CONSTANTS
  Families = {"locks"}
  BadFrames = TRUE
  workerThread = workerThread
  serverThread = serverThread
  Requesters = {workerThread, serverThread}
  SeqNumbers = 2
  MaxRequests = 4
  MaxLinksUp = 2
  PeerReconnects = FALSE
  MaxLinks = 3
  MaxExchanges = 2
  MaxFrames = 7
  Names = {"A", "B"}
  MaxSaves = 2
  MaxChunks = 2
  MaxMsgs = 2
  InboxMax = 1
  NoFile = NoFile
  MaxOffers = 2
  MaxPeerChunks = 2
  MaxPeerLinks = 2
SPECIFICATION Spec
INVARIANT NeverCrossed
CHECK_DEADLOCK FALSE
