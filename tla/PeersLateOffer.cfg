\* Two offers of files of one chunk, over two links.
CONSTANTS
  Families = {"peers"}
  BadFrames = FALSE
  workerThread = workerThread
  serverThread = serverThread
  Requesters = {workerThread, serverThread}
  SeqNumbers = 2
  MaxRequests = 4
  MaxLinksUp = 2
  PeerReconnects = FALSE
  MaxLinks = 3
  MaxExchanges = 2
  MaxFrames = 7
  Names = {"A", "B"}
  MaxSaves = 2
  MaxChunks = 2
  MaxMsgs = 2
  InboxMax = 1
  NoFile = NoFile
  MaxOffers = 2
  MaxPeerChunks = 1
  MaxPeerLinks = 2
SPECIFICATION Spec
INVARIANT OffersDieWithLink
CHECK_DEADLOCK FALSE
