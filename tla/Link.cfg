\* Every call under the two locks; four requests of two threads with two
\* sequence numbers; three links, two pairings and seven requests of a link;
\* two files, two saves of at most two frames, two messages into an inbox of
\* one; two offers of files of at most two chunks over two links.
CONSTANTS
  Families = {"locks", "requests", "pairing", "server", "peers"}
  BadFrames = FALSE
  workerThread = workerThread
  serverThread = serverThread
  Requesters = {workerThread, serverThread}
  SeqNumbers = 2
  MaxRequests = 4
  MaxLinksUp = 2
  PeerReconnects = FALSE
  MaxLinks = 3
  MaxExchanges = 2
  MaxFrames = 7
  Names = {"A", "B"}
  MaxSaves = 2
  MaxChunks = 2
  MaxMsgs = 2
  InboxMax = 1
  NoFile = NoFile
  MaxOffers = 2
  MaxPeerChunks = 2
  MaxPeerLinks = 2
SPECIFICATION Spec
INVARIANTS NeverCrossed OwnAnswer SameSession PairedByBoth SavesAreWhole TransfersAreWhole
PROPERTIES LoneAnswerTaken EveryCallReturns AckMeansDone LoadsAreWhole
CHECK_DEADLOCK FALSE
