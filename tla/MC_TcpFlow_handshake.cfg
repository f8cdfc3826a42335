\* The handshake under loss, with the fairness of LiveSpec (HandshakeCompletes).
CONSTANTS
  SeqBits = 4
  WIN = 5
  MSS = 1
  NoCache = NoCache
  NoQueue = NoQueue
  NoStream = NoStream
  NoWindow = NoWindow
  ISS <- MC_ISS
  CISS <- MC_CISS
  CBytes = 0
  PBytes = 1
  Windows <- MC_Windows
  SackOffers <- MC_SackOffers
  MaxInFlight = 2
  MaxOpens = 1
  FirstSegmentInOrder = FALSE
  ClientHalfCloses = TRUE
SPECIFICATION LiveSpec
PROPERTIES
    HandshakeCompletes
