CONSTANTS
  SeqBits = 4
  WIN = 5
  MSS = 1
  NoCache = NoCache
  NoQueue = NoQueue
  NoStream = NoStream
  NoWindow = NoWindow
  ISS <- MC_ISS
  CISS <- MC_CISS
  CBytes = 1
  PBytes = 2
  Windows <- MC_Windows
  SackOffers <- MC_SackOffers
  MaxInFlight = 2
  MaxOpens = 1
  FirstSegmentInOrder = TRUE
  ClientHalfCloses = TRUE
SPECIFICATION Spec
INVARIANTS NoTeardownLosesData
