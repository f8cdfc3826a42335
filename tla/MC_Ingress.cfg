\* Three client ports, four local ports and an LRU of two, as in MC_UdpNat.cfg,
\* behind a link with the client and one other host.
CONSTANTS
  Srcs = {1, 2, 3}
  Ports = {4, 5, 6, 7}
  PORT_COUNT = 2
  PortReuse = FALSE
  hw1 = hw1
  hw2 = hw2
  ip0 = ip0
  ip1 = ip1
  ip2 = ip2
  Stations <- MC_Stations
  HARDWARE_ADDR_UNSPECIFIED = HARDWARE_ADDR_UNSPECIFIED
  SRC_IP <- ip1
  LOCAL_IP <- ip0
  NoIp = NoIp
SPECIFICATION IngressSpec
INVARIANTS IngressTypeOK NoSharedPort WorkerServesMapped FramesToClient
