\* One datagram (UDP or TCP) to either destination, for every MTU and payload.
SPECIFICATION Spec
CONSTANTS
    MTUs <- MC_MTUs
    Payloads <- MC_Payloads
    Dsts = {d1, d2}
    IdMod = 65536
    MaxSends = 1
INVARIANTS
    FragmentsReassemble
\* The bound MaxSends ends every behaviour.
CHECK_DEADLOCK FALSE
