\* The OS may hand out the port of a closed worker again (NoSharedPort).
SPECIFICATION Spec
CONSTANTS
    Srcs = {1, 2, 3}
    Ports = {4, 5, 6, 7}
    PORT_COUNT = 2
    PortReuse = TRUE
INVARIANTS
    NoSharedPort
