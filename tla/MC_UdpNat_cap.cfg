\* Stale mappings survive the rebind of a closed worker (MappedWithinCap).
SPECIFICATION Spec
CONSTANTS
    Srcs = {1, 2, 3}
    Ports = {4, 5, 6, 7}
    PORT_COUNT = 2
    PortReuse = FALSE
INVARIANTS
    MappedWithinCap
