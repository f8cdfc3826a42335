\* Selective retransmission over every unwrapped cache of up to WIN bytes
\* and up to two SACK blocks inside it.
SPECIFICATION Spec
CONSTANTS
    SeqBits = 4
    WIN = 5
    MSS = 2
    MaxSacks = 2
    NoCache = NoCache
    NoQueue = NoQueue
INVARIANTS
    SelectiveResendOnlyUnsacked
