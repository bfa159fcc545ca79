\* Every pair of endpoints.
CONSTANTS
    Pairs <- AllPairs
    MaxChunks = 2
SPECIFICATION FairSpec
INVARIANTS TypeOK NilMeansComplete HalfCloseKeepsReverse PlainNothingLeftOpen
PROPERTIES PlainErrorUnblocks
