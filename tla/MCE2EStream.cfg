\* Writes of up to 3 bytes, records of 2, reads of 1, two sequence numbers.
CONSTANTS
    c1 = c1
    c2 = c2
    UpBytes = 3
    DownBytes = 1
    Source <- SmallSource
    Contexts = {c1, c2}
    NoKey = NoKey
    MaxWrite = 3
    MaxPlain = 2
    MaxRead = 1
    MaxSeq = 2
SPECIFICATION FairSpec
INVARIANTS TypeOK NonceUsedOnce SessionAgreed
PROPERTIES CarriesPipes ClosedDirectionEnds
