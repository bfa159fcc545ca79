\* Encrypted endpoints.
CONSTANTS
    Pairs <- EncryptedPairs
    MaxChunks = 1
SPECIFICATION Spec
INVARIANTS CloseOKMeansEOF
