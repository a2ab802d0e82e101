CONSTANTS
    Structs <- MCStructs
    NamesInit = 1
    VintMax = 2
    Signatures <- MCSignatures
SPECIFICATION Spec
INVARIANTS
    RoundTrip
    KeyIdentity
