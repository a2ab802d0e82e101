CONSTANTS
    ScratchLen = 7
    Paths <- MCPaths
    Subs <- MCSubs
    BlobPaths <- MCBlobPaths
    Lists <- MCLists
    MaxBlobs = 2
    MaxLeaks = 1
    MaxInputs = 3
SPECIFICATION CommandsSpec
INVARIANTS
    LongMembers
