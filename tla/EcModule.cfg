SPECIFICATION FairSpec
CONSTANTS
    Size = 2
    Byte <- MCByte
    User <- MCUser
    Shapes <- MCShapes
    Chunk <- MCChunk
    None = none
INVARIANTS TypeOK ReadsAreCurrent
PROPERTY CacheCatchesUp
