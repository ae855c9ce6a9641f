CONSTANTS
    c1 = c1
    c2 = c2
    c3 = c3
    Contents = {c1, c2, c3}
    Size <- MCSize
    Junk = Junk
    None = None
SPECIFICATION FairSpec
INVARIANTS TypeOK BytesInPlace CheckpointIsDurable
PROPERTIES StageEnds
CHECK_DEADLOCK FALSE
