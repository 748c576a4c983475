SPECIFICATION Spec
CONSTANTS
    Sizes = {4000, 28671, 30000, 32775, 69632, 94216, 102400, 106496, 110592, 1073152, 7864320, 62521344, 125045424}
    WipedBlocks = 32768
    MaxGlitches = 2
INVARIANTS
    LayoutSound
    SuperblockSeals
    PausedAfterFlush
    TrapsOnlyBelow18MB
CHECK_DEADLOCK FALSE
