SPECIFICATION Spec
CONSTANTS
    Sizes = {62521344}
    WipedBlocks = 32768
    MaxGlitches = 0
INVARIANT SitNatZeroed
CHECK_DEADLOCK FALSE
