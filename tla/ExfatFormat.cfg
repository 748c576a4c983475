SPECIFICATION Spec
CONSTANTS
    Volumes <- MCVolumes
    MaxGlitches = 2
INVARIANTS
    LayoutAgrees
    SuccessMeansLinked
    ErasedBeforeBoot
    FlushedWhenSaid
CHECK_DEADLOCK FALSE
