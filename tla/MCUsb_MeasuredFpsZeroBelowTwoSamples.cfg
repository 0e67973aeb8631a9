CONSTANTS
    FpsWindow <- MC_FpsWindow
    MaxSeq <- MC_MaxSeq
    MaxTime <- MC_MaxTime
    ClockMayStepBack = TRUE
SPECIFICATION Spec
INVARIANT
    MeasuredFpsZeroBelowTwoSamples
