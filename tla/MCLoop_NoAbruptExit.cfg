CONSTANTS
    FpsWindow <- MC_FpsWindow
    MaxSeq <- MC_MaxSeq
    MaxTime <- MC_MaxTime
    ClockMayStepBack = TRUE
    CameraTypes <- MC_CameraTypes
    ReportInterval <- MC_ReportInterval
SPECIFICATION Spec
INVARIANT
    NoAbruptExit
