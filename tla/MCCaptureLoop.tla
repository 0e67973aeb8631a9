--------------------------- MODULE MCCaptureLoop ---------------------------
(* main() with every camera type, a window of two, three frames per epoch *)
(* and a clock of 0..3 that may be set back, so that a rate report, a     *)
(* window trim and a reconnect can all happen in one behaviour.           *)
EXTENDS CaptureLoop

MC_FpsWindow == 2
MC_MaxSeq == 3
MC_MaxTime == 3
MC_CameraTypes == {"auto", "usb", "picamera", "fisheye"}
MC_ReportInterval == 2
=============================================================================
