---------------------------- MODULE MCUsbCamera ----------------------------
(* USBCamera called by an arbitrary client, on a small instance: a window *)
(* of two times, so that the trim happens on the third read of an epoch.  *)
EXTENDS UsbCamera

MC_FpsWindow == 2
MC_MaxSeq == 3
MC_MaxTime == 3
=============================================================================
