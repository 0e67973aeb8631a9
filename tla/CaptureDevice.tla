---------------------------- MODULE CaptureDevice ----------------------------
(***************************************************************************)
(* What a camera backend promises its caller, as the Camera interface      *)
(* (apis-edge/pi/camera/base.py) and its typical-usage comment describe    *)
(* it: the device is closed or open; a successful open() opens it and      *)
(* starts a new capture epoch whose frames are numbered from 1; a failed   *)
(* open() and close() leave it closed; read() either returns the next      *)
(* frame of the epoch, only when the device is open, or returns None and   *)
(* changes nothing.  The FPS window, the clock and the hardware are        *)
(* implementation state and do not appear here.  Return values are not    *)
(* state either: a call that leaves is_open() and the counter as they were *)
(* is a stutter, so this contract cannot tell a failed open() on an open   *)
(* device that left it open from no call at all.                          *)
(***************************************************************************)
EXTENDS Naturals

VARIABLES
    devOpen,    \* is_open()
    seq         \* sequence number of the last frame read() returned

vars == <<devOpen, seq>>

Init ==
    /\ devOpen = FALSE
    /\ seq = 0

\* open() returns True: a new epoch starts.
OpenSucceeds ==
    /\ devOpen' = TRUE
    /\ seq' = 0

\* open() returns False, or close(): the device ends up closed.
Release ==
    /\ devOpen' = FALSE
    /\ UNCHANGED seq

\* read() returns a Frame: only from an open device, numbered seq + 1.
ReadFrame ==
    /\ devOpen
    /\ seq' = seq + 1
    /\ UNCHANGED devOpen

Next == OpenSucceeds \/ Release \/ ReadFrame

\* read() returning None is a stuttering step.
Spec == Init /\ [][Next]_vars
=============================================================================
