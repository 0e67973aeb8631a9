------------------------------ MODULE PiCamera ------------------------------
(***************************************************************************)
(* PiCamera (apis-edge/pi/camera/picamera.py): the picamera2 backend.      *)
(* self._picam is None or a configured, started Picamera2 ("started").     *)
(* As in UsbCamera, Next lets an arbitrary caller call any method.         *)
(*                                                                         *)
(* Picamera2() acquires the camera, so it raises when the hardware has     *)
(* failed and also when this object already holds the camera.  The focus  *)
(* controls failing is tolerated and does not change any state.           *)
(***************************************************************************)
EXTENDS CameraBase

VARIABLE picam  \* self._picam

vars == <<picam, baseVars>>

PicamStates == {"none", "started"}

TypeOK ==
    /\ picam \in PicamStates
    /\ BaseTypeOK

Init ==
    /\ picam = "none"
    /\ BaseInit

\* is_open(): self._picam is not None
IsOpen == picam # "none"

\* _cleanup(): stop() and close() with their errors ignored, then None
Cleanup == picam' = "none"

(***************************************************************************)
(* open() succeeds: Picamera2() acquires the camera, it is configured,     *)
(* focus is set (or the failure logged), it is started, counters reset.    *)
(***************************************************************************)
OpenSucceeded ==
    /\ hw = "ok"
    /\ picam = "none"
    /\ picam' = "started"
    /\ ResetEpoch

\* Mutant: open() resets self._sequence and self._frame_times at the top of
\* the try, before Picamera2() (lines 109-110 moved above line 82).
OpenFailedResetsEpoch ==
    /\ hw = "failed" \/ picam = "started"
    /\ Cleanup
    /\ ResetEpoch

(***************************************************************************)
(* open() fails: picamera2 missing (ImportError, self._picam untouched,    *)
(* hence still None), or Picamera2(), configure() or start() raises and    *)
(* _cleanup() releases whatever self._picam held -- when open() is called  *)
(* on a started camera, Picamera2() finds it busy and _cleanup() stops the *)
(* started one.                                                            *)
(***************************************************************************)
OpenFailed ==
    /\ hw = "failed" \/ picam = "started"
    /\ Cleanup
    /\ UNCHANGED baseVars

\* open() returning ok
Open(ok) ==
    \/ ok /\ OpenSucceeded
    \/ ~ok /\ OpenFailed

\* read() returns None: not open, or capture_array() raises.
ReadFails == ~IsOpen \/ hw = "failed"

\* read() returning f (0 stands for None); the RGB to BGR copy is data only
Read(f) ==
    \/ /\ ReadFails
       /\ f = 0
       /\ UNCHANGED vars
    \/ /\ IsOpen
       /\ CaptureFrame(f)
       /\ UNCHANGED picam

\* close()
Close ==
    /\ Cleanup
    /\ UNCHANGED baseVars

Next ==
    \/ \E ok \in BOOLEAN : Open(ok)
    \/ \E f \in 0..MaxSeq : Read(f)
    \/ Close
    \/ Environment /\ UNCHANGED picam

Spec == Init /\ [][Next]_vars

(***************************************************************************)
(* PiCamera implements the Camera contract of base.py: under the mapping   *)
(* is_open() / self._sequence, every open(), read() and close() the       *)
(* library allows, in any order and whatever the hardware does, is a step *)
(* of CaptureDevice or leaves its state alone.  In particular the frame   *)
(* counter restarts only with a successful open(), and a failed open()    *)
(* never touches it.                                                      *)
(***************************************************************************)
Device == INSTANCE CaptureDevice WITH devOpen <- IsOpen, seq <- sequence

ImplementsCaptureDevice == Device!Spec
=============================================================================
