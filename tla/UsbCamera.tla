------------------------------ MODULE UsbCamera ------------------------------
(***************************************************************************)
(* USBCamera (pi-legacy/camera/usb.py): the OpenCV backend.  self._cap is  *)
(* None, a VideoCapture whose device did not open ("unopened"), or an open *)
(* VideoCapture ("opened").  Every method may be called at any time: this  *)
(* module's Next is the library seen by an arbitrary caller; CaptureLoop   *)
(* instantiates it under the calls main() makes.                           *)
(*                                                                         *)
(* open(), read() and close() never raise; outcomes of the OpenCV calls    *)
(* depend on the hardware: isOpened(), the property reads and the test     *)
(* read all succeed exactly when hw = "ok".                                *)
(***************************************************************************)
EXTENDS CameraBase

VARIABLE cap    \* self._cap

vars == <<cap, baseVars>>

CapStates == {"none", "unopened", "opened"}

TypeOK ==
    /\ cap \in CapStates
    /\ BaseTypeOK

Init ==
    /\ cap = "none"
    /\ BaseInit

\* is_open(): self._cap is not None and self._cap.isOpened()
IsOpen == cap = "opened"

\* Mutant: _cleanup() releases only a VideoCapture whose isOpened() holds.
CleanupOnlyIfOpened == cap' = IF cap = "opened" THEN "none" ELSE cap

\* _cleanup(): release() with its errors ignored, then self._cap = None
Cleanup == cap' = "none"

(***************************************************************************)
(* open() on a working device: VideoCapture opens, the resolution and rate *)
(* are set and read back, the test frame is read, the counters reset.      *)
(***************************************************************************)
OpenSucceeded ==
    /\ hw = "ok"
    /\ cap' = "opened"
    /\ ResetEpoch

(***************************************************************************)
(* open() when the device is missing: self._cap holds the new VideoCapture *)
(* whose isOpened() is False, and open() returns False with no cleanup.    *)
(***************************************************************************)
OpenNotFound ==
    /\ hw = "failed"
    /\ cap' = "unopened"
    /\ UNCHANGED baseVars

(***************************************************************************)
(* open() when the device opens but the test read fails, or any call       *)
(* raises: _cleanup() releases the handle and open() returns False.        *)
(***************************************************************************)
OpenFailed ==
    /\ hw = "failed"
    /\ Cleanup
    /\ UNCHANGED baseVars

\* open() returning ok
Open(ok) ==
    \/ ok /\ OpenSucceeded
    \/ ~ok /\ (OpenNotFound \/ OpenFailed)

\* read() returns None: the device is not open, or cap.read() fails.
ReadFails == ~IsOpen \/ hw = "failed"

\* read() returning f (0 stands for None)
Read(f) ==
    \/ /\ ReadFails
       /\ f = 0
       /\ UNCHANGED vars
    \/ /\ IsOpen
       /\ CaptureFrame(f)
       /\ UNCHANGED cap

\* close()
Close ==
    /\ Cleanup
    /\ UNCHANGED baseVars

Next ==
    \/ \E ok \in BOOLEAN : Open(ok)
    \/ \E f \in 0..MaxSeq : Read(f)
    \/ Close
    \/ Environment /\ UNCHANGED cap

Spec == Init /\ [][Next]_vars

-----------------------------------------------------------------------------
(***************************************************************************)
(* Spec 3: the device's handle is present iff it is open.  USBCamera keeps *)
(* the unopened VideoCapture of a failed open() in self._cap.              *)
(***************************************************************************)
HandlePresentIffOpen == (cap # "none") <=> IsOpen

(***************************************************************************)
(* USBCamera implements the Camera contract of base.py: under the mapping    *)
(* is_open() / self._sequence, every open(), read() and close() the       *)
(* library allows, in any order and whatever the hardware does, is a step *)
(* of CaptureDevice or leaves its state alone.                            *)
(***************************************************************************)
Device == INSTANCE CaptureDevice WITH devOpen <- IsOpen, seq <- sequence

ImplementsCaptureDevice == Device!Spec
=============================================================================
