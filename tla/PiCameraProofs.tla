---------------------------- MODULE PiCameraProofs ----------------------------
(***************************************************************************)
(* Proofs about PiCamera under any sequence of calls, for every window     *)
(* size and bound: it stays well typed, its FPS window is always the last  *)
(* FpsWindow reads of the epoch, and it implements CaptureDevice under the *)
(* mapping is_open() / self._sequence.                                     *)
(*                                                                         *)
(* WindowIsRecentReads is inductive together with TypeOK alone: the only   *)
(* steps that change the window are a successful open(), which empties     *)
(* both it and the history, and a capture, which WindowAppend covers.  The *)
(* refinement needs no invariant: every step either is a CaptureDevice     *)
(* step or changes neither is_open() nor the counter.                      *)
(***************************************************************************)
EXTENDS PiCamera, CameraBaseProofs

IInv == TypeOK /\ WindowIsRecentReads

LEMMA InitIInv == Init => IInv
BY BaseInitStep DEF Init, IInv, TypeOK, PicamStates

LEMMA NextIInv == IInv /\ [Next]_vars => IInv'
<1> SUFFICES ASSUME IInv, [Next]_vars PROVE IInv'
    OBVIOUS
<1>1. CASE OpenSucceeded
    BY <1>1, ResetEpochStep DEF OpenSucceeded, IInv, TypeOK, PicamStates
<1>2. CASE OpenFailed \/ Close
    BY <1>2
    DEF OpenFailed, Close, Cleanup, IInv, TypeOK, PicamStates,
        baseVars, BaseTypeOK, WindowIsRecentReads
<1>3. ASSUME NEW f \in 0..MaxSeq, Read(f)
      PROVE  IInv'
    <2>1. CASE ReadFails /\ f = 0 /\ UNCHANGED vars
        BY <2>1 DEF IInv, TypeOK, vars, baseVars, BaseTypeOK,
                    WindowIsRecentReads
    <2>2. CASE IsOpen /\ CaptureFrame(f) /\ UNCHANGED picam
        BY <2>2, CaptureFrameStep, CaptureFrameWindow DEF IInv, TypeOK
    <2>3. QED
        BY <1>3, <2>1, <2>2 DEF Read
<1>4. CASE Environment /\ UNCHANGED picam
    BY <1>4, EnvironmentStep DEF IInv, TypeOK, WindowIsRecentReads
<1>5. CASE UNCHANGED vars
    BY <1>5 DEF IInv, TypeOK, vars, baseVars, BaseTypeOK, WindowIsRecentReads
<1>6. QED
    BY <1>1, <1>2, <1>3, <1>4, <1>5 DEF Next, Open

(***************************************************************************)
(* PiCamera's handle, counters, window and rate keep their types under any   *)
(* calls; in particular the rate never gets a zero denominator.            *)
(***************************************************************************)
THEOREM PiTypeCorrect == Spec => []TypeOK
<1>1. IInv => TypeOK
    BY DEF IInv
<1>2. QED
    BY InitIInv, NextIInv, <1>1, PTL DEF Spec

(***************************************************************************)
(* The rolling window of PiCamera.read()   holds exactly the times of the   *)
(* last FpsWindow successful reads since the last successful open(), for   *)
(* every window size.                                                      *)
(***************************************************************************)
THEOREM PiWindowIsRecentReads == Spec => []WindowIsRecentReads
<1>1. IInv => WindowIsRecentReads
    BY DEF IInv
<1>2. QED
    BY InitIInv, NextIInv, <1>1, PTL DEF Spec

-----------------------------------------------------------------------------
(* The measured rate.                                                      *)

LEMMA NextRate ==
    MeasuredFpsMatchesWindow /\ [Next]_vars => MeasuredFpsMatchesWindow'
<1> SUFFICES ASSUME MeasuredFpsMatchesWindow, [Next]_vars
             PROVE  MeasuredFpsMatchesWindow'
    OBVIOUS
<1>1. CASE OpenSucceeded
    BY <1>1, ResetEpochRate DEF OpenSucceeded
<1>2. CASE OpenFailed \/ Close
    BY <1>2, UnchangedRate DEF OpenFailed, Close, Cleanup, baseVars
<1>3. ASSUME NEW f \in 0..MaxSeq, Read(f)
      PROVE  MeasuredFpsMatchesWindow'
    BY <1>3, CaptureFrameRate, UnchangedRate DEF Read, vars, baseVars
<1>4. CASE Environment /\ UNCHANGED picam
    BY <1>4, UnchangedRate DEF Environment, HwFail, HwRecover, Tick,
                               ClockStepBack
<1>5. CASE UNCHANGED vars
    BY <1>5, UnchangedRate DEF vars, baseVars
<1>6. QED
    BY <1>1, <1>2, <1>3, <1>4, <1>5 DEF Next, Open

(***************************************************************************)
(* Spec 3, item 3: whenever the window of PiCamera holds two or more times *)
(* with a positive span, measured_fps is (N - 1) / span of exactly that    *)
(* window, under any calls, hardware faults and clock steps, for every     *)
(* window size.                                                            *)
(***************************************************************************)
THEOREM PiRateMatchesWindow == Spec => []MeasuredFpsMatchesWindow
BY InitRate, NextRate, PTL DEF Spec, Init

-----------------------------------------------------------------------------
(* The refinement.                                                         *)

LEMMA InitRefines == Init => Device!Init
BY DEF Init, BaseInit, Device!Init, IsOpen

LEMMA NextRefines == [Next]_vars => [Device!Next]_Device!vars
<1> SUFFICES ASSUME [Next]_vars PROVE [Device!Next]_Device!vars
    OBVIOUS
<1>1. CASE OpenSucceeded
    BY <1>1 DEF OpenSucceeded, ResetEpoch, IsOpen, Device!Next,
                Device!OpenSucceeds
<1>2. CASE OpenFailed \/ Close
    BY <1>2 DEF OpenFailed, Close, Cleanup, baseVars, IsOpen,
                Device!Next, Device!Release
<1>3. ASSUME NEW f \in 0..MaxSeq, Read(f)
      PROVE  [Device!Next]_Device!vars
    <2>1. CASE ReadFails /\ f = 0 /\ UNCHANGED vars
        BY <2>1 DEF vars, baseVars, IsOpen, Device!vars
    <2>2. CASE IsOpen /\ CaptureFrame(f) /\ UNCHANGED picam
        BY <2>2 DEF CaptureFrame, IsOpen, Device!Next, Device!ReadFrame
    <2>3. QED
        BY <1>3, <2>1, <2>2 DEF Read
<1>4. CASE Environment /\ UNCHANGED picam
    BY <1>4 DEF Environment, HwFail, HwRecover, Tick, ClockStepBack, IsOpen,
                Device!vars
<1>5. CASE UNCHANGED vars
    BY <1>5 DEF vars, baseVars, IsOpen, Device!vars
<1>6. QED
    BY <1>1, <1>2, <1>3, <1>4, <1>5 DEF Next, Open

(***************************************************************************)
(* PiCamera implements the Camera contract of base.py: whatever the order  *)
(* of open(), read() and close() and whatever the hardware does, it is     *)
(* open only after a successful open(), read() returns frames 1, 2, 3, ... *)
(* of the current epoch and only while open, the counter restarts only at  *)
(* a successful open(), and neither a failed open() nor close() touches    *)
(* it. (Whether a failed open() closes the device is not observable here:  *)
(* a call that changes nothing is a stutter of CaptureDevice.)             *)
(***************************************************************************)
THEOREM PiImplementsDevice == Spec => ImplementsCaptureDevice
BY InitRefines, NextRefines, PTL DEF Spec, ImplementsCaptureDevice, Device!Spec
=============================================================================
