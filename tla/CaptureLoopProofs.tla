-------------------------- MODULE CaptureLoopProofs --------------------------
(***************************************************************************)
(* Proofs about CaptureLoop for every value of the constants: main()'s     *)
(* state and the camera's stay well typed; the camera's sequence counter   *)
(* always equals the number of frames main() received since the last      *)
(* successful open(), and never exceeds MaxSeq; once main() has stopped    *)
(* the camera is closed; and main() implements CaptureSupervisor's safety  *)
(* part under the mapping SupervisorPhase.                                 *)
(*                                                                         *)
(* Neither typing nor the counter fact holds inductively alone: TypeOK     *)
(* bounds `delivered` by MaxSeq, which a read preserves only because       *)
(* delivered = sequence and the read guard keeps sequence < MaxSeq; so the *)
(* two are proved together as IInv.  The refinement needs SupInv on top:   *)
(* which handle states each backend can be in, that the handler is only    *)
(* installed with the camera open, and that the reconnect states are only  *)
(* reached with the camera closed; without these a step of main() could    *)
(* map to a supervisor step that changes devOpen behind its back.          *)
(***************************************************************************)
EXTENDS CaptureLoop, CameraBaseProofs

-----------------------------------------------------------------------------
(* Lemmas on the steps the camera takes, whichever backend.                *)

HandleStates == {"none", "unopened", "opened", "started"}

\* open() on either backend.
LEMMA CamOpenStep ==
    ASSUME TypeOK, NEW ok \in BOOLEAN, CamOpen(ok)
    PROVE  /\ BaseTypeOK'
           /\ handle' \in HandleStates
           /\ sequence' = IF ok THEN 0 ELSE sequence
<1>1. ResetEpoch => BaseTypeOK' /\ sequence' = 0
    BY MaxSeqAssumption, EmptySeq DEF ResetEpoch, BaseTypeOK, TypeOK
<1>2. UNCHANGED baseVars => BaseTypeOK' /\ sequence' = sequence
    BY DEF baseVars, BaseTypeOK, TypeOK
<1>3. QED
    BY <1>1, <1>2
    DEF CamOpen, Usb!ResetEpoch, Pi!ResetEpoch, Usb!baseVars, Pi!baseVars,
        ResetEpoch, baseVars, Usb!Open, Usb!OpenSucceeded, Usb!OpenNotFound,
        Usb!OpenFailed, Usb!Cleanup, Pi!Open, Pi!OpenSucceeded,
        Pi!OpenFailed, Pi!Cleanup, HandleStates

\* read() returning a frame, on either backend.
LEMMA CamReadStep ==
    ASSUME TypeOK, NEW f \in 1..MaxSeq, CamRead(f)
    PROVE  /\ BaseTypeOK'
           /\ handle' = handle
           /\ sequence' = sequence + 1
<1>1. ~(f = 0)
    OBVIOUS
<1>2. CaptureFrame(f) /\ handle' = handle
    BY <1>1
    DEF CamRead, Usb!Read, Pi!Read, Usb!ReadFails, Pi!ReadFails, Usb!vars,
        Pi!vars, Usb!IsOpen, Pi!IsOpen, CaptureFrame, Usb!CaptureFrame,
        Pi!CaptureFrame, RecordFrameTime, Usb!RecordFrameTime,
        Pi!RecordFrameTime, MeasureFps, Usb!MeasureFps, Pi!MeasureFps
<1>3. QED
    BY <1>2, CaptureFrameStep DEF TypeOK

\* close() on either backend.
LEMMA CamCloseStep ==
    ASSUME CamClose
    PROVE  handle' = "none" /\ UNCHANGED baseVars
BY DEF CamClose, Usb!Close, Usb!Cleanup, Pi!Close, Pi!Cleanup, baseVars,
       Usb!baseVars, Pi!baseVars

-----------------------------------------------------------------------------
(* The inductive invariant.                                                *)

IInv == TypeOK /\ SequenceMatchesDelivered

\* Stuttering of every variable main() and the camera share.
LEMMA UnchangedLoop ==
    ASSUME IInv, UNCHANGED <<handle, baseVars, backend, running, frameCount,
                             lastReport, delivered>>,
           pc' \in PcStates
    PROVE  IInv'
BY DEF IInv, TypeOK, SequenceMatchesDelivered, baseVars, BaseTypeOK

LEMMA InitIInv == Init => IInv
BY MaxSeqAssumption, MaxTimeAssumption
DEF Init, BaseInit, IInv, TypeOK, BaseTypeOK, SequenceMatchesDelivered,
    ZeroFps, Fps, Time, HwStates, PcStates

LEMMA NextIInv == IInv /\ [Next]_vars => IInv'
<1> SUFFICES ASSUME IInv, [Next]_vars PROVE IInv'
    OBVIOUS
<1>1. CASE Create
    <2>1. backend' \in {"none", "usb", "picamera"} /\ pc' \in PcStates
        BY <1>1 DEF Create, CreateCamera, IInv, TypeOK, PcStates
    <2>2. QED
        BY <1>1, <2>1 DEF Create, IInv, TypeOK, SequenceMatchesDelivered,
                          baseVars, BaseTypeOK
<1>2. CASE InitialOpen
    <2>1. PICK ok \in BOOLEAN :
              /\ CamOpen(ok)
              /\ pc' = IF ok THEN "install" ELSE "open_sleep"
              /\ delivered' = IF ok THEN 0 ELSE delivered
        BY <1>2 DEF InitialOpen
    <2>2. QED
        BY <1>2, <2>1, CamOpenStep, MaxSeqAssumption
        DEF InitialOpen, IInv, TypeOK, SequenceMatchesDelivered, HandleStates,
            PcStates
<1>3. CASE InitialSleep
    BY <1>3, UnchangedLoop DEF InitialSleep, PcStates
<1>4. CASE Install
    BY <1>4 DEF Install, IInv, TypeOK, SequenceMatchesDelivered, baseVars,
                BaseTypeOK, PcStates
<1>5. CASE LoopExit
    BY <1>5, CamCloseStep
    DEF LoopExit, IInv, TypeOK, SequenceMatchesDelivered, baseVars,
        BaseTypeOK, PcStates
<1>6. CASE ReadFrame
    <2>1. PICK f \in 1..MaxSeq : CamRead(f)
        BY <1>6 DEF ReadFrame
    <2>2. BaseTypeOK' /\ handle' = handle /\ sequence' = sequence + 1
        BY <2>1, CamReadStep DEF IInv
    <2>3. frameCount' \in Nat /\ lastReport' \in Time
        BY <1>6 DEF ReadFrame, IInv, TypeOK, BaseTypeOK
    <2>4. QED
        BY <1>6, <2>2, <2>3
        DEF ReadFrame, IInv, TypeOK, SequenceMatchesDelivered, BaseTypeOK
<1>7. CASE ReadFailed
    BY <1>7, CamCloseStep
    DEF ReadFailed, IInv, TypeOK, SequenceMatchesDelivered, baseVars,
        BaseTypeOK, PcStates
<1>8. CASE ReconnectOpen
    <2>1. PICK ok \in BOOLEAN :
              /\ CamOpen(ok)
              /\ pc' = IF ok THEN "reconnected" ELSE "reconnect_sleep"
              /\ delivered' = IF ok THEN 0 ELSE delivered
        BY <1>8 DEF ReconnectOpen
    <2>2. QED
        BY <1>8, <2>1, CamOpenStep, MaxSeqAssumption
        DEF ReconnectOpen, IInv, TypeOK, SequenceMatchesDelivered,
            HandleStates, PcStates
<1>9. CASE ReconnectCancelled
    BY <1>9, UnchangedLoop DEF ReconnectCancelled, PcStates
<1>10. CASE ReconnectSleep
    BY <1>10, UnchangedLoop DEF ReconnectSleep, PcStates
<1>11. CASE Reconnected
    BY <1>11 DEF Reconnected, IInv, TypeOK, SequenceMatchesDelivered,
                 baseVars, BaseTypeOK, PcStates
<1>12. CASE Signal
    BY <1>12 DEF Signal, IInv, TypeOK, SequenceMatchesDelivered, baseVars,
                 BaseTypeOK, PcStates
<1>13. CASE World
    <2>1. BaseTypeOK' /\ sequence' = sequence
        BY <1>13, EnvironmentStep DEF World, IInv, TypeOK
    <2>2. QED
        BY <1>13, <2>1 DEF World, loopVars, IInv, TypeOK,
                          SequenceMatchesDelivered
<1>14. CASE Done \/ UNCHANGED vars
    BY <1>14 DEF Done, vars, loopVars, IInv, TypeOK, SequenceMatchesDelivered,
                 baseVars, BaseTypeOK
<1>15. QED
    BY <1>1, <1>2, <1>3, <1>4, <1>5, <1>6, <1>7, <1>8, <1>9, <1>10, <1>11,
       <1>12, <1>13, <1>14 DEF Next, Main

(***************************************************************************)
(* main() and the camera stay well typed in every behaviour, for every     *)
(* window size, bound and set of configured camera types.                  *)
(***************************************************************************)
THEOREM TypeCorrect == Spec => []TypeOK
<1>1. IInv => TypeOK
    BY DEF IInv
<1>2. QED
    BY InitIInv, NextIInv, <1>1, PTL DEF Spec

(***************************************************************************)
(* Spec 8.1 through the capture loop: the camera's self._sequence always   *)
(* equals the number of frames main() received since the last successful  *)
(* open(), across read failures, close() and reconnects.                   *)
(***************************************************************************)
THEOREM SequenceTracksDelivery == Spec => []SequenceMatchesDelivered
<1>1. IInv => SequenceMatchesDelivered
    BY DEF IInv
<1>2. QED
    BY InitIInv, NextIInv, <1>1, PTL DEF Spec

-----------------------------------------------------------------------------
(* The two remaining invariants of the capture_loop run, each inductive    *)
(* relative to IInv.                                                       *)

\* The steps of main() after which it is not at the top of the read loop.
LEMMA LeavesReadLoop ==
    ASSUME Create \/ InitialOpen \/ InitialSleep \/ ReadFailed
           \/ ReconnectOpen \/ ReconnectCancelled \/ ReconnectSleep
    PROVE  pc' \notin {"read", "stopped"}
BY DEF Create, InitialOpen, InitialSleep, ReadFailed, ReconnectOpen,
       ReconnectCancelled, ReconnectSleep

LEMMA FrameCountStep ==
    IInv /\ FrameCountWithinEpoch /\ [Next]_vars => FrameCountWithinEpoch'
<1> SUFFICES ASSUME IInv, FrameCountWithinEpoch, [Next]_vars
             PROVE  FrameCountWithinEpoch'
    OBVIOUS
<1>1. CASE ReadFrame
    BY <1>1 DEF ReadFrame, IInv, TypeOK, FrameCountWithinEpoch
<1>2. CASE Install
    BY <1>2 DEF Install, IInv, TypeOK, FrameCountWithinEpoch
<1>3. CASE Reconnected
    BY <1>3 DEF Reconnected, IInv, TypeOK, FrameCountWithinEpoch
<1>4. CASE Signal
    BY <1>4 DEF Signal, FrameCountWithinEpoch
<1>5. CASE World
    BY <1>5 DEF World, loopVars, FrameCountWithinEpoch
<1>6. CASE Done \/ UNCHANGED vars
    BY <1>6 DEF Done, vars, loopVars, FrameCountWithinEpoch
<1>7. CASE Create \/ InitialOpen \/ InitialSleep \/ ReadFailed
           \/ ReconnectOpen \/ ReconnectCancelled \/ ReconnectSleep
    BY <1>7, LeavesReadLoop DEF FrameCountWithinEpoch
<1>8. CASE LoopExit
    BY <1>8 DEF LoopExit, FrameCountWithinEpoch
<1>9. QED
    BY <1>1, <1>2, <1>3, <1>4, <1>5, <1>6, <1>7, <1>8 DEF Next, Main

LEMMA StoppedStep ==
    StoppedReleasesCamera /\ [Next]_vars => StoppedReleasesCamera'
<1> SUFFICES ASSUME StoppedReleasesCamera, [Next]_vars
             PROVE  StoppedReleasesCamera'
    OBVIOUS
<1>1. CASE LoopExit
    BY <1>1, CamCloseStep DEF LoopExit, StoppedReleasesCamera
<1>2. CASE Create \/ InitialOpen \/ InitialSleep \/ ReadFailed
           \/ ReconnectOpen \/ ReconnectCancelled \/ ReconnectSleep
    BY <1>2, LeavesReadLoop DEF StoppedReleasesCamera
<1>3. CASE Install
    BY <1>3 DEF Install, StoppedReleasesCamera
<1>8. CASE ReadFrame
    BY <1>8 DEF ReadFrame, StoppedReleasesCamera
<1>9. CASE Reconnected
    BY <1>9 DEF Reconnected, StoppedReleasesCamera
<1>4. CASE Signal
    BY <1>4 DEF Signal, HandlerStates, StoppedReleasesCamera
<1>5. CASE World
    BY <1>5 DEF World, Terminated, loopVars, StoppedReleasesCamera
<1>6. CASE Done \/ UNCHANGED vars
    BY <1>6 DEF Done, vars, loopVars, StoppedReleasesCamera
<1>7. QED
    BY <1>1, <1>2, <1>3, <1>4, <1>5, <1>6, <1>8, <1>9 DEF Next, Main

(***************************************************************************)
(* The FPS report of main() never counts frames of an earlier capture      *)
(* epoch: at the top of the read loop, not cancelled, frame_count is at    *)
(* most the number of frames received since the last successful open().   *)
(* It rests on IInv for the types of frame_count and of the history.       *)
(***************************************************************************)
THEOREM FrameCountBounded == Spec => []FrameCountWithinEpoch
<1>1. Init => IInv /\ FrameCountWithinEpoch
    BY InitIInv DEF Init, FrameCountWithinEpoch
<1>2. IInv /\ FrameCountWithinEpoch /\ [Next]_vars
        => (IInv /\ FrameCountWithinEpoch)'
    BY NextIInv, FrameCountStep
<1>3. QED
    BY <1>1, <1>2, PTL DEF Spec

(***************************************************************************)
(* main()'s orderly exit (the finally: camera.close(); return 0) always    *)
(* leaves the camera handle released, whatever the reconnect loop left it  *)
(* in; nothing reopens the camera after that.                             *)
(***************************************************************************)
THEOREM StoppedReleases == Spec => []StoppedReleasesCamera
<1>1. Init => StoppedReleasesCamera
    BY DEF Init, StoppedReleasesCamera
<1>2. QED
    BY <1>1, StoppedStep, PTL DEF Spec

-----------------------------------------------------------------------------
(* main() implements the phases of CaptureSupervisor (safety part).        *)

\* What the handle tells about the phase, beyond the types.
SupInv ==
    /\ pc = "create" => handle = "none"
    /\ backend = "usb" => handle \in {"none", "unopened", "opened"}
    /\ backend # "usb" => handle \in {"none", "started"}
    /\ pc \in PreHandlerStates => running
    /\ pc = "install" => CameraIsOpen
    /\ pc \in {"reconnect", "reconnect_sleep"} => ~CameraIsOpen
    /\ (pc \in {"read", "reconnected"} /\ running) => CameraIsOpen

\* open() on the chosen backend: the handle it leaves, and whether it is open.
LEMMA CamOpenHandle ==
    ASSUME NEW ok \in BOOLEAN, CamOpen(ok)
    PROVE  /\ backend = "usb" => handle' \in {"none", "unopened", "opened"}
           /\ backend # "usb" => handle' \in {"none", "started"}
           /\ CameraIsOpen' <=> ok
BY DEF CamOpen, CameraIsOpen, Usb!Open, Usb!OpenSucceeded, Usb!OpenNotFound,
       Usb!OpenFailed, Usb!Cleanup, Pi!Open, Pi!OpenSucceeded, Pi!OpenFailed,
       Pi!Cleanup

\* read() returns a frame only from an open camera, and keeps its handle.
LEMMA CamReadOpen ==
    ASSUME SupInv, NEW f \in 1..MaxSeq, CamRead(f)
    PROVE  CameraIsOpen /\ handle' = handle
<1>1. ~(f = 0)
    OBVIOUS
<1>2. CASE backend = "usb"
    BY <1>1, <1>2 DEF CamRead, Usb!Read, Usb!IsOpen, Usb!vars, CameraIsOpen
<1>3. CASE backend # "usb"
    BY <1>1, <1>3 DEF CamRead, Pi!Read, Pi!IsOpen, Pi!vars, CameraIsOpen,
                      SupInv
<1>4. QED
    BY <1>2, <1>3

LEMMA InitSupInv == Init => SupInv
BY DEF Init, SupInv, PreHandlerStates, CameraIsOpen

LEMMA NextSupInv == IInv /\ SupInv /\ [Next]_vars => SupInv'
<1> SUFFICES ASSUME IInv, SupInv, [Next]_vars PROVE SupInv'
    OBVIOUS
<1>1. CASE Create
    BY <1>1 DEF Create, SupInv, PreHandlerStates
<1>2. CASE InitialOpen
    BY <1>2, CamOpenHandle DEF InitialOpen, SupInv, PreHandlerStates
<1>3. CASE ReconnectOpen
    BY <1>3, CamOpenHandle DEF ReconnectOpen, SupInv, PreHandlerStates
<1>4. CASE LoopExit \/ ReadFailed
    BY <1>4, CamCloseStep
    DEF LoopExit, ReadFailed, SupInv, PreHandlerStates, CameraIsOpen
<1>5. CASE ReadFrame
    BY <1>5, CamReadOpen DEF ReadFrame, SupInv, PreHandlerStates, CameraIsOpen
<1>6. CASE InitialSleep \/ Install \/ ReconnectCancelled \/ ReconnectSleep
           \/ Reconnected
    BY <1>6 DEF InitialSleep, Install, ReconnectCancelled, ReconnectSleep,
                Reconnected, SupInv, PreHandlerStates, CameraIsOpen
<1>7. CASE Signal
    BY <1>7 DEF Signal, SupInv, PreHandlerStates, HandlerStates, CameraIsOpen
<1>8. CASE World \/ Done \/ UNCHANGED vars
    BY <1>8 DEF World, Done, vars, loopVars, SupInv, CameraIsOpen
<1>9. QED
    BY <1>1, <1>2, <1>3, <1>4, <1>5, <1>6, <1>7, <1>8 DEF Next, Main

LEMMA InitSupervisor == Init => Supervisor!Init
BY DEF Init, Supervisor!Init, SupervisorPhase, CameraIsOpen

LEMMA NextSupervisor ==
    IInv /\ SupInv /\ [Next]_vars => [Supervisor!Next]_Supervisor!vars
<1> SUFFICES ASSUME IInv, SupInv, [Next]_vars
             PROVE  [Supervisor!Next]_Supervisor!vars
    OBVIOUS
<1> USE DEF Supervisor!Next, Supervisor!vars, SupervisorPhase, CameraIsOpen
<1>1. CASE Create
    BY <1>1 DEF Create, CreateCamera, Supervisor!Build
<1>2. CASE InitialOpen
    BY <1>2, CamOpenHandle
    DEF InitialOpen, SupInv, PreHandlerStates, Supervisor!Connect,
        Supervisor!ConnectFails
<1>3. CASE ReconnectOpen
    BY <1>3, CamOpenHandle
    DEF ReconnectOpen, Supervisor!Connect, Supervisor!ConnectFails
<1>4. CASE ReadFrame
    BY <1>4, CamReadOpen DEF ReadFrame
<1>5. CASE ReadFailed
    BY <1>5, CamCloseStep DEF ReadFailed, CameraIsOpen, Supervisor!Disconnect
<1>6. CASE LoopExit
    BY <1>6, CamCloseStep DEF LoopExit, CameraIsOpen, Supervisor!Stop
<1>7. CASE InitialSleep \/ ReconnectSleep \/ Reconnected
    BY <1>7 DEF InitialSleep, ReconnectSleep, Reconnected
<1>8. CASE Install
    BY <1>8 DEF Install, SupInv, PreHandlerStates
<1>9. CASE ReconnectCancelled
    BY <1>9 DEF ReconnectCancelled, SupInv
<1>10. CASE Signal
    BY <1>10 DEF Signal, HandlerStates, PreHandlerStates, Supervisor!Cancel,
                 Supervisor!Abort, Supervisor!Live
<1>11. CASE World \/ Done \/ UNCHANGED vars
    <2>1. UNCHANGED <<handle, pc, running>>
        BY <1>11 DEF World, Done, vars, loopVars
    <2>2. QED
        BY <2>1
<1>12. QED
    BY <1>1, <1>2, <1>3, <1>4, <1>5, <1>6, <1>7, <1>8, <1>9, <1>10, <1>11
    DEF Next, Main

(***************************************************************************)
(* Spec 4.6, the safety half of ImplementsSupervisor, for every value of   *)
(* the constants: every step of main() is a step of the supervisor's phase *)
(* machine or leaves phase, camera and cancellation alone.  In particular  *)
(* the camera is reopened only while `running` holds, main() goes back to  *)
(* connecting only with the camera closed, and it stops only after a       *)
(* signal, with the camera closed.  SupInv supplies what the step needs    *)
(* to know of the handle: it matches the backend, it is open at install    *)
(* and closed in the reconnect loop, and `running` holds before the        *)
(* handlers exist.                                                         *)
(***************************************************************************)
THEOREM SupervisorRefinement ==
    Spec => Supervisor!Init /\ [][Supervisor!Next]_Supervisor!vars
<1>1. Init => IInv /\ SupInv
    BY InitIInv, InitSupInv
<1>2. IInv /\ SupInv /\ [Next]_vars => (IInv /\ SupInv)'
    BY NextIInv, NextSupInv
<1>3. QED
    BY <1>1, <1>2, InitSupervisor, NextSupervisor, PTL DEF Spec

-----------------------------------------------------------------------------
(* A consequence for the read loop.                                         *)

(***************************************************************************)
(* main() reads only from an open camera while not cancelled, for every    *)
(* value of the constants: the reconnect loop hands back to the read loop  *)
(* with `running` set only after open() succeeded.  This is the last      *)
(* conjunct of SupInv; it needs the one before it (the reconnect states    *)
(* have the camera closed) only through the case split on ReconnectOpen.   *)
(***************************************************************************)
THEOREM ReadsOnlyOpen == Spec => []ReadsFromOpenCamera
<1>1. IInv /\ SupInv => ReadsFromOpenCamera
    BY DEF SupInv, ReadsFromOpenCamera
<1>2. QED
    BY <1>1, InitIInv, InitSupInv, NextIInv, NextSupInv, PTL DEF Spec
=============================================================================
