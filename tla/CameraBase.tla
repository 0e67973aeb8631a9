----------------------------- MODULE CameraBase -----------------------------
(***************************************************************************)
(* State and steps that the two camera backends share.  USBCamera          *)
(* (pi-legacy/camera/usb.py) and PiCamera (apis-edge/pi/camera/picamera.py) *)
(* carry identical copies of the frame counter, the rolling FPS window and *)
(* its update in read(); both read the wall clock with time.time(); both   *)
(* depend on capture hardware that may stop working and come back.         *)
(*                                                                         *)
(* Data abstraction: a captured frame is represented by its sequence       *)
(* number only (Frame.create derives width and height from the buffer, so  *)
(* no control depends on them); time.time() is an integer clock in         *)
(* 0..MaxTime; the measured rate (len - 1) / elapsed is kept as the pair   *)
(* numerator / denominator, never divided.                                 *)
(***************************************************************************)
EXTENDS Integers, Sequences

CONSTANTS
    FpsWindow,          \* self._fps_window (30 in the code)
    MaxSeq,             \* bound on frames read in one capture epoch
    MaxTime,            \* bound on the wall clock
    ClockMayStepBack    \* whether time.time() may be set backwards (NTP)

ASSUME FpsWindowAssumption == FpsWindow \in Nat \ {0}
ASSUME MaxSeqAssumption == MaxSeq \in Nat
ASSUME MaxTimeAssumption == MaxTime \in Nat
ASSUME ClockAssumption == ClockMayStepBack \in BOOLEAN

VARIABLES
    hw,           \* capture hardware: "ok" or "failed" (environment)
    now,          \* the value time.time() returns
    sequence,     \* self._sequence
    frameTimes,   \* self._frame_times
    measuredFps,  \* self._measured_fps
    readTimes     \* history: times of all successful reads since open()

baseVars == <<hw, now, sequence, frameTimes, measuredFps, readTimes>>

Time == 0..MaxTime

HwStates == {"ok", "failed"}

\* A measured rate (len - 1) / elapsed, kept as a fraction.
Fps == [num : Nat, den : Nat \ {0}]

ZeroFps == [num |-> 0, den |-> 1]

BaseTypeOK ==
    /\ hw \in HwStates
    /\ now \in Time
    /\ sequence \in 0..MaxSeq
    /\ frameTimes \in Seq(Time)
    /\ measuredFps \in Fps
    /\ readTimes \in Seq(Time)

BaseInit ==
    /\ hw \in HwStates
    /\ now = 0
    /\ sequence = 0
    /\ frameTimes = <<>>
    /\ measuredFps = ZeroFps
    /\ readTimes = <<>>

\* Mutant: the trim keeps one time too many.
RecordFrameTimeKeepsOneMore(times, t) ==
    LET s == Append(times, t)
    IN  IF Len(s) > FpsWindow + 1 THEN SubSeq(s, Len(s) - FpsWindow, Len(s))
                                  ELSE s

(***************************************************************************)
(* self._frame_times.append(now), then, if the list is longer than         *)
(* self._fps_window, keep self._frame_times[-self._fps_window:].           *)
(***************************************************************************)
RecordFrameTime(times, t) ==
    LET s == Append(times, t)
    IN  IF Len(s) > FpsWindow THEN SubSeq(s, Len(s) - FpsWindow + 1, Len(s))
                              ELSE s

\* Mutant: `if elapsed >= 0` instead of `if elapsed > 0`.
MeasureFpsElapsedNonNeg(times, fps) ==
    IF Len(times) >= 2 /\ times[Len(times)] - times[1] >= 0
    THEN [num |-> Len(times) - 1, den |-> times[Len(times)] - times[1]]
    ELSE fps

(***************************************************************************)
(* If the window holds at least two times and elapsed = last - first is    *)
(* positive, the rate becomes (len - 1) / elapsed; otherwise it keeps its  *)
(* previous value.                                                         *)
(***************************************************************************)
MeasureFps(times, fps) ==
    IF Len(times) >= 2 /\ times[Len(times)] - times[1] > 0
    THEN [num |-> Len(times) - 1, den |-> times[Len(times)] - times[1]]
    ELSE fps

\* Mutant: the rate is computed from the window before it is trimmed.
CaptureFrameRateBeforeTrim(f) ==
    /\ hw = "ok"
    /\ sequence < MaxSeq
    /\ f = sequence + 1
    /\ frameTimes' = RecordFrameTime(frameTimes, now)
    /\ measuredFps' = MeasureFps(Append(frameTimes, now), measuredFps)
    /\ sequence' = sequence + 1
    /\ readTimes' = Append(readTimes, now)
    /\ UNCHANGED <<hw, now>>

(***************************************************************************)
(* The successful half of read(): the capture returned a buffer; the time  *)
(* is recorded in the window, the rate recomputed, the sequence counter    *)
(* incremented and the Frame returned carries the new counter f.           *)
(***************************************************************************)
CaptureFrame(f) ==
    /\ hw = "ok"
    /\ sequence < MaxSeq
    /\ f = sequence + 1
    /\ frameTimes' = RecordFrameTime(frameTimes, now)
    /\ measuredFps' = MeasureFps(frameTimes', measuredFps)
    /\ sequence' = sequence + 1
    /\ readTimes' = Append(readTimes, now)
    /\ UNCHANGED <<hw, now>>

\* Mutant: open() leaves self._frame_times as it was.
ResetEpochKeepsWindow ==
    /\ sequence' = 0
    /\ readTimes' = <<>>
    /\ UNCHANGED <<hw, now, measuredFps, frameTimes>>

\* Mutant: open() leaves self._sequence as it was.
ResetEpochKeepsSequence ==
    /\ frameTimes' = <<>>
    /\ readTimes' = <<>>
    /\ UNCHANGED <<hw, now, measuredFps, sequence>>

(***************************************************************************)
(* What a successful open() does to the counters: self._sequence = 0 and   *)
(* self._frame_times = [] (the measured rate is left as it was).           *)
(***************************************************************************)
ResetEpoch ==
    /\ sequence' = 0
    /\ frameTimes' = <<>>
    /\ readTimes' = <<>>
    /\ UNCHANGED <<hw, now, measuredFps>>

(***************************************************************************)
(* The environment: the hardware fails or recovers (a camera unplugged,    *)
(* busy or wedged, then usable again), and the wall clock advances or, if  *)
(* ClockMayStepBack, is set back.                                          *)
(***************************************************************************)
HwFail ==
    /\ hw = "ok"
    /\ hw' = "failed"
    /\ UNCHANGED <<now, sequence, frameTimes, measuredFps, readTimes>>

HwRecover ==
    /\ hw = "failed"
    /\ hw' = "ok"
    /\ UNCHANGED <<now, sequence, frameTimes, measuredFps, readTimes>>

Tick ==
    /\ now < MaxTime
    /\ now' = now + 1
    /\ UNCHANGED <<hw, sequence, frameTimes, measuredFps, readTimes>>

ClockStepBack ==
    /\ ClockMayStepBack
    /\ now > 0
    /\ now' \in 0..(now - 1)
    /\ UNCHANGED <<hw, sequence, frameTimes, measuredFps, readTimes>>

Environment == HwFail \/ HwRecover \/ Tick \/ ClockStepBack

-----------------------------------------------------------------------------
(***************************************************************************)
(* The last k elements of s (s itself when it is shorter).                 *)
(***************************************************************************)
LastN(s, k) ==
    IF Len(s) > k THEN SubSeq(s, Len(s) - k + 1, Len(s)) ELSE s

(***************************************************************************)
(* Rolling window (read() in both backends): the FPS window always holds   *)
(* exactly the times of the last FpsWindow successful reads of the current *)
(* capture epoch, oldest first.  Breaks if open() forgets to clear the     *)
(* window or the trim keeps the wrong slice.                               *)
(***************************************************************************)
WindowIsRecentReads == frameTimes = LastN(readTimes, FpsWindow)

(***************************************************************************)
(* Spec 4.2: measured_fps is 0 while the window holds fewer than two       *)
(* timestamps.  open() clears the window but not self._measured_fps.       *)
(***************************************************************************)
MeasuredFpsZeroBelowTwoSamples ==
    Len(frameTimes) < 2 => measuredFps.num = 0

(***************************************************************************)
(* Spec 3, item 3, for two or more samples: whenever the window holds at   *)
(* least two times with a positive span, measured_fps is exactly           *)
(* (N - 1) / (newest - oldest) of that window.  read() must recompute the  *)
(* rate from the trimmed window on every capture, and nothing else may     *)
(* touch the window without the rate following it.                         *)
(***************************************************************************)
MeasuredFpsMatchesWindow ==
    LET n == Len(frameTimes)
    IN  (n >= 2 /\ frameTimes[n] - frameTimes[1] > 0)
            => measuredFps = [num |-> n - 1, den |-> frameTimes[n] - frameTimes[1]]
=============================================================================
