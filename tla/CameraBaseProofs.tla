-------------------------- MODULE CameraBaseProofs --------------------------
(***************************************************************************)
(* Facts about the counter and FPS-window code that USBCamera and PiCamera *)
(* share (CameraBase), used by the proofs about each backend and about     *)
(* the capture loop.                                                       *)
(***************************************************************************)
EXTENDS CameraBase, SequenceTheorems, TLAPS

\* The trimmed window is a sequence of clock values.
LEMMA RecordFrameTimeType ==
    ASSUME NEW s \in Seq(Time), NEW t \in Time
    PROVE  RecordFrameTime(s, t) \in Seq(Time)
<1>1. Append(s, t) \in Seq(Time) /\ Len(Append(s, t)) = Len(s) + 1
    BY AppendProperties
<1>2. CASE Len(Append(s, t)) > FpsWindow
    <2>1. /\ Len(Append(s, t)) - FpsWindow + 1 \in Int
          /\ Len(Append(s, t)) \in Int
          /\ \A i \in (Len(Append(s, t)) - FpsWindow + 1)..Len(Append(s, t)) :
                Append(s, t)[i] \in Time
        BY <1>1, <1>2, FpsWindowAssumption, ElementOfSeq
    <2>2. QED
        BY <1>2, <2>1, SubSeqProperties DEF RecordFrameTime
<1>3. CASE ~(Len(Append(s, t)) > FpsWindow)
    BY <1>1, <1>3 DEF RecordFrameTime
<1>4. QED
    BY <1>2, <1>3

\* The recomputed rate is a fraction with a positive denominator.
LEMMA MeasureFpsType ==
    ASSUME NEW s \in Seq(Time), NEW fps \in Fps
    PROVE  MeasureFps(s, fps) \in Fps
<1>1. CASE Len(s) >= 2 /\ s[Len(s)] - s[1] > 0
    <2>1. s[Len(s)] \in Time /\ s[1] \in Time
        BY <1>1, ElementOfSeq
    <2>2. QED
        BY <1>1, <2>1, MaxTimeAssumption DEF MeasureFps, Fps, Time
<1>2. QED
    BY <1>1 DEF MeasureFps

\* A successful capture keeps the types and advances the counter by one.
LEMMA CaptureFrameStep ==
    ASSUME BaseTypeOK, NEW f, CaptureFrame(f)
    PROVE  BaseTypeOK' /\ sequence' = sequence + 1
<1>1. frameTimes' \in Seq(Time)
    BY RecordFrameTimeType DEF BaseTypeOK, CaptureFrame
<1>2. measuredFps' \in Fps
    BY <1>1, MeasureFpsType DEF BaseTypeOK, CaptureFrame
<1>3. readTimes' \in Seq(Time)
    BY AppendProperties DEF BaseTypeOK, CaptureFrame
<1>4. sequence' \in 0..MaxSeq /\ sequence' = sequence + 1
    BY MaxSeqAssumption DEF BaseTypeOK, CaptureFrame
<1>5. QED
    BY <1>1, <1>2, <1>3, <1>4 DEF BaseTypeOK, CaptureFrame

-----------------------------------------------------------------------------
(* The window as the tail of the read history.                             *)

\* The last k elements of s: their number, and where each comes from in s.
LEMMA LastNProperties ==
    ASSUME NEW s \in Seq(Time), NEW k \in Nat \ {0}
    PROVE  /\ LastN(s, k) \in Seq(Time)
           /\ Len(LastN(s, k)) = IF Len(s) > k THEN k ELSE Len(s)
           /\ \A i \in 1..Len(LastN(s, k)) :
                 LastN(s, k)[i] = s[Len(s) - Len(LastN(s, k)) + i]
<1>1. CASE Len(s) > k
    <2>1. \A i \in (Len(s) - k + 1)..Len(s) : s[i] \in Time
        BY <1>1, ElementOfSeq
    <2>2. /\ SubSeq(s, Len(s) - k + 1, Len(s)) \in Seq(Time)
          /\ Len(SubSeq(s, Len(s) - k + 1, Len(s))) = k
          /\ \A i \in 1..k : SubSeq(s, Len(s) - k + 1, Len(s))[i]
                               = s[Len(s) - k + 1 + i - 1]
        BY <1>1, <2>1, SubSeqProperties
    <2>3. QED
        BY <1>1, <2>2 DEF LastN
<1>2. CASE ~(Len(s) > k)
    BY <1>2 DEF LastN
<1>3. QED
    BY <1>1, <1>2

\* The trim in read() keeps the last FpsWindow times.
LEMMA RecordIsLastN ==
    ASSUME NEW s, NEW t
    PROVE  RecordFrameTime(s, t) = LastN(Append(s, t), FpsWindow)
BY DEF RecordFrameTime, LastN

(***************************************************************************)
(* Recording a read in the window of the last k reads gives the window of  *)
(* the last k reads of the longer history: the trim never keeps a stale    *)
(* time nor loses a recent one.                                            *)
(***************************************************************************)
LEMMA WindowAppend ==
    ASSUME NEW r \in Seq(Time), NEW t \in Time
    PROVE  RecordFrameTime(LastN(r, FpsWindow), t)
             = LastN(Append(r, t), FpsWindow)
<1> DEFINE k == FpsWindow
           L == LastN(r, k)
           A == Append(r, t)
           B == Append(L, t)
<1>1. k \in Nat \ {0}
    BY FpsWindowAssumption
<1>2. /\ L \in Seq(Time)
      /\ Len(L) = IF Len(r) > k THEN k ELSE Len(r)
      /\ \A i \in 1..Len(L) : L[i] = r[Len(r) - Len(L) + i]
    BY <1>1, LastNProperties
<1>3. /\ A \in Seq(Time) /\ Len(A) = Len(r) + 1
      /\ \A i \in 1..Len(r) : A[i] = r[i]
      /\ A[Len(r) + 1] = t
    BY AppendProperties
<1>4. /\ B \in Seq(Time) /\ Len(B) = Len(L) + 1
      /\ \A i \in 1..Len(L) : B[i] = L[i]
      /\ B[Len(L) + 1] = t
    BY <1>2, AppendProperties
<1>5. /\ LastN(A, k) \in Seq(Time)
      /\ Len(LastN(A, k)) = IF Len(A) > k THEN k ELSE Len(A)
      /\ \A i \in 1..Len(LastN(A, k)) :
            LastN(A, k)[i] = A[Len(A) - Len(LastN(A, k)) + i]
    BY <1>1, <1>3, LastNProperties
<1>6. /\ LastN(B, k) \in Seq(Time)
      /\ Len(LastN(B, k)) = IF Len(B) > k THEN k ELSE Len(B)
      /\ \A i \in 1..Len(LastN(B, k)) :
            LastN(B, k)[i] = B[Len(B) - Len(LastN(B, k)) + i]
    BY <1>1, <1>4, LastNProperties
<1>7. Len(LastN(B, k)) = Len(LastN(A, k))
    BY <1>1, <1>2, <1>3, <1>4, <1>5, <1>6
<1>8. ASSUME NEW i \in 1..Len(LastN(B, k))
      PROVE  LastN(B, k)[i] = LastN(A, k)[i]
    <2> DEFINE m == Len(LastN(A, k))
    <2>1. m \in Nat /\ i \in 1..m /\ m <= Len(L) + 1 /\ Len(L) \in Nat
          /\ Len(r) \in Nat /\ Len(L) <= Len(r)
        BY <1>1, <1>2, <1>3, <1>5, <1>7, LenProperties
    <2>2. LastN(B, k)[i] = B[Len(L) + 1 - m + i]
        <3>1. LastN(B, k)[i] = B[Len(B) - Len(LastN(B, k)) + i]
            BY <1>6
        <3>2. Len(B) - Len(LastN(B, k)) + i = Len(L) + 1 - m + i
            BY <1>4, <1>7, <2>1
        <3>3. QED
            BY <3>1, <3>2
    <2>3. LastN(A, k)[i] = A[Len(r) + 1 - m + i]
        <3>1. i \in 1..Len(LastN(A, k))
            BY <1>7
        <3>2. LastN(A, k)[i] = A[Len(A) - Len(LastN(A, k)) + i]
            BY <1>5, <3>1
        <3>3. Len(A) - Len(LastN(A, k)) + i = Len(r) + 1 - m + i
            BY <1>3, <2>1
        <3>4. QED
            BY <3>2, <3>3
    <2>4. CASE i = m
        BY <1>3, <1>4, <2>1, <2>2, <2>3, <2>4
    <2>5. CASE i < m
        <3>1. Len(L) + 1 - m + i \in 1..Len(L)
            BY <2>1, <2>5
        <3>2. B[Len(L) + 1 - m + i] = r[Len(r) + 1 - m + i]
            <4> DEFINE j == Len(L) + 1 - m + i
            <4>1. B[j] = L[j]
                BY <1>4, <3>1
            <4>2. L[j] = r[Len(r) - Len(L) + j]
                BY <1>2, <3>1
            <4>3. Len(r) - Len(L) + j = Len(r) + 1 - m + i
                BY <2>1
            <4>4. QED
                BY <4>1, <4>2, <4>3
        <3>3. Len(r) + 1 - m + i \in 1..Len(r)
            BY <2>1, <2>5
        <3>4. QED
            BY <1>3, <2>2, <2>3, <3>2, <3>3
    <2>6. QED
        BY <2>1, <2>4, <2>5
<1>9. LastN(B, k) = LastN(A, k)
    BY <1>5, <1>6, <1>7, <1>8, SeqEqual
<1>10. QED
    BY <1>9, RecordIsLastN

-----------------------------------------------------------------------------
(* The steps of CameraBase and the window invariant.                       *)

\* A successful open() resets the counter and the window, and keeps types.
LEMMA ResetEpochStep ==
    ASSUME BaseTypeOK, ResetEpoch
    PROVE  BaseTypeOK' /\ WindowIsRecentReads' /\ sequence' = 0
<1>1. LastN(<<>>, FpsWindow) = <<>>
    BY FpsWindowAssumption DEF LastN
<1>2. QED
    BY <1>1, MaxSeqAssumption, EmptySeq
    DEF ResetEpoch, BaseTypeOK, WindowIsRecentReads

\* A successful read() keeps the window equal to the last reads.
LEMMA CaptureFrameWindow ==
    ASSUME BaseTypeOK, WindowIsRecentReads, NEW f, CaptureFrame(f)
    PROVE  WindowIsRecentReads'
BY WindowAppend DEF BaseTypeOK, WindowIsRecentReads, CaptureFrame

\* A step of the environment touches neither the counter nor the window.
LEMMA EnvironmentStep ==
    ASSUME BaseTypeOK, Environment
    PROVE  /\ BaseTypeOK'
           /\ UNCHANGED <<sequence, frameTimes, readTimes>>
BY MaxTimeAssumption
DEF Environment, HwFail, HwRecover, Tick, ClockStepBack, BaseTypeOK,
    Time, HwStates

\* The initial state has the types and an empty window.
LEMMA BaseInitStep ==
    ASSUME BaseInit
    PROVE  BaseTypeOK /\ WindowIsRecentReads /\ sequence = 0
<1>1. LastN(<<>>, FpsWindow) = <<>>
    BY FpsWindowAssumption DEF LastN
<1>2. QED
    BY <1>1, MaxSeqAssumption, MaxTimeAssumption
    DEF BaseInit, BaseTypeOK, WindowIsRecentReads, ZeroFps, Fps, Time, HwStates
-----------------------------------------------------------------------------
(* The measured rate follows the window.                                   *)

\* A capture recomputes the rate from the trimmed window it leaves.
LEMMA CaptureFrameRate ==
    ASSUME NEW f, CaptureFrame(f)
    PROVE  MeasuredFpsMatchesWindow'
BY DEF CaptureFrame, MeasureFps, MeasuredFpsMatchesWindow

\* A successful open() empties the window, so the rate is unconstrained.
LEMMA ResetEpochRate ==
    ASSUME ResetEpoch
    PROVE  MeasuredFpsMatchesWindow'
BY DEF ResetEpoch, MeasuredFpsMatchesWindow

\* A step that touches neither the window nor the rate keeps them matched.
LEMMA UnchangedRate ==
    ASSUME MeasuredFpsMatchesWindow, UNCHANGED <<frameTimes, measuredFps>>
    PROVE  MeasuredFpsMatchesWindow'
BY DEF MeasuredFpsMatchesWindow

\* Initially the window is empty.
LEMMA InitRate ==
    ASSUME BaseInit
    PROVE  MeasuredFpsMatchesWindow
BY DEF BaseInit, MeasuredFpsMatchesWindow
=============================================================================
