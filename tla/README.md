# Formal model of the APIS edge camera core

These TLA+ modules model the camera layer of `apis-edge` and the capture
supervisor that drives it:

- `src/apis-edge/pi/camera/` — the `Camera` interface, the `PiCamera` backend and the `create_camera` factory.
- `src/pi-legacy/camera/usb.py` — the OpenCV `USBCamera` backend.
- `src/apis-edge/pi/main.py` — `main()`, the open / read / reconnect loop and the signal handling.

TLC model-checks them on small instances. Two abstract specifications state
what the parts promise: `CaptureDevice` is the `Camera` contract of `base.py`,
and `CaptureSupervisor` is the phase behaviour of `main()` described in
`spec.md` §4.6. Both backends are shown to implement `CaptureDevice`, and
`main()` is shown to implement `CaptureSupervisor`. TLAPS proves, for every
value of the constants:

- the type invariants and the window invariant of both backends;
- the frame-numbering, frame-count and release invariants of the composed system;
- the three refinements (for the supervisor, the safety part).

## The system

`main()` starts by building a camera with `create_camera(settings.camera)`. For
type `auto`, the factory probes `Picamera2()` and falls back to USB. An unknown
type raises `ValueError`. `create_camera` is called outside the `try`
(`main.py` 111), so the exception escapes `main()` (`pc = "config_error"`).

Next, `main()` retries `camera.open()` every `retry_interval` seconds (default 30,
`settings.py` 22) until it succeeds. Only after
that does it install the SIGINT/SIGTERM handlers. Each handler sets
`running = False`.

The main loop then calls `camera.read()`:

- **A frame:** `main()` counts it and logs the FPS every 10 s.
- **`None`:** `main()` closes the camera and retries `open()` while `running`.
  Once it is back, and if still running, it resets its statistics.

When the loop ends, the `finally` block closes the camera.

Each backend keeps a handle (`_cap` or `_picam`), a frame counter `_sequence`
(reset by every successful `open()`) and a rolling window `_frame_times` of the
last `fps_window` read times. The window gives `_measured_fps = (len - 1) / elapsed`.
Both backends read the wall clock with `time.time()`.

What is hard to test here is the order of independent events:

- a signal arriving at any point of the open, read or reconnect cycle;
- the device failing or coming back between any two calls;
- the wall clock jumping backwards.

## Modules

| module | models | state ↔ code |
|---|---|---|
| `CameraBase` | the identical counter and FPS code of both backends (`usb.py` 53-57, 106-108, 134-156; `picamera.py` 55-59, 109-110, 139-161) | `sequence`=`_sequence`, `frameTimes`=`_frame_times`, `measuredFps`=`_measured_fps` as a fraction, `now`=`time.time()`, `hw`=health of the device (environment), `readTimes`=history of reads in the epoch |
| `UsbCamera` | `USBCamera` open/read/close/_cleanup/is_open | `cap` ∈ {none, unopened, opened} = `_cap` is None / a VideoCapture whose `isOpened()` is False / an open one |
| `PiCamera` | `PiCamera` open/read/close/_cleanup/is_open | `picam` ∈ {none, started} = `_picam` |
| `CaptureLoop` | `create_camera` and `main()`; instantiates both backends over one `handle` variable (`INSTANCE UsbCamera WITH cap <- handle`, `INSTANCE PiCamera WITH picam <- handle`) | `pc` = where `main()` is, `running`, `frameCount`=`frame_count`, `lastReport`=`last_fps_report`, `backend` = class chosen, `delivered` = frames `main()` got since the last successful open (history) |
| `CaptureDevice` | the `Camera` contract (`base.py` 59-108): closed/open, frames numbered from 1 in each epoch, read only when open | `devOpen` = `is_open()`, `seq` = number of the last frame returned |
| `CaptureSupervisor` | what `main()` promises (`spec.md` §4.6), as phases starting / connecting / running / stopped / failed / aborted | `phase`, `devOpen`, `cancelled` = a shutdown signal was handled |
| `CameraBaseProofs` | lemmas on the shared counter and window code: typing, the trim keeps the last `FpsWindow` times (`WindowAppend`) | — |
| `UsbCameraProofs`, `PiCameraProofs` | TLAPS proofs about each backend | — |
| `CaptureLoopProofs` | TLAPS proofs about `CaptureLoop` | — |
| `MC*` | constants for TLC | — |

In the two device modules, `Next` lets an arbitrary caller call any method in
any order. This is the library's own contract. `CaptureLoop` restricts the calls
to those `main()` makes, and the camera methods are dispatched on `backend` as
the `Camera` interface does.

Each action models a whole method or a whole loop step:

- **`Create`:** the factory call at `main.py` 111-119.
- **`InitialOpen` and `InitialSleep`:** lines 122-129.
- **`Install`:** lines 139-153.
- **`ReadFrame`:** lines 157 and 182-196. This is a read that returns a frame, including the FPS report and the counter reset.
- **`ReadFailed`:** lines 159-165, the `None` branch up to `close()`.
- **`ReconnectOpen`, `ReconnectSleep` and `ReconnectCancelled`:** lines 167-174.
- **`Reconnected`:** lines 176-180.
- **`LoopExit`:** lines 156 and 206-211.

`Signal` is the OS delivering SIGINT/SIGTERM. Once the handlers exist, it clears
`running`. Before they exist, it ends the process (`pc = "killed"`).

Data is abstracted:

- A frame is its sequence number.
- The clock is an integer in `0..MaxTime`.
- The FPS is `[num, den]`, never divided.
- The `retry_interval` sleeps are single steps.

## Refinements

- **Backends.** `UsbCamera` and `PiCamera` end with
  `Device == INSTANCE CaptureDevice WITH devOpen <- IsOpen, seq <- sequence`
  and check `ImplementsCaptureDevice == Device!Spec`.
  - A successful `open()` is `OpenSucceeds`.
  - A failed `open()` and `close()` are `Release` steps when they close the
    device, and stutters when they change nothing. Return values are not state,
    so the contract cannot tell whether a failed `open()` closed the device. It
    does check that a failed `open()` never touches the frame counter. The
    `pi_device` mutant is the reordering bug that breaks this: `open()`
    resetting `_sequence` before `Picamera2()` is called.
  - A read that returns a frame is `ReadFrame`.
  - A read that returns `None`, hardware faults and clock steps are stutters.
- **Supervisor.** `CaptureLoop` maps its state with `SupervisorPhase`:
  - `create` is starting;
  - the open and reconnect states are connecting;
  - `install` is running;
  - `read` and `reconnected` are running when the camera is open and
    connecting otherwise;
  - `stopped`, `killed` and `config_error` are stopped, aborted and failed.

  `devOpen` is mapped to `CameraIsOpen` and `cancelled` to `~running`. The
  refinement says that `main()`:
  - runs only with the device open;
  - closes the device before it reconnects (`main.py` 164);
  - never opens the device once cancelled;
  - under the fairness of `main()`, eventually stops once cancelled.

## Runs

| run | cfg | result | what it shows |
|---|---|---|---|
| `usb_device` | `MCUsbCamera.cfg` | pass, 4.5k states | `WindowIsRecentReads`: the FPS window is exactly the last `FpsWindow` read times of the current epoch, under any call order, failures and clock steps; `MeasuredFpsMatchesWindow`: whenever the window has two or more times with a positive span, the rate is `(N-1)/span` of that window (spec §3 item 3); `ImplementsCaptureDevice` |
| `pi_device` | `MCPiCamera.cfg` | pass, 3k states | the same for `PiCamera`, including `open()` on an open camera |
| `capture_loop` | `MCCaptureLoop.cfg` | pass, 134k states | `SequenceMatchesDelivered`, `FrameCountWithinEpoch`, `StoppedReleasesCamera`, `ReadsFromOpenCamera` (while not cancelled, `main()` reads only from an open camera); under weak fairness of `main()`, `CancelLeadsToStop`, `RecoversWhenHardwareStaysOk` (if the hardware stays `ok`, `main()` ends up reading from an open camera or terminated) and `ImplementsSupervisor` |
| `usb_handle_iff_open` | `MCUsb_HandlePresentIffOpen.cfg` | violation | `USBCamera.open()` keeps an unopened VideoCapture (usb.py 85-87) |
| `usb_fps_after_reopen` | `MCUsb_MeasuredFpsZeroBelowTwoSamples.cfg` | violation | `open()` keeps the previous epoch's `_measured_fps` (usb.py 106-108, picamera.py 109-110) |
| `loop_signal_before_handlers` | `MCLoop_NoAbruptExit.cfg` | violation | a signal during the initial open loop kills the process (main.py 122-148) |
| `loop_report_clock` | `MCLoop_ReportStartNotInFuture.cfg` | violation | a wall clock set back while reading puts `last_fps_report` in the future, so rate reports stall (main.py 186) |

Three violations are disagreements with `spec.md` (§3, §4.2, §8.3, §4.6).
The fourth is a gap: `spec.md` does not say which clock times the reporting
interval. All four are recorded as findings in `PROJECT.json`.

**Bounds.** The bounds are:

- `FpsWindow = 2`;
- `MaxSeq = 3` frames per epoch;
- `MaxTime = 3`, with the clock allowed to step back;
- camera types {auto, usb, picamera, fisheye};
- `ReportInterval = 2`.

With these bounds every interesting case happens:

- the window is trimmed (3 reads > window 2);
- an elapsed time can be 0 or negative;
- a report fires and resets the count;
- at least two epochs occur, with reads in each;
- the invalid type and both factory branches are reached.

Every action and every disjunct of `Next` fires in the passing runs. Each
property has a mutant of the code it is about (`PROJECT.json`, `mutants`), and
TLC catches every mutant.

**Fairness.** Only `WF_vars(Main)` is assumed. `main()` is a single thread that
always makes progress unless a call blocks, and `spec.md` §5 accepts hung
hardware calls. The environment is not fair: the hardware may fail forever, the
clock may stop, and a signal may never come. `CancelLeadsToStop` therefore says
only that, once `running` is cleared, the loop reaches `stopped`.
`RecoversWhenHardwareStaysOk` is an implication with the hardware's
behaviour as its premise (`<>[](hw = "ok")`). Recovery also covers an
`open()` on a Pi camera that is still started: it fails on the busy camera,
but its `_cleanup()` releases that camera, so the next retry can succeed.

## Proofs

The named `ASSUME`s are:

- `FpsWindow ≥ 1`;
- `MaxSeq`, `MaxTime` and `ReportInterval` are naturals;
- `ReportInterval ≥ 1`.

For every value of the constants they allow, TLAPS proves the following.

- **`CameraBaseProofs`** holds the lemmas on the shared code.
  - `WindowAppend`: trimming `LastN(r, k)` with a new time gives
    `LastN(Append(r, t), k)`. The trim in `read()` never keeps a stale time and
    never drops a recent one. The proof works element by element with
    `SubSeq`, `Append` and `SeqEqual` from `SequenceTheorems`.
  - The typing of the trim and of the rate (`RecordFrameTimeType`, `MeasureFpsType`).
  - One lemma per step of the shared code (`ResetEpochStep`, `CaptureFrameStep`,
    `CaptureFrameWindow`, `EnvironmentStep`, `BaseInitStep`).
  - Four lemmas about the rate: a capture recomputes it from the window it
    leaves, `open()` empties the window, and other steps leave both alone.
- **`UsbCameraProofs` and `PiCameraProofs`.**
  - `*TypeCorrect`: `Spec => []TypeOK`.
  - `*WindowIsRecentReads`: `Spec => []WindowIsRecentReads`. The inductive
    invariant is `TypeOK /\ WindowIsRecentReads`: only a successful `open()`
    (which empties both the window and the history) and a capture
    (`WindowAppend`) change the window.
  - `*RateMatchesWindow`: `Spec => []MeasuredFpsMatchesWindow`. This is
    inductive on its own, with no type invariant.
  - `*ImplementsDevice`: `Spec => ImplementsCaptureDevice`. Each step maps to a
    `CaptureDevice` step or a stutter; no invariant is needed.
- **`CaptureLoopProofs`.**
  - `TypeCorrect` and `SequenceTracksDelivery`. `TypeOK` alone is not
    inductive: `delivered' = delivered + 1` stays in `0..MaxSeq` only because
    `delivered = sequence < MaxSeq`. They are proved together as
    `IInv == TypeOK /\ SequenceMatchesDelivered`, with one case of `NextIInv`
    per action.
  - `FrameCountBounded` (`FrameCountWithinEpoch`) and `StoppedReleases`
    (`StoppedReleasesCamera`), each inductive relative to `IInv`.
  - `SupervisorRefinement`: `Spec => Supervisor!Init /\ [][Supervisor!Next]_...`.
    The refinement needs the invariant `SupInv`:
    - which handle states each backend can be in;
    - that `running` holds before the handlers are installed;
    - that `install` is reached only with the camera open;
    - that the reconnect states are reached only with the camera closed.

    - that in `read` and `reconnected` the camera is open unless `running`
      has been cleared.

    Without `SupInv`, a step of `main()` could map to a supervisor step that
    changes `devOpen` unseen. TLC checked `SupInv` as an invariant of
    `capture_loop`'s instance before it was proved.
  - `ReadsOnlyOpen` (`ReadsFromOpenCamera`) is the last conjunct of `SupInv`.
    It needs the conjunct that the reconnect states have the camera closed.
  - `SupervisorRefinement` already implies that a cancelled `main()` never
    opens the camera again: only the supervisor's `Connect` opens the device,
    and it requires that no shutdown signal has been handled. That is why no
    separate property states it.

**Only model-checked:**

- The liveness properties `CancelLeadsToStop` and
  `RecoversWhenHardwareStaysOk`, and the `WF_vars(Stop)` conjunct of
  `ImplementsSupervisor`. These need fairness and `ENABLED`, which are out of
  TLAPS's reach.
- `NoAbruptExit`, `HandlePresentIffOpen`, `MeasuredFpsZeroBelowTwoSamples` and
  `ReportStartNotInFuture`, which are violated.

Every invariant of a passing run is stated by a theorem.

## Not modelled

- **Settings loading (`config/settings.py`, `get_settings()`):** YAML parsing
  into dataclasses and a process-wide singleton, called once by `main()` before
  any camera exists. The code is sequential and has no state that the capture
  core changes. The one value the model depends on is the camera type, which is
  the constant `CameraTypes` (valid and invalid types).
- **Logging, directories and the CLI:** glue with no concurrency.
- **Release of an overwritten unopened `VideoCapture`** (`usb.py` 83) **and of a
  half-closed auto-probe instance** (`__init__.py` 86-87): both are left to
  CPython's reference counting and to `picamera2`.
- **The USB actual resolution:** it feeds only the `resolution` property.
- **Frame pixel data and timestamps.**
- **Whether `picamera2` releases the camera when `stop()` raises inside
  `_cleanup()`:** this is library behaviour; the model treats `_cleanup()` as
  releasing.
- **`Frame.create` raising:** it cannot on a buffer the capture returned.

## Plan for later sittings

1. A finer model of `PiCamera._cleanup()` partial failure (`stop()` raising),
   with the camera staying acquired as a nondeterministic outcome.
2. A proof that `CaptureLoop`'s camera, under `main()`'s calls, implements
   `CaptureDevice`, composed from the backends' refinements.
3. Larger instances of `capture_loop`, e.g. `MaxSeq = 4` with two backends.
