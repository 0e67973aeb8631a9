----------------------------- MODULE CaptureLoop -----------------------------
(***************************************************************************)
(* main() of apis-edge/pi/main.py driving the camera that create_camera()  *)
(* (apis-edge/pi/camera/__init__.py) builds.  One thread runs main(); the  *)
(* only other actor is the OS delivering SIGINT/SIGTERM, whose Python      *)
(* handler runs between two steps of that thread.  The camera is USBCamera *)
(* or PiCamera, instantiated with its handle as the variable `handle`.     *)
(*                                                                         *)
(* pc names the point main() is at:                                        *)
(*   "create"          create_camera(settings.camera.type, ...)            *)
(*   "open"            while not camera.open():       (before handlers)    *)
(*   "open_sleep"        time.sleep(retry_interval)                        *)
(*   "install"         running = True; signal.signal(...); counters        *)
(*   "read"            while running: frame = camera.read() ...            *)
(*   "reconnect"       while running and not camera.open():                *)
(*   "reconnect_sleep"   time.sleep(retry_interval)                        *)
(*   "reconnected"     if running: frame_count = 0; ...; continue          *)
(*   "stopped"         finally: camera.close(); return 0                   *)
(*   "killed"          a signal before the handlers: the process dies      *)
(*   "config_error"    create_camera raised ValueError                     *)
(* time.sleep is a step of its own; time passes by the environment's Tick. *)
(***************************************************************************)
EXTENDS CameraBase

CONSTANTS
    CameraTypes,     \* values settings.camera.type may hold
    ReportInterval   \* fps_report_interval (10 seconds in the code)

ASSUME ReportIntervalAssumption == ReportInterval \in Nat \ {0}

VARIABLES
    handle,      \* the camera's self._cap / self._picam
    backend,     \* the class create_camera chose: "usb", "picamera" or "none"
    pc,          \* where main() is
    running,     \* main()'s running flag, cleared by signal_handler
    frameCount,  \* frame_count
    lastReport,  \* last_fps_report
    delivered    \* history: frames main() received since the last open()

loopVars == <<backend, pc, running, frameCount, lastReport, delivered>>

vars == <<handle, baseVars, loopVars>>

Usb == INSTANCE UsbCamera WITH cap <- handle

Pi == INSTANCE PiCamera WITH picam <- handle

PcStates == {"create", "open", "open_sleep", "install", "read", "reconnect",
             "reconnect_sleep", "reconnected", "stopped", "killed",
             "config_error"}

\* Where signal_handler is installed: a signal clears `running`.
HandlerStates == {"read", "reconnect", "reconnect_sleep", "reconnected"}

\* Before signal.signal(): SIGINT raises KeyboardInterrupt, SIGTERM kills.
PreHandlerStates == {"create", "open", "open_sleep", "install"}

Terminated == {"stopped", "killed", "config_error"}

TypeOK ==
    /\ handle \in {"none", "unopened", "opened", "started"}
    /\ BaseTypeOK
    /\ backend \in {"none", "usb", "picamera"}
    /\ pc \in PcStates
    /\ running \in BOOLEAN
    /\ frameCount \in Nat
    /\ lastReport \in Time
    /\ delivered \in 0..MaxSeq

Init ==
    /\ handle = "none"
    /\ BaseInit
    /\ backend = "none"
    /\ pc = "create"
    /\ running = TRUE
    /\ frameCount = 0
    /\ lastReport = 0
    /\ delivered = 0

(***************************************************************************)
(* create_camera(camera_type): the class it returns, or "invalid" for the  *)
(* ValueError.  "auto" probes with Picamera2() and close(); probeOk says   *)
(* whether the probe succeeded.                                            *)
(***************************************************************************)
CreateCamera(type, probeOk) ==
    CASE type = "picamera" -> "picamera"
      [] type = "usb"      -> "usb"
      [] type = "auto"     -> IF probeOk THEN "picamera" ELSE "usb"
      [] OTHER             -> "invalid"

\* The calls main() makes on the camera, dispatched on its class.
CamOpen(ok) == IF backend = "usb" THEN Usb!Open(ok) ELSE Pi!Open(ok)

CamRead(f) == IF backend = "usb" THEN Usb!Read(f) ELSE Pi!Read(f)

CamReadFails == IF backend = "usb" THEN Usb!ReadFails ELSE Pi!ReadFails

CamClose == IF backend = "usb" THEN Usb!Close ELSE Pi!Close

-----------------------------------------------------------------------------
Create ==
    /\ pc = "create"
    /\ \E type \in CameraTypes, probeOk \in BOOLEAN :
         LET cls == CreateCamera(type, probeOk)
         IN  IF cls = "invalid"
             THEN pc' = "config_error" /\ UNCHANGED backend
             ELSE pc' = "open" /\ backend' = cls
    /\ UNCHANGED <<handle, baseVars, running, frameCount, lastReport, delivered>>

\* while not camera.open(): ...  (no cancellation check)
InitialOpen ==
    /\ pc = "open"
    /\ \E ok \in BOOLEAN :
         /\ CamOpen(ok)
         /\ pc' = IF ok THEN "install" ELSE "open_sleep"
         /\ delivered' = IF ok THEN 0 ELSE delivered
    /\ UNCHANGED <<backend, running, frameCount, lastReport>>

InitialSleep ==
    /\ pc = "open_sleep"
    /\ pc' = "open"
    /\ UNCHANGED <<handle, baseVars, backend, running, frameCount,
                   lastReport, delivered>>

\* running = True; handlers installed; frame_count = 0; last_fps_report
Install ==
    /\ pc = "install"
    /\ pc' = "read"
    /\ running' = TRUE
    /\ frameCount' = 0
    /\ lastReport' = now
    /\ UNCHANGED <<handle, baseVars, backend, delivered>>

\* while running: is false -> finally camera.close(); return 0
LoopExit ==
    /\ pc = "read"
    /\ ~running
    /\ CamClose
    /\ pc' = "stopped"
    /\ UNCHANGED <<backend, running, frameCount, lastReport, delivered>>

(***************************************************************************)
(* camera.read() returns a frame: frame_count += 1, and when at least      *)
(* fps_report_interval has passed since last_fps_report, the rate is       *)
(* reported and both are reset.                                            *)
(***************************************************************************)
ReadFrame ==
    /\ pc = "read"
    /\ running
    /\ \E f \in 1..MaxSeq : CamRead(f)
    /\ delivered' = delivered + 1
    /\ IF now - lastReport >= ReportInterval
       THEN frameCount' = 0 /\ lastReport' = now
       ELSE frameCount' = frameCount + 1 /\ UNCHANGED lastReport
    /\ UNCHANGED <<backend, pc, running>>

\* Mutant: the None branch goes straight to the reconnect loop.
ReadFailedKeepsCamera ==
    /\ pc = "read"
    /\ running
    /\ CamReadFails
    /\ pc' = "reconnect"
    /\ UNCHANGED <<handle, baseVars, backend, running, frameCount,
                   lastReport, delivered>>

\* camera.read() returns None: camera.close(), then the reconnect loop
ReadFailed ==
    /\ pc = "read"
    /\ running
    /\ CamReadFails
    /\ CamClose
    /\ pc' = "reconnect"
    /\ UNCHANGED <<backend, running, frameCount, lastReport, delivered>>

\* Mutant: the reconnect loop is `while not camera.open():`.
ReconnectOpenIgnoresRunning ==
    /\ pc = "reconnect"
    /\ \E ok \in BOOLEAN :
         /\ CamOpen(ok)
         /\ pc' = IF ok THEN "reconnected" ELSE "reconnect_sleep"
         /\ delivered' = IF ok THEN 0 ELSE delivered
    /\ UNCHANGED <<backend, running, frameCount, lastReport>>

\* Mutant: `while running and camera.open():`, the `not` dropped.
ReconnectOpenDroppedNot ==
    /\ pc = "reconnect"
    /\ running
    /\ \E ok \in BOOLEAN :
         /\ CamOpen(ok)
         /\ pc' = IF ok THEN "reconnect_sleep" ELSE "reconnected"
         /\ delivered' = IF ok THEN 0 ELSE delivered
    /\ UNCHANGED <<backend, running, frameCount, lastReport>>

\* while running and not camera.open(): ...
ReconnectOpen ==
    /\ pc = "reconnect"
    /\ running
    /\ \E ok \in BOOLEAN :
         /\ CamOpen(ok)
         /\ pc' = IF ok THEN "reconnected" ELSE "reconnect_sleep"
         /\ delivered' = IF ok THEN 0 ELSE delivered
    /\ UNCHANGED <<backend, running, frameCount, lastReport>>

\* `running and ...` is false: open() is not called
ReconnectCancelled ==
    /\ pc = "reconnect"
    /\ ~running
    /\ pc' = "reconnected"
    /\ UNCHANGED <<handle, baseVars, backend, running, frameCount,
                   lastReport, delivered>>

ReconnectSleep ==
    /\ pc = "reconnect_sleep"
    /\ pc' = "reconnect"
    /\ UNCHANGED <<handle, baseVars, backend, running, frameCount,
                   lastReport, delivered>>

\* Mutant: the statistics are not reset after a reconnect.
ReconnectedNoReset ==
    /\ pc = "reconnected"
    /\ pc' = "read"
    /\ UNCHANGED <<handle, baseVars, backend, running, frameCount,
                   lastReport, delivered>>

\* if running: frame_count = 0; last_fps_report = time.time(); continue
Reconnected ==
    /\ pc = "reconnected"
    /\ pc' = "read"
    /\ IF running THEN frameCount' = 0 /\ lastReport' = now
                  ELSE UNCHANGED <<frameCount, lastReport>>
    /\ UNCHANGED <<handle, baseVars, backend, running, delivered>>

\* The thread running main().
Main ==
    \/ Create \/ InitialOpen \/ InitialSleep \/ Install \/ LoopExit
    \/ ReadFrame \/ ReadFailed \/ ReconnectOpen \/ ReconnectCancelled
    \/ ReconnectSleep \/ Reconnected

(***************************************************************************)
(* SIGINT or SIGTERM.  Once installed, signal_handler sets running = False *)
(* (the handler runs between bytecodes of the main thread, and an          *)
(* interrupted sleep or capture call resumes).  Before that the default    *)
(* action ends the process: KeyboardInterrupt, which camera.open()'s       *)
(* `except Exception` does not catch, or termination.                      *)
(***************************************************************************)
Signal ==
    \/ /\ pc \in HandlerStates
       /\ running
       /\ running' = FALSE
       /\ UNCHANGED <<handle, baseVars, backend, pc, frameCount, lastReport,
                      delivered>>
    \/ /\ pc \in PreHandlerStates
       /\ pc' = "killed"
       /\ UNCHANGED <<handle, baseVars, backend, running, frameCount,
                      lastReport, delivered>>

\* The hardware and the clock, while the process lives.
World ==
    /\ pc \notin Terminated
    /\ Environment
    /\ UNCHANGED <<handle, loopVars>>

\* The process has exited.
Done ==
    /\ pc \in Terminated
    /\ UNCHANGED vars

Next == Main \/ Signal \/ World \/ Done

(***************************************************************************)
(* Every call main() makes returns (the spec accepts that a hung capture   *)
(* call cannot be interrupted) and the thread is never descheduled for     *)
(* ever: weak fairness of Main.  Signals and the hardware are not fair.    *)
(***************************************************************************)
Spec == Init /\ [][Next]_vars /\ WF_vars(Main)

-----------------------------------------------------------------------------
CameraIsOpen == handle \in {"opened", "started"}

(***************************************************************************)
(* Spec 8.1, end to end: the sequence counter of the camera equals the     *)
(* number of frames main() has received since the last successful open(), *)
(* so the frames of each capture epoch reach main() numbered 1, 2, 3, ...  *)
(* across any number of read failures, closes and reconnects.             *)
(***************************************************************************)
SequenceMatchesDelivered == sequence = delivered

(***************************************************************************)
(* The rate report never counts frames of an earlier capture epoch: while  *)
(* main() is reading and not cancelled, frame_count is at most the number  *)
(* of frames received since the last successful reconnect.                 *)
(***************************************************************************)
FrameCountWithinEpoch == (pc = "read" /\ running) => frameCount <= delivered

(***************************************************************************)
(* Spec 4.6 (Running): a rate report is emitted once the reporting         *)
(* interval has elapsed.  main() measures the interval as time.time() -    *)
(* last_fps_report, so this needs the start of the interval never to lie   *)
(* in the future of the clock main() reads; if it does, `now -            *)
(* last_fps_report` is negative and reports stop until the clock passes    *)
(* last_fps_report again.                                                  *)
(***************************************************************************)
ReportStartNotInFuture == (pc = "read" /\ running) => lastReport <= now

(***************************************************************************)
(* An orderly exit (main() returns 0) always leaves the camera released,   *)
(* whichever state the reconnect loop left self._cap in.                   *)
(***************************************************************************)
StoppedReleasesCamera == pc = "stopped" => handle = "none"

(***************************************************************************)
(* Cancellation is honoured: once the handler has cleared `running`, main()*)
(* reaches its orderly exit, even if the camera never comes back.          *)
(***************************************************************************)
CancelLeadsToStop == (pc \in HandlerStates /\ ~running) ~> (pc = "stopped")

(***************************************************************************)
(* Spec 4.6: once the camera exists, the supervisor polls cancellation at  *)
(* the top of Connecting and Running, so a signal always ends in the      *)
(* orderly shutdown (close the device, return success), never in the      *)
(* process being killed.                                                  *)
(***************************************************************************)
NoAbruptExit == ~(pc = "killed" /\ backend # "none")

(***************************************************************************)
(* The supervisor recovers from any hardware outage: if, from some point   *)
(* on, the camera hardware stays usable, main() ends up for good either    *)
(* reading from an open camera or exited: the reconnect loop leaves as     *)
(* soon as open() succeeds, and an open() that PiCamera fails because its  *)
(* own camera is still started releases that camera, so the next retry    *)
(* can succeed.                                                           *)
(***************************************************************************)
RecoversWhenHardwareStaysOk ==
    <>[](hw = "ok") => <>[](pc \in Terminated \/ (pc = "read" /\ CameraIsOpen))

(***************************************************************************)
(* main() calls read() on a closed camera only once cancelled: while it is *)
(* in the read loop with `running` set, the camera is open.  The reconnect *)
(* loop `while running and not camera.open()` is left only when open()     *)
(* succeeded or a signal cleared `running`, and a hardware failure leaves  *)
(* the handle as it was.                                                  *)
(***************************************************************************)
ReadsFromOpenCamera == (pc = "read" /\ running) => CameraIsOpen

(***************************************************************************)
(* The phase of CaptureSupervisor that main() is in.  Where main() is at   *)
(* the top of the read loop or about to `continue` into it, the phase is   *)
(* "running" exactly when the camera is open: it is closed there only      *)
(* after a cancelled reconnect, on the way to the orderly exit.            *)
(***************************************************************************)
SupervisorPhase ==
    CASE pc = "create"                         -> "starting"
      [] pc \in {"open", "open_sleep", "reconnect", "reconnect_sleep"}
                                               -> "connecting"
      [] pc = "install"                        -> "running"
      [] pc \in {"read", "reconnected"}        ->
             IF CameraIsOpen THEN "running" ELSE "connecting"
      [] pc = "stopped"                        -> "stopped"
      [] pc = "killed"                         -> "aborted"
      [] pc = "config_error"                   -> "failed"

Supervisor == INSTANCE CaptureSupervisor
                  WITH phase <- SupervisorPhase, devOpen <- CameraIsOpen,
                       cancelled <- ~running

(***************************************************************************)
(* Spec 4.6: main() implements the supervisor's phases.  It reopens the    *)
(* camera only while not cancelled, runs only with the camera open, closes *)
(* it before reconnecting, and once a signal has cleared `running` it      *)
(* stops with the camera closed.                                           *)
(***************************************************************************)
ImplementsSupervisor == Supervisor!Spec
=============================================================================
