-------------------------- MODULE CaptureSupervisor --------------------------
(***************************************************************************)
(* What the capture supervisor (main() in apis-edge/pi/main.py) promises,  *)
(* at the level of its phases: after the camera is built it connects,      *)
(* retrying open() for as long as it is not cancelled; it runs only with   *)
(* the device open; a failed read closes the device and goes back to       *)
(* connecting; once cancelled it never opens the device again, and it      *)
(* eventually stops with the device closed.  A process can also be killed *)
(* from outside at any moment (Abort); that is the environment's step,     *)
(* not a promise of the supervisor.                                        *)
(***************************************************************************)
VARIABLES
    phase,      \* "starting", "connecting", "running", "stopped", "failed",
                \* "aborted"
    devOpen,    \* the device is open
    cancelled   \* a shutdown signal has been received

vars == <<phase, devOpen, cancelled>>

Live == {"starting", "connecting", "running"}

Init ==
    /\ phase = "starting"
    /\ devOpen = FALSE
    /\ cancelled = FALSE

\* The factory builds the device, or rejects the configuration.
Build ==
    /\ phase = "starting"
    /\ phase' \in {"connecting", "failed"}
    /\ UNCHANGED <<devOpen, cancelled>>

\* An open() that succeeds: only when not cancelled.
Connect ==
    /\ phase = "connecting"
    /\ ~cancelled
    /\ phase' = "running"
    /\ devOpen' = TRUE
    /\ UNCHANGED cancelled

\* An open() that fails leaves the device closed.
ConnectFails ==
    /\ phase = "connecting"
    /\ ~cancelled
    /\ devOpen' = FALSE
    /\ UNCHANGED <<phase, cancelled>>

\* A failed read: the device is closed and connecting starts again.
Disconnect ==
    /\ phase = "running"
    /\ phase' = "connecting"
    /\ devOpen' = FALSE
    /\ UNCHANGED cancelled

\* A shutdown signal.
Cancel ==
    /\ phase \in Live
    /\ cancelled' = TRUE
    /\ UNCHANGED <<phase, devOpen>>

\* The orderly shutdown once cancellation is observed.
Stop ==
    /\ cancelled
    /\ phase \in {"connecting", "running"}
    /\ phase' = "stopped"
    /\ devOpen' = FALSE
    /\ UNCHANGED cancelled

\* The process dies.
Abort ==
    /\ phase \in Live
    /\ phase' = "aborted"
    /\ UNCHANGED <<devOpen, cancelled>>

Next == Build \/ Connect \/ ConnectFails \/ Disconnect \/ Cancel \/ Stop \/ Abort

\* Reads that return a frame, and sleeps, are stuttering steps.  Only the
\* shutdown is promised to happen; connecting may go on for ever.
Spec == Init /\ [][Next]_vars /\ WF_vars(Stop)
=============================================================================
