----------------------------- MODULE Subprocess -----------------------------
(***************************************************************************)
(* A child process as _run_command (wifi.py), masscan_discover (masscan.py)  *)
(* and _run_nmap (nse.py) use one: create_subprocess_exec, communicate     *)
(* under a timeout, and on a timeout kill and wait.  The child exits when  *)
(* it likes, also between the timeout and the kill, which then finds no    *)
(* process (ProcessLookupError, suppressed).                               *)
(***************************************************************************)
VARIABLE
    child  \* the child: none, running, ok or failed (exited), killed

TypeOK == child \in {"none", "running", "ok", "failed", "killed"}

Init == child = "none"

Exited == child \in {"ok", "failed"}

Start ==
    /\ child = "none"
    /\ child' = "running"

(* The child's own step: it exits with return code 0 or another. *)
Exit ==
    /\ child = "running"
    /\ child' \in {"ok", "failed"}

(* communicate() returns and has reaped the child. *)
Collect ==
    /\ Exited
    /\ child' = "none"

(* The timeout of wait_for: kill.                                          *)
Kill ==
    /\ child = "running"
    /\ child' = "killed"

(* wait() reaps the killed child, or one that exited on its own before it. *)
Wait ==
    /\ child = "killed" \/ Exited
    /\ child' = "none"

=============================================================================
