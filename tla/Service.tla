------------------------------ MODULE Service ------------------------------
(***************************************************************************)
(* The agent as a Windows service: the service control manager (SCM), the  *)
(* agent's processes with their two threads of control (main, and Execute, *)
(* which talks to the SCM), and the installer.                             *)
(*                                                                         *)
(* The SCM believes what Execute reports: once it has returned, the        *)
(* service is stopped and may be started again, although main looks at the *)
(* stop channel only after its first sync.  Processes are numbered in the  *)
(* order in which the SCM creates them.                                    *)
(***************************************************************************)
EXTENDS Naturals

CONSTANT MaxProcesses   \* bound: agent processes explored

ASSUME BoundAssumption == MaxProcesses \in Nat

Processes == 1..MaxProcesses

VARIABLES
  registered,  \* "absent", "present", or "marked" for deletion
  state,       \* what the SCM takes the service's state to be
  current,     \* the process the SCM runs the service in, or 0
  created,     \* processes created so far
  main,        \* main[p]: where process p stands, "gone" once it ended
  exec,        \* exec[p]: its Execute
  control,     \* control[p]: a Stop is on its way to Execute
  stop,        \* stop[p]: the stop channel is closed
  port,        \* the process that listens on :8080, or 0
  installer    \* what the installer is about to do

vars == <<registered, state, current, created, main, exec, control, stop, port, installer>>
scm == <<registered, state, current, created>>
process == <<main, exec, control, stop, port>>

TypeOK ==
  /\ registered \in {"absent", "present", "marked"}
  /\ state \in {"stopped", "starting", "running", "stopping"}
  /\ current \in 0..created
  /\ created \in 0..MaxProcesses
  /\ main \in [Processes -> {"new", "sync", "serving", "gone"}]
  /\ exec \in [Processes -> {"new", "running", "stopping", "returned"}]
  /\ control \in [Processes -> BOOLEAN]
  /\ stop \in [Processes -> BOOLEAN]
  /\ port \in 0..created
  /\ installer \in {"idle", "start", "wait", "delete"}
  /\ state = "stopped" <=> current = 0
  /\ registered = "marked" => current # 0

Init ==
  /\ registered = "absent" /\ state = "stopped" /\ current = 0 /\ created = 0
  /\ main = [p \in Processes |-> "new"]
  /\ exec = [p \in Processes |-> "new"]
  /\ control = [p \in Processes |-> FALSE]
  /\ stop = [p \in Processes |-> FALSE]
  /\ port = 0
  /\ installer = "idle"

Alive(p) == main[p] \in {"sync", "serving"}

-----------------------------------------------------------------------------
(* The service control manager. *)

\* The service's process ended or Execute returned: a service that is marked
\* for deletion disappears with it.
Stopped ==
  /\ state' = "stopped" /\ current' = 0
  /\ registered' = IF registered = "marked" THEN "absent" ELSE registered
  /\ UNCHANGED created

\* A new process for the service.
Launch ==
  /\ registered = "present" /\ state = "stopped" /\ created < MaxProcesses
  /\ created' = created + 1 /\ current' = created + 1 /\ state' = "starting"
  /\ main' = [main EXCEPT ![created + 1] = "sync"]
  /\ UNCHANGED <<registered, exec, control, stop, port>>

\* A Stop is accepted only by a service that has said it is running.
SendStop ==
  /\ state = "running"
  /\ control' = [control EXCEPT ![current] = TRUE]
  /\ UNCHANGED <<scm, main, exec, stop, port>>

\* Boot, the service panel, another tool.
UserStarts == Launch /\ UNCHANGED installer
UserStops == SendStop /\ UNCHANGED installer

-----------------------------------------------------------------------------
(* Execute, in a goroutine of svc.Run. *)

\* StartPending and Running are reported as soon as possible.
ReportRunning(p) ==
  /\ Alive(p) /\ exec[p] = "new" /\ p = current
  /\ exec' = [exec EXCEPT ![p] = "running"]
  /\ state' = "running"
  /\ UNCHANGED <<registered, current, created, main, control, stop, port, installer>>

ReportStopping == state' = "stopping" /\ UNCHANGED <<registered, current, created>>

\* Mutant: Execute returns and leaves the stop channel open.
ReceiveStopOnly(p) ==
  /\ Alive(p) /\ exec[p] = "running" /\ control[p]
  /\ exec' = [exec EXCEPT ![p] = "stopping"]
  /\ ReportStopping
  /\ UNCHANGED <<main, control, stop, port, installer>>

\* Mutant: only Shutdown is listened to.
IgnoreStop(p) ==
  /\ Alive(p) /\ exec[p] = "running" /\ control[p]
  /\ control' = [control EXCEPT ![p] = FALSE]
  /\ UNCHANGED <<scm, main, exec, stop, port, installer>>

\* Stop or Shutdown: StopPending is reported and the channel closed.
ReceiveStop(p) ==
  /\ Alive(p) /\ exec[p] = "running" /\ control[p]
  /\ exec' = [exec EXCEPT ![p] = "stopping"]
  /\ ReportStopping
  /\ stop' = [stop EXCEPT ![p] = TRUE]
  /\ UNCHANGED <<main, control, port, installer>>

\* Execute returns, and svc.Run tells the SCM that the service is stopped.
ExecuteReturns(p) ==
  /\ Alive(p) /\ exec[p] = "stopping"
  /\ exec' = [exec EXCEPT ![p] = "returned"]
  /\ Stopped
  /\ UNCHANGED <<main, control, stop, port, installer>>

-----------------------------------------------------------------------------
(* main. *)

\* The process ends: its port is free, and if the SCM still counted on it the
\* service is stopped.
End(p) ==
  /\ main' = [main EXCEPT ![p] = "gone"]
  /\ port' = IF port = p THEN 0 ELSE port
  /\ IF p = current THEN Stopped ELSE UNCHANGED scm
  /\ UNCHANGED <<exec, control, stop, installer>>

\* The configuration does not load: log.Fatalf.  Any other death looks alike.
Die(p) == Alive(p) /\ End(p)

\* The first sync is over; the loops and the HTTP server are started.
FirstSyncEnds(p) ==
  /\ main[p] = "sync"
  /\ main' = [main EXCEPT ![p] = "serving"]
  /\ UNCHANGED <<scm, exec, control, stop, port, installer>>

\* ListenAndServe, in a goroutine: a port that is taken ends the process.
Listen(p) ==
  /\ main[p] = "serving" /\ port # p
  /\ \/ /\ port = 0
        /\ port' = p
        /\ UNCHANGED <<scm, main, exec, control, stop, installer>>
     \/ port # 0 /\ End(p)

\* main receives from the stop channel and returns.
WaitForStop(p) == main[p] = "serving" /\ stop[p] /\ End(p)

-----------------------------------------------------------------------------
(* The installer, one command at a time. *)

\* installService: CreateService fails unless there is no such service.
CreateService ==
  /\ installer = "idle" /\ registered = "absent"
  /\ registered' = "present"
  /\ installer' = "start"
  /\ UNCHANGED <<state, current, created, process>>

\* Start may fail; the service stays registered.
StartService ==
  /\ installer = "start"
  /\ installer' = "idle"
  /\ Launch \/ UNCHANGED <<scm, process>>

\* uninstallService: an error of Control skips the wait.
ControlStop ==
  /\ installer = "idle" /\ registered = "present"
  /\ \/ SendStop /\ installer' = "wait"
     \/ state # "running" /\ installer' = "delete" /\ UNCHANGED <<scm, process>>

\* Polls the state until it is stopped, or ten seconds are over.
WaitStopped ==
  /\ installer = "wait"
  /\ installer' = "delete"
  /\ UNCHANGED <<scm, process>>

\* Delete: the service is gone at once, or when its process has stopped.
DeleteService ==
  /\ installer = "delete"
  /\ installer' = "idle"
  /\ registered' = IF state = "stopped" THEN "absent" ELSE "marked"
  /\ UNCHANGED <<state, current, created, process>>

Installer ==
  CreateService \/ StartService \/ ControlStop \/ WaitStopped \/ DeleteService

Execute(p) == ReportRunning(p) \/ ReceiveStop(p) \/ ExecuteReturns(p)
Main(p) == FirstSyncEnds(p) \/ Listen(p) \/ WaitForStop(p)

Next ==
  \/ UserStarts \/ UserStops \/ Installer
  \/ \E p \in Processes : Execute(p) \/ Main(p) \/ Die(p)

Spec == Init /\ [][Next]_vars

-----------------------------------------------------------------------------
(* Properties. *)

\* Two agents may run at once, because the SCM is told that a service is
\* stopped while its process is still in the first sync; but every process the
\* SCM no longer counts on has its stop channel closed.
OnlyLeaversOverlap == \A p \in Processes : Alive(p) /\ p # current => stop[p]

\* Such a process ends, and so does one that was told to stop.
LeaversLeave ==
  \A p \in Processes : Alive(p) /\ (p # current \/ control[p]) ~> ~Alive(p)

\* A service deleted after its Stop was accepted is removed in the end, however
\* long its process takes.
UninstallCompletes ==
  registered = "marked" /\ control[current] ~> registered = "absent"
=============================================================================
