--------------------------- MODULE ServiceProofs ---------------------------
(***************************************************************************)
(* Type correctness of the service life cycle, and that only an agent that *)
(* has been told to leave runs beside the service's current process.       *)
(***************************************************************************)
EXTENDS Service, TLAPS

\* Processes are created in order.
FreshInv == \A p \in Processes : p > created => main[p] = "new"

\* Execute returns only after it closed the stop channel.
ToldInv == \A p \in Processes : exec[p] \in {"stopping", "returned"} => stop[p]

\* The SCM stops counting on a living process only when Execute returned.
LeaverInv == \A p \in Processes : Alive(p) /\ p # current => exec[p] = "returned"

IInv == TypeOK /\ FreshInv /\ ToldInv /\ LeaverInv

LEMMA InitIInv == Init => IInv
BY BoundAssumption
   DEF Init, IInv, TypeOK, FreshInv, ToldInv, LeaverInv, Alive, Processes

-----------------------------------------------------------------------------
(* The service control manager. *)

\* The SCM takes the service for stopped: its own state stays consistent.
LEMMA StoppedState ==
  ASSUME TypeOK, Stopped
  PROVE  /\ registered' \in {"absent", "present", "marked"}
         /\ state' = "stopped" /\ current' = 0 /\ created' = created
         /\ registered' # "marked"
BY DEF TypeOK, Stopped

\* A new process is the only one the SCM counts on: all others have left.
LEMMA LaunchStep ==
  ASSUME IInv, Launch, installer' \in {"idle", "start", "wait", "delete"}
  PROVE  IInv'
<1> USE BoundAssumption DEF IInv, Launch
<1>1. created + 1 \in Processes /\ current = 0
  BY DEF TypeOK, Processes
<1>2. TypeOK'
  BY <1>1 DEF TypeOK, Processes
<1>3. FreshInv'
  BY <1>1 DEF TypeOK, FreshInv, Processes
<1>4. ToldInv'
  BY DEF TypeOK, ToldInv, Processes
<1>5. LeaverInv'
  BY <1>1 DEF TypeOK, LeaverInv, Alive, Processes
<1> QED BY <1>2, <1>3, <1>4, <1>5

LEMMA SendStopStep ==
  ASSUME IInv, SendStop, installer' \in {"idle", "start", "wait", "delete"}
  PROVE  IInv'
<1> USE BoundAssumption DEF IInv, SendStop, scm
<1>1. TypeOK'
  BY DEF TypeOK, Processes
<1>2. FreshInv' /\ ToldInv' /\ LeaverInv'
  BY DEF FreshInv, ToldInv, LeaverInv, Alive
<1> QED BY <1>1, <1>2

-----------------------------------------------------------------------------
(* Execute. *)

LEMMA ReportRunningStep ==
  ASSUME IInv, NEW p \in Processes, ReportRunning(p) PROVE IInv'
<1> USE BoundAssumption DEF IInv, ReportRunning
<1>1. TypeOK'
  BY DEF TypeOK, Processes
<1>2. FreshInv' /\ ToldInv'
  BY DEF TypeOK, FreshInv, ToldInv
<1>3. LeaverInv'
  BY DEF TypeOK, LeaverInv, Alive
<1> QED BY <1>1, <1>2, <1>3

\* A process that stops is still the current one.
LEMMA ReceiveStopStep ==
  ASSUME IInv, NEW p \in Processes, ReceiveStop(p) PROVE IInv'
<1> USE BoundAssumption DEF IInv, ReceiveStop, ReportStopping
<1>1. p = current
  BY DEF LeaverInv
<1>2. TypeOK'
  BY <1>1 DEF TypeOK, Processes
<1>3. FreshInv' /\ ToldInv'
  BY DEF TypeOK, FreshInv, ToldInv
<1>4. LeaverInv'
  BY <1>1 DEF TypeOK, LeaverInv, Alive
<1> QED BY <1>2, <1>3, <1>4

LEMMA ExecuteReturnsStep ==
  ASSUME IInv, NEW p \in Processes, ExecuteReturns(p) PROVE IInv'
<1> USE BoundAssumption DEF IInv, ExecuteReturns
<1>1. p = current
  BY DEF LeaverInv
<1>2. TypeOK'
  BY StoppedState DEF TypeOK, Processes
<1>3. FreshInv' /\ ToldInv'
  BY StoppedState DEF TypeOK, FreshInv, ToldInv
<1>4. LeaverInv'
  BY <1>1, StoppedState DEF TypeOK, LeaverInv, Alive
<1> QED BY <1>2, <1>3, <1>4

-----------------------------------------------------------------------------
(* main. *)

\* However a process ends, it leaves a consistent state behind.
LEMMA EndStep ==
  ASSUME IInv, NEW p \in Processes, Alive(p), End(p) PROVE IInv'
<1> USE BoundAssumption DEF IInv, End
<1>1. CASE p = current
  <2>1. /\ registered' \in {"absent", "present"} /\ state' = "stopped"
        /\ current' = 0 /\ created' = created
    BY <1>1, StoppedState
  <2>2. TypeOK'
    BY <2>1 DEF TypeOK, Processes
  <2>3. FreshInv' /\ ToldInv' /\ LeaverInv'
    BY <1>1, <2>1 DEF TypeOK, FreshInv, ToldInv, LeaverInv, Alive, Processes
  <2> QED BY <2>2, <2>3
<1>2. CASE p # current
  <2>1. UNCHANGED <<registered, state, current, created>>
    BY <1>2 DEF scm
  <2>2. TypeOK'
    BY <2>1 DEF TypeOK, Processes
  <2>3. FreshInv' /\ ToldInv' /\ LeaverInv'
    BY <2>1 DEF TypeOK, FreshInv, ToldInv, LeaverInv, Alive, Processes
  <2> QED BY <2>2, <2>3
<1> QED BY <1>1, <1>2

LEMMA FirstSyncEndsStep ==
  ASSUME IInv, NEW p \in Processes, FirstSyncEnds(p) PROVE IInv'
<1> USE BoundAssumption DEF IInv, FirstSyncEnds, scm
<1>1. TypeOK'
  BY DEF TypeOK, Processes
<1>2. FreshInv' /\ ToldInv' /\ LeaverInv'
  BY DEF TypeOK, FreshInv, ToldInv, LeaverInv, Alive, Processes
<1> QED BY <1>1, <1>2

LEMMA ListenStep ==
  ASSUME IInv, NEW p \in Processes, Listen(p) PROVE IInv'
<1>1. CASE port = 0 /\ port' = p /\ UNCHANGED <<scm, main, exec, control, stop, installer>>
  <2> USE BoundAssumption DEF IInv, scm
  <2>1. p \in 0..created
    BY DEF TypeOK, FreshInv, Listen, Processes
  <2>2. TypeOK'
    BY <1>1, <2>1 DEF TypeOK, Processes
  <2>3. FreshInv' /\ ToldInv' /\ LeaverInv'
    BY <1>1 DEF FreshInv, ToldInv, LeaverInv, Alive
  <2> QED BY <2>2, <2>3
<1>2. CASE End(p)
  BY <1>2, EndStep DEF Listen, Alive
<1> QED BY <1>1, <1>2 DEF Listen

-----------------------------------------------------------------------------
(* The installer. *)

\* A step of the installer that leaves processes and the SCM's state alone.
LEMMA InstallerStep ==
  ASSUME IInv, UNCHANGED <<state, current, created, process>>,
         registered' \in {"absent", "present", "marked"},
         registered' = "marked" => current # 0,
         installer' \in {"idle", "start", "wait", "delete"}
  PROVE  IInv'
<1> USE DEF IInv, process
<1>1. TypeOK'
  BY DEF TypeOK
<1>2. FreshInv' /\ ToldInv' /\ LeaverInv'
  BY DEF FreshInv, ToldInv, LeaverInv, Alive
<1> QED BY <1>1, <1>2

LEMMA InstallerSteps == ASSUME IInv, Installer PROVE IInv'
<1> USE DEF IInv
<1>0. registered \in {"absent", "present", "marked"} /\ (registered = "marked" => current # 0)
  BY DEF TypeOK
<1>1. CASE CreateService
  BY <1>1, InstallerStep DEF CreateService
<1>2. CASE StartService
  BY <1>0, <1>2, InstallerStep, LaunchStep DEF StartService, scm
<1>3. CASE ControlStop
  BY <1>0, <1>3, InstallerStep, SendStopStep DEF ControlStop, scm
<1>4. CASE WaitStopped
  BY <1>0, <1>4, InstallerStep DEF WaitStopped, scm
<1>5. CASE DeleteService
  <2>1. state = "stopped" <=> current = 0
    BY DEF TypeOK
  <2> QED BY <1>5, <2>1, InstallerStep DEF DeleteService
<1> QED BY <1>1, <1>2, <1>3, <1>4, <1>5 DEF Installer

-----------------------------------------------------------------------------
LEMMA NextIInv == IInv /\ [Next]_vars => IInv'
<1> SUFFICES ASSUME IInv, [Next]_vars PROVE IInv'
  OBVIOUS
<1>0. installer \in {"idle", "start", "wait", "delete"}
  BY DEF IInv, TypeOK
<1>1. CASE UserStarts
  BY <1>0, <1>1, LaunchStep DEF UserStarts
<1>2. CASE UserStops
  BY <1>0, <1>2, SendStopStep DEF UserStops
<1>3. CASE Installer
  BY <1>3, InstallerSteps
<1>4. ASSUME NEW p \in Processes, Execute(p) PROVE IInv'
  BY <1>4, ReportRunningStep, ReceiveStopStep, ExecuteReturnsStep DEF Execute
<1>5. ASSUME NEW p \in Processes, Main(p) PROVE IInv'
  <2>1. CASE WaitForStop(p)
    BY <2>1, EndStep DEF WaitForStop, Alive
  <2> QED BY <1>5, <2>1, FirstSyncEndsStep, ListenStep DEF Main
<1>6. ASSUME NEW p \in Processes, Die(p) PROVE IInv'
  BY <1>6, EndStep DEF Die
<1>7. CASE UNCHANGED vars
  BY <1>7 DEF vars, IInv, TypeOK, FreshInv, ToldInv, LeaverInv, Alive
<1> QED BY <1>1, <1>2, <1>3, <1>4, <1>5, <1>6, <1>7 DEF Next

LEMMA Invariance == Spec => []IInv
BY InitIInv, NextIInv, PTL DEF Spec

\* The SCM's view, the processes and the installer stay well typed: the SCM
\* counts on a process unless the service is stopped, a deleted service has one.
THEOREM ServiceTypeCorrect == Spec => []TypeOK
<1>1. IInv => TypeOK
  BY DEF IInv
<1> QED BY <1>1, Invariance, PTL

\* Whatever is installed, started, stopped, killed and removed in whatever
\* order: of several living agents all but the current one are told to leave.
THEOREM OnlyToldAgentsOverlap == Spec => []OnlyLeaversOverlap
<1>1. IInv => OnlyLeaversOverlap
  BY DEF IInv, LeaverInv, ToldInv, OnlyLeaversOverlap
<1> QED BY <1>1, Invariance, PTL

-----------------------------------------------------------------------------
(* What holds of the process the SCM counts on and of the stop channels: the *)
(* safety half of LeaversLeave and UninstallCompletes.                       *)

\* What the SCM takes the service to be is where its Execute stands, and the
\* process it counts on is alive.
ScmInv ==
  /\ current # 0 => Alive(current)
  /\ state = "starting" => exec[current] = "new"
  /\ state = "running" => exec[current] = "running"
  /\ state = "stopping" => exec[current] = "stopping"

\* A Stop is sent to an Execute that listens, and only a Stop closes a channel.
ChannelInv ==
  \A p \in Processes :
    /\ p > created => exec[p] = "new"
    /\ control[p] => exec[p] # "new"
    /\ stop[p] => control[p]

ViewInv == ScmInv /\ ChannelInv

LEMMA LaunchView == ASSUME IInv, ViewInv, Launch PROVE ViewInv'
<1> USE BoundAssumption DEF IInv, ViewInv, Launch
<1>1. created + 1 \in Processes /\ main' = [main EXCEPT ![created + 1] = "sync"]
  BY DEF TypeOK, Processes
<1>2. main[created + 1] = "new" /\ exec[created + 1] = "new"
  BY <1>1 DEF TypeOK, FreshInv, ChannelInv
<1>3. ScmInv'
  BY <1>1, <1>2 DEF TypeOK, ScmInv, Alive
<1>4. ChannelInv'
  BY DEF TypeOK, ChannelInv, Processes
<1> QED BY <1>3, <1>4

LEMMA SendStopView == ASSUME IInv, ViewInv, SendStop PROVE ViewInv'
<1> USE BoundAssumption DEF IInv, ViewInv, SendStop, scm
<1>1. ScmInv'
  BY DEF ScmInv, Alive
<1>2. ChannelInv'
  BY DEF TypeOK, ScmInv, ChannelInv, Processes
<1> QED BY <1>1, <1>2

LEMMA ExecuteView ==
  ASSUME IInv, ViewInv, NEW p \in Processes, Execute(p) PROVE ViewInv'
<1> USE BoundAssumption DEF IInv, ViewInv
<1>1. p = current
  BY DEF Execute, ReportRunning, ReceiveStop, ExecuteReturns, LeaverInv
<1>2. CASE ReportRunning(p)
  BY <1>1, <1>2 DEF ReportRunning, TypeOK, ScmInv, ChannelInv, Alive, Processes
<1>3. CASE ReceiveStop(p)
  BY <1>1, <1>3
     DEF ReceiveStop, ReportStopping, TypeOK, ScmInv, ChannelInv, Alive, Processes
<1>4. CASE ExecuteReturns(p)
  <2>1. state' = "stopped" /\ current' = 0 /\ created' = created
    BY <1>4, StoppedState DEF ExecuteReturns
  <2> QED
    BY <1>1, <1>4, <2>1
       DEF ExecuteReturns, TypeOK, ScmInv, ChannelInv, Alive, Processes
<1> QED BY <1>2, <1>3, <1>4 DEF Execute

LEMMA EndView == ASSUME IInv, ViewInv, NEW p \in Processes, End(p) PROVE ViewInv'
<1> USE BoundAssumption DEF IInv, ViewInv, End
<1>1. ChannelInv'
  BY StoppedState DEF ChannelInv, scm
<1>2. CASE p = current
  BY <1>1, <1>2, StoppedState DEF ScmInv
<1>3. CASE p # current
  BY <1>1, <1>3 DEF TypeOK, ScmInv, Alive, scm
<1> QED BY <1>2, <1>3

LEMMA MainView ==
  ASSUME IInv, ViewInv, NEW p \in Processes, Main(p) PROVE ViewInv'
<1>1. CASE FirstSyncEnds(p)
  BY <1>1 DEF FirstSyncEnds, IInv, TypeOK, ViewInv, ScmInv, ChannelInv, Alive, scm
<1>2. CASE Listen(p) /\ ~End(p)
  BY <1>2 DEF Listen, IInv, TypeOK, ViewInv, ScmInv, ChannelInv, Alive, scm
<1>3. CASE End(p)
  BY <1>3, EndView
<1> QED BY <1>1, <1>2, <1>3 DEF Main, WaitForStop, Listen

\* The installer's own steps leave processes and the SCM's state alone.
LEMMA InstallerView == ASSUME IInv, ViewInv, Installer PROVE ViewInv'
<1>1. CASE UNCHANGED <<state, current, created, process>>
  BY <1>1 DEF process, ViewInv, ScmInv, ChannelInv, Alive
<1> QED
  BY <1>1, LaunchView, SendStopView
     DEF Installer, CreateService, StartService, ControlStop, WaitStopped, DeleteService, scm

LEMMA ViewInvariance == Spec => []ViewInv
<1>1. Init => ViewInv
  BY DEF Init, ViewInv, ScmInv, ChannelInv
<1>2. IInv /\ ViewInv /\ [Next]_vars => ViewInv'
  <2> SUFFICES ASSUME IInv, ViewInv, [Next]_vars PROVE ViewInv'
    OBVIOUS
  <2>1. CASE UNCHANGED vars
    BY <2>1 DEF vars, ViewInv, ScmInv, ChannelInv, Alive
  <2> QED
    BY <2>1, LaunchView, SendStopView, InstallerView, ExecuteView, MainView, EndView
       DEF Next, UserStarts, UserStops, Die
<1> QED BY <1>1, <1>2, Invariance, PTL DEF Spec

\* A service that is deleted while its process lives is waiting for exactly that
\* process, and the SCM never takes a dead one for the service.
ScmCountsOnTheLiving ==
  /\ current # 0 => Alive(current)
  /\ registered = "marked" => Alive(current)

\* No crash, kill or exit between two steps leaves the SCM with a dead service.
THEOREM ScmKnowsTheLiving == Spec => []ScmCountsOnTheLiving
<1>1. IInv /\ ViewInv => ScmCountsOnTheLiving
  BY DEF IInv, TypeOK, ViewInv, ScmInv, ScmCountsOnTheLiving
<1> QED BY <1>1, Invariance, ViewInvariance, PTL

\* A process that has to leave was sent a Stop, and its channel is closed or its
\* Execute is listening: nothing else has to happen for it to end.
LeaversAreBeingTold ==
  \A p \in Processes : Alive(p) /\ (p # current \/ control[p]) =>
    control[p] /\ (stop[p] \/ exec[p] = "running")

\* The safety half of LeaversLeave: no Stop is accepted and then forgotten,
\* neither by an Execute not yet running nor by one that has returned, and no
\* process is left behind that was never sent one.
THEOREM NoStopIsForgotten == Spec => []LeaversAreBeingTold
<1>1. IInv /\ ViewInv => LeaversAreBeingTold
  <2> SUFFICES ASSUME IInv, ViewInv, NEW p \in Processes, Alive(p), p # current \/ control[p]
               PROVE  control[p] /\ (stop[p] \/ exec[p] = "running")
    BY DEF LeaversAreBeingTold
  <2>1. CASE p # current
    BY <2>1 DEF IInv, LeaverInv, ToldInv, ViewInv, ChannelInv
  <2>2. CASE control[p]
    <3>1. exec[p] \in {"running", "stopping", "returned"}
      BY <2>2 DEF IInv, TypeOK, ViewInv, ChannelInv
    <3> QED BY <2>2, <3>1 DEF IInv, ToldInv
  <2> QED BY <2>1, <2>2
<1> QED BY <1>1, Invariance, ViewInvariance, PTL
=============================================================================
