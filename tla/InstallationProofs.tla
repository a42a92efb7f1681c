------------------------- MODULE InstallationProofs -------------------------
(***************************************************************************)
(* With its configuration file the service implements Service, so that     *)
(* what ServiceProofs shows of it holds here too; the service is installed *)
(* only beside a file that loads, and the agent polls with the id that was *)
(* enrolled.                                                               *)
(***************************************************************************)
EXTENDS Installation, ServiceProofs

\* Every step here is a step of Service, or leaves the service alone.
LEMMA StepImplements == [InstallationNext]_all => [Next]_vars
<1> SUFFICES ASSUME InstallationNext \/ UNCHANGED all PROVE Next \/ UNCHANGED vars
  OBVIOUS
<1>1. CASE RunWizard \/ RunConfigWriter
  BY <1>1 DEF RunWizard, RunConfigWriter, Open
<1>2. CASE Write \/ Enroll \/ Abort \/ Cleanup
  BY <1>2 DEF Write, Enroll, Abort, Cleanup
<1>3. CASE Confirm
  BY <1>3 DEF Confirm, Next, Installer
<1>4. CASE ServiceCalls
  BY <1>4 DEF ServiceCalls, Next, Installer
<1>5. CASE Others
  BY <1>5 DEF Others, Next, Main
<1>6. ASSUME NEW p \in Processes, MainThread(p) PROVE Next \/ UNCHANGED vars
  <2>1. CASE LoadConfig(p)
    BY <2>1 DEF LoadConfig, Next, Die, Alive
  <2> QED BY <1>6, <2>1 DEF MainThread, Next, Main
<1>7. ASSUME NEW p \in Processes, ExecuteThread(p) PROVE Next
  BY <1>7 DEF ExecuteThread, Next
<1>8. CASE UNCHANGED all
  BY <1>8 DEF all
<1> QED BY <1>1, <1>2, <1>3, <1>4, <1>5, <1>6, <1>7, <1>8 DEF InstallationNext

\* The service with its configuration behaves as Service says.
THEOREM ImplementsService == InstallationSpec => ServiceSpec
<1>1. InstallationInit => Init
  BY DEF InstallationInit
<1> QED BY <1>1, StepImplements, PTL DEF InstallationSpec, ServiceSpec, Spec

\* Wizards, config_writer and agents leave the order of agents as it was: all
\* but the current one are told to leave.
THEOREM InstalledAgentsOverlapOnlyLeaving == InstallationSpec => []OnlyLeaversOverlap
BY ImplementsService, OnlyToldAgentsOverlap, PTL DEF ServiceSpec

\* Nor does anything an installer does to the file make a Stop be forgotten, or
\* leave the SCM with a process that is gone.
THEOREM InstalledLeaversAreTold ==
  InstallationSpec => [](LeaversAreBeingTold /\ ScmCountsOnTheLiving)
BY ImplementsService, NoStopIsForgotten, ScmKnowsTheLiving, PTL DEF ServiceSpec

LEMMA ServiceHolds == InstallationSpec => []IInv
BY ImplementsService, Invariance, PTL DEF ServiceSpec

-----------------------------------------------------------------------------
(* The file, the installer's command and what processes have loaded. *)

CanRun(c) == Loads(c) /\ HasDriver(c)

Loadable == {Load(c, Environment) : c \in Configs}

CommandInv ==
  /\ file \in Configs \cup {Torn, Missing}
  /\ command \in {"none", "install", "configure", "write"}
  /\ step \in {"idle", "writing", "enroll", "confirm", "cleanup"}
  /\ command \in {"install", "configure"} => draft \in Wizards
  /\ command = "write" => draft \in Configs
  /\ command # "none" <=> step \in {"writing", "enroll", "confirm"}
  /\ step # "idle" => installer = "idle"
  /\ step \in {"enroll", "confirm"} => file = draft /\ command # "write"

LoadedInv ==
  /\ loaded \in [Processes -> Loadable \cup {Unread}]
  /\ \A p \in Processes : main[p] \in {"new", "gone"} => loaded[p] = Unread

\* Nothing is enrolled for a file that is being written.
EnrolledInv ==
  /\ step = "writing" => enrolled = Blank
  /\ EnrolledIsPolled

SetupInv == CommandInv /\ LoadedInv /\ EnrolledInv /\ InstalledAgentCanLoad

\* What the wizard makes of any answers can be loaded and has a driver.
LEMMA WizardLoads == \A c \in Wizards : c \in Configs /\ CanRun(c)
<1> SUFFICES ASSUME NEW a \in Answers
             PROVE  /\ WizardConfig(a, Detected) \in Configs
                    /\ CanRun(WizardConfig(a, Detected))
  BY DEF Wizards
<1>1. WizardConfig(a, Detected) \in Configs
  BY DEF Configs, Wizards
<1>2. CASE a.choice = "2"
  BY <1>1, <1>2 DEF WizardConfig, CanRun, Loads, HasDriver, EffectivePOSType, Or, Blank
<1>3. CASE a.choice # "2"
  BY <1>1, <1>3, DetectedAssumption
     DEF WizardConfig, CanRun, Loads, HasDriver, EffectivePOSType, Or, Blank
<1> QED BY <1>2, <1>3

\* An id that is written in the file is the one to poll with.
LEMMA OwnIdIsPolled ==
  ASSUME NEW c \in Configs, c.id # Blank
  PROVE  PollId(Load(c, Environment)) = c.id
<1>1. DOMAIN c = {"pos", "name", "id", "spcwin", "micros"}
  BY DEF Configs, Wizards, WizardConfig, WriterConfig
<1> QED BY <1>1 DEF PollId, Load, Or

LEMMA InitSetupInv == InstallationInit => SetupInv
BY FileAssumption
   DEF InstallationInit, Init, SetupInv, CommandInv, LoadedInv, EnrolledInv,
       EnrolledIsPolled, InstalledAgentCanLoad

LEMMA OpenStep ==
  ASSUME SetupInv, NEW c \in {"install", "configure", "write"}, NEW config, Open(c, config),
         config \in Configs, c # "write" => config \in Wizards
  PROVE  SetupInv'
<1> USE DEF SetupInv, Open, Idle
<1>1. CommandInv'
  BY DEF CommandInv, vars
<1>2. LoadedInv'
  BY DEF LoadedInv, vars
<1>3. EnrolledInv'
  BY DEF EnrolledInv, EnrolledIsPolled
<1>4. InstalledAgentCanLoad'
  BY DEF InstalledAgentCanLoad, vars
<1> QED BY <1>1, <1>2, <1>3, <1>4

\* The write is over: only now is there a file that can be enrolled for.
LEMMA WriteStep == ASSUME SetupInv, Write PROVE SetupInv'
<1> USE DEF SetupInv, Write, Leave
<1>0. installer = "idle" /\ installer' = "idle" /\ enrolled = Blank /\ enrolled' = Blank
  BY DEF CommandInv, EnrolledInv, vars
<1>1. CommandInv'
  BY <1>0, WizardLoads DEF CommandInv
<1>2. LoadedInv'
  BY DEF LoadedInv, vars
<1>3. EnrolledInv'
  BY <1>0 DEF EnrolledInv, EnrolledIsPolled
<1>4. InstalledAgentCanLoad'
  BY <1>0 DEF InstalledAgentCanLoad
<1> QED BY <1>1, <1>2, <1>3, <1>4

LEMMA EnrollStep == ASSUME SetupInv, Enroll PROVE SetupInv'
<1> USE DEF SetupInv, Enroll, Leave
<1>0. file = draft /\ file \in Configs /\ command \in {"install", "configure"}
  BY WizardLoads DEF CommandInv
<1>1. CommandInv'
  BY <1>0 DEF CommandInv, vars
<1>2. LoadedInv'
  BY DEF LoadedInv, vars
<1>3. EnrolledInv'
  BY <1>0, OwnIdIsPolled DEF EnrolledInv, EnrolledIsPolled
<1>4. InstalledAgentCanLoad'
  BY DEF InstalledAgentCanLoad, vars
<1> QED BY <1>1, <1>2, <1>3, <1>4

\* The service is created beside the wizard's own file.
LEMMA ConfirmStep == ASSUME SetupInv, Confirm PROVE SetupInv'
<1> USE DEF SetupInv, Confirm, Leave
<1>0. file \in Wizards /\ installer = "idle" /\ main' = main
  BY DEF CommandInv, CreateService, process, vars
<1>1. CommandInv'
  BY <1>0 DEF CommandInv
<1>2. LoadedInv'
  BY <1>0 DEF LoadedInv
<1>3. EnrolledInv'
  BY DEF EnrolledInv, EnrolledIsPolled
<1>4. InstalledAgentCanLoad'
  BY <1>0, WizardLoads DEF InstalledAgentCanLoad, CanRun
<1> QED BY <1>1, <1>2, <1>3, <1>4

LEMMA AbortStep == ASSUME SetupInv, Abort PROVE SetupInv'
BY DEF SetupInv, Abort, Leave, CommandInv, LoadedInv, EnrolledInv, EnrolledIsPolled,
       InstalledAgentCanLoad, vars

LEMMA CleanupStep == ASSUME SetupInv, Cleanup PROVE SetupInv'
<1> USE FileAssumption DEF SetupInv, Cleanup
<1>0. installer = "idle" /\ installer' = "idle"
  BY DEF CommandInv, vars
<1>1. CommandInv'
  BY <1>0 DEF CommandInv
<1>2. LoadedInv' /\ EnrolledInv' /\ InstalledAgentCanLoad'
  BY <1>0 DEF LoadedInv, EnrolledInv, EnrolledIsPolled, InstalledAgentCanLoad, vars
<1> QED BY <1>1, <1>2

-----------------------------------------------------------------------------
(* The service. *)

\* A process is never new again, and no process that was gone starts.
LEMMA NewOrGone ==
  ASSUME TypeOK, LoadedInv, Memory, [Next]_vars PROVE LoadedInv'
<1>1. \A p \in Processes : main'[p] = "new" => main[p] = "new"
  <2>1. ASSUME NEW p \in Processes, End(p) PROVE \A q \in Processes : main'[q] = "new" => main[q] = "new"
    BY <2>1 DEF End, TypeOK
  <2>2. CASE Launch
    BY <2>2, BoundAssumption DEF Launch, TypeOK
  <2> QED BY <2>1, <2>2
          DEF Next, UserStarts, UserStops, SendStop, Installer, CreateService, StartService,
              ControlStop, WaitStopped, DeleteService, Execute, ReportRunning, ReceiveStop,
              ExecuteReturns, Main, FirstSyncEnds, Listen, WaitForStop, Die, process, vars, TypeOK
<1> QED BY <1>1 DEF Memory, LoadedInv

\* A step of the service that leaves the file and the commands alone, and does
\* not come from the installer's Confirm, keeps all of it.
LEMMA ServiceStep ==
  ASSUME TypeOK, SetupInv, Memory, [Next]_vars, UNCHANGED <<file, command, draft, enrolled>>,
         installer' = "start" => installer = "start",
         \/ UNCHANGED <<step, installer>>
         \/ UNCHANGED step /\ step = "idle"
         \/ step' = "cleanup" /\ step = "idle" /\ installer' = "idle"
  PROVE  SetupInv'
<1> USE DEF SetupInv
<1>1. CommandInv'
  BY DEF CommandInv
<1>2. LoadedInv'
  BY NewOrGone
<1>3. EnrolledInv'
  BY DEF EnrolledInv, EnrolledIsPolled
<1>4. InstalledAgentCanLoad'
  BY DEF InstalledAgentCanLoad
<1> QED BY <1>1, <1>2, <1>3, <1>4

LEMMA LoadConfigStep ==
  ASSUME TypeOK, SetupInv, [Next]_vars, NEW p \in Processes, LoadConfig(p) PROVE SetupInv'
<1>1. CASE End(p) /\ Memory
  BY <1>1, ServiceStep DEF LoadConfig, setup, End
<1>2. CASE /\ file \in Configs
           /\ loaded' = [loaded EXCEPT ![p] = Load(file, Environment)] /\ UNCHANGED vars
  <2>1. Load(file, Environment) \in Loadable
    BY <1>2 DEF Loadable
  <2>2. LoadedInv'
    BY <1>2, <2>1 DEF SetupInv, LoadedInv, LoadConfig, vars
  <2>3. CommandInv' /\ EnrolledInv' /\ InstalledAgentCanLoad'
    BY <1>2 DEF SetupInv, LoadConfig, CommandInv, EnrolledInv, EnrolledIsPolled,
                InstalledAgentCanLoad, setup, vars
  <2> QED BY <2>2, <2>3 DEF SetupInv
<1> QED BY <1>1, <1>2 DEF LoadConfig

LEMMA NextSetupInv == TypeOK /\ SetupInv /\ [InstallationNext]_all => SetupInv'
<1> SUFFICES ASSUME TypeOK, SetupInv, [InstallationNext]_all PROVE SetupInv'
  OBVIOUS
<1>0. [Next]_vars
  BY StepImplements
<1>1. CASE RunWizard
  BY <1>1, OpenStep, WizardLoads DEF RunWizard, Wizards
<1>2. CASE RunConfigWriter
  BY <1>2, OpenStep DEF RunConfigWriter, Configs
<1>3. CASE Write \/ Enroll \/ Confirm \/ Abort \/ Cleanup
  BY <1>3, WriteStep, EnrollStep, ConfirmStep, AbortStep, CleanupStep
<1>4. CASE ServiceCalls
  <2>1. CASE StartService /\ UNCHANGED step
    BY <1>0, <1>4, <2>1, ServiceStep DEF ServiceCalls, StartService, SetupInv, CommandInv
  <2>2. CASE step = "idle" /\ ControlStop /\ UNCHANGED step
    BY <1>0, <1>4, <2>2, ServiceStep DEF ServiceCalls, ControlStop
  <2>3. CASE WaitStopped /\ UNCHANGED step
    BY <1>0, <1>4, <2>3, ServiceStep DEF ServiceCalls, WaitStopped, SetupInv, CommandInv
  <2>4. CASE DeleteService /\ step' = "cleanup"
    BY <1>0, <1>4, <2>4, ServiceStep DEF ServiceCalls, DeleteService, SetupInv, CommandInv
  <2> QED BY <1>4, <2>1, <2>2, <2>3, <2>4 DEF ServiceCalls
<1>5. CASE Others
  <2>1. UNCHANGED installer
    BY <1>5 DEF Others, UserStarts, UserStops, Listen, Die, End
  <2> QED BY <1>0, <1>5, <2>1, ServiceStep DEF Others, setup
<1>6. ASSUME NEW p \in Processes, MainThread(p) PROVE SetupInv'
  <2>1. CASE LoadConfig(p)
    BY <1>0, <2>1, LoadConfigStep
  <2>2. CASE (FirstSyncEnds(p) \/ WaitForStop(p)) /\ Memory /\ UNCHANGED setup
    BY <1>0, <2>2, ServiceStep DEF FirstSyncEnds, WaitForStop, End, setup
  <2> QED BY <1>6, <2>1, <2>2 DEF MainThread
<1>7. ASSUME NEW p \in Processes, ExecuteThread(p) PROVE SetupInv'
  BY <1>0, <1>7, ServiceStep
     DEF ExecuteThread, Execute, ReportRunning, ReceiveStop, ExecuteReturns, setup
<1>8. CASE UNCHANGED all
  BY <1>8 DEF all, vars, setup, SetupInv, CommandInv, LoadedInv, EnrolledInv,
              EnrolledIsPolled, InstalledAgentCanLoad
<1> QED BY <1>1, <1>2, <1>3, <1>4, <1>5, <1>6, <1>7, <1>8 DEF InstallationNext

LEMMA SetupInvariance == InstallationSpec => []SetupInv
<1>1. IInv => TypeOK
  BY DEF IInv
<1> QED BY <1>1, InitSetupInv, NextSetupInv, ServiceHolds, PTL DEF InstallationSpec

\* The file, the command that works on it and what the agents hold stay well
\* typed.
THEOREM InstallationTypeCorrect == InstallationSpec => []InstallationTypeOK
<1>1. IInv /\ SetupInv => InstallationTypeOK
  BY DEF IInv, SetupInv, CommandInv, LoadedInv, Loadable, InstallationTypeOK
<1> QED BY <1>1, ServiceHolds, SetupInvariance, PTL

\* However operators answer and whatever fails, a service is installed only
\* beside a file that its agent can load and run with.
THEOREM InstallIsLoadable == InstallationSpec => []InstalledAgentCanLoad
<1>1. SetupInv => InstalledAgentCanLoad
  BY DEF SetupInv
<1> QED BY <1>1, SetupInvariance, PTL

\* The agent polls with the id its subscription was opened for, whatever the
\* environment of the service says.
THEOREM EnrolledIdIsPolled == InstallationSpec => []EnrolledIsPolled
<1>1. SetupInv => EnrolledIsPolled
  BY DEF SetupInv, EnrolledInv
<1> QED BY <1>1, SetupInvariance, PTL
=============================================================================
