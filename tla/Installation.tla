---------------------------- MODULE Installation ----------------------------
(***************************************************************************)
(* The service (Service) together with its configuration file: the wizard  *)
(* behind install and configure, config_writer, the deletion offered by    *)
(* uninstall, and the agent that loads the file when it starts.            *)
(*                                                                         *)
(* The file is written in place: it is empty or cut off between the open   *)
(* that truncates it and the end of the write, and stays so when the write *)
(* fails or the installer dies.  A service may be started at any time.     *)
(* Every program is taken to use the same file.                            *)
(***************************************************************************)
EXTENDS Service, Config

CONSTANTS
  Answers,      \* what operators may answer the wizard
  Flags,        \* what config_writer may be called with
  Detected,     \* the path of spcwin.exe that the wizard proposes
  Environment,  \* LOCATION_ID in the environment of the service, or blank
  Torn, Missing,   \* a file that was cut off, and no file
  Unread        \* no configuration yet

ASSUME DetectedAssumption == Detected # Blank

VARIABLES
  file,      \* rooam_config.json: a configuration, Torn or Missing
  command,   \* the installer's command, or "none"
  step,      \* where the wizard, or the end of uninstall, stands
  draft,     \* the configuration the wizard or config_writer made
  enrolled,  \* the id the checkout session behind this file is for, or blank
  loaded     \* loaded[p]: the configuration process p runs with

setup == <<file, command, step, draft, enrolled>>
all == <<vars, setup, loaded>>

Wizards == {WizardConfig(a, Detected) : a \in Answers}
Configs == Wizards \cup {WriterConfig(f) : f \in Flags}

ASSUME FileAssumption == Torn \notin Configs /\ Missing \notin Configs

InstallationTypeOK ==
  /\ TypeOK
  /\ file \in Configs \cup {Torn, Missing}
  /\ command \in {"none", "install", "configure", "write"}
  /\ step \in {"idle", "writing", "enroll", "confirm", "cleanup"}
  /\ command \in {"install", "configure"} => draft \in Wizards
  /\ command = "write" => draft \in Configs
  /\ command # "none" <=> step \in {"writing", "enroll", "confirm"}
  /\ step # "idle" => installer = "idle"
  /\ step \in {"enroll", "confirm"} => file = draft
  /\ loaded \in [Processes -> {Load(c, Environment) : c \in Configs} \cup {Unread}]
  /\ \A p \in Processes : main[p] \in {"new", "gone"} => loaded[p] = Unread

InstallationInit ==
  /\ Init
  /\ file = Missing /\ command = "none" /\ step = "idle"
  /\ draft = Missing /\ enrolled = Blank
  /\ loaded = [p \in Processes |-> Unread]

-----------------------------------------------------------------------------
(* The configuration file. *)

Idle == step = "idle" /\ installer = "idle"

\* A command that has its answers opens the file, which truncates it.
Open(c, config) ==
  /\ Idle
  /\ command' = c /\ step' = "writing" /\ draft' = config
  /\ file' = Torn /\ enrolled' = Blank
  /\ UNCHANGED <<vars, loaded>>

RunWizard == \E c \in {"install", "configure"}, a \in Answers :
  Open(c, WizardConfig(a, Detected))

RunConfigWriter == \E f \in Flags : Open("write", WriterConfig(f))

\* The command is over, or the program is killed.
Leave == command' = "none" /\ step' = "idle" /\ draft' = Missing

\* Mutant: the error of the write is not looked at.
WriteUnchecked ==
  /\ step = "writing"
  /\ file' \in {draft, Torn}
  /\ step' = "enroll"
  /\ UNCHANGED <<vars, command, draft, enrolled, loaded>>

\* The write ends, or fails and takes the command with it.
Write ==
  /\ step = "writing"
  /\ \/ /\ file' = draft
        /\ IF command = "write"
             THEN Leave
             ELSE step' = "enroll" /\ UNCHANGED <<command, draft>>
     \/ Leave /\ UNCHANGED file
  /\ UNCHANGED <<vars, enrolled, loaded>>

\* A checkout session for the id, which the billing server refuses when it is
\* blank; any failure is reported and passed over.
Enroll ==
  /\ step = "enroll"
  /\ enrolled' \in {enrolled, draft.id}
  /\ IF command = "install" THEN step' = "confirm" /\ UNCHANGED <<command, draft>> ELSE Leave
  /\ UNCHANGED <<vars, file, loaded>>

\* Mutant: a service that is there already is started again.
ConfirmOrRestart ==
  /\ step = "confirm"
  /\ Leave
  /\ \/ CreateService
     \/ installer' = "start" /\ UNCHANGED <<scm, process>>
  /\ UNCHANGED <<file, enrolled, loaded>>

\* The service is wanted and created, or not wanted, or there already.
Confirm ==
  /\ step = "confirm"
  /\ Leave
  /\ CreateService \/ UNCHANGED vars
  /\ UNCHANGED <<file, enrolled, loaded>>

\* The operator gives up, at a prompt or in the middle of the write.
Abort == step \in {"writing", "enroll", "confirm"} /\ Leave /\ UNCHANGED <<vars, file, enrolled, loaded>>

\* uninstall, once the service is deleted, offers to delete the file.
Cleanup ==
  /\ step = "cleanup"
  /\ step' = "idle"
  /\ file' \in {file, Missing}
  /\ UNCHANGED <<vars, command, draft, enrolled, loaded>>

-----------------------------------------------------------------------------
(* The service, with the configuration its processes hold. *)

\* A process that ends takes its configuration with it.
Memory ==
  loaded' = [p \in Processes |-> IF main'[p] = "gone" THEN Unread ELSE loaded[p]]

\* Mutant: the agent waits for a file that it can load.
LoadOrWait(p) ==
  /\ main[p] = "sync" /\ loaded[p] = Unread
  /\ file \in Configs /\ Loads(file) /\ HasDriver(file)
  /\ loaded' = [loaded EXCEPT ![p] = Load(file, Environment)]
  /\ UNCHANGED <<vars, setup>>

\* The first thing main does: a file that is missing, cut off or refused, or a
\* POS without a driver, ends the process.
LoadConfig(p) ==
  /\ main[p] = "sync" /\ loaded[p] = Unread
  /\ IF file \in Configs /\ Loads(file) /\ HasDriver(file)
       THEN loaded' = [loaded EXCEPT ![p] = Load(file, Environment)] /\ UNCHANGED vars
       ELSE End(p) /\ Memory
  /\ UNCHANGED setup

\* The rest of main needs the configuration.
MainThread(p) ==
  \/ LoadConfig(p)
  \/ /\ loaded[p] # Unread
     /\ FirstSyncEnds(p) \/ WaitForStop(p)
     /\ Memory /\ UNCHANGED setup

ExecuteThread(p) == Execute(p) /\ Memory /\ UNCHANGED setup

Others ==
  /\ \/ UserStarts \/ UserStops
     \/ \E p \in Processes : Listen(p) \/ Die(p)
  /\ Memory /\ UNCHANGED setup

\* install goes on with Confirm; uninstall needs nobody's configuration.
ServiceCalls ==
  /\ \/ StartService /\ UNCHANGED step
     \/ step = "idle" /\ ControlStop /\ UNCHANGED step
     \/ WaitStopped /\ UNCHANGED step
     \/ DeleteService /\ step' = "cleanup"
  /\ Memory /\ UNCHANGED <<file, command, draft, enrolled>>

InstallationNext ==
  \/ RunWizard \/ RunConfigWriter \/ Write \/ Enroll \/ Confirm \/ Abort \/ Cleanup
  \/ ServiceCalls \/ Others
  \/ \E p \in Processes : MainThread(p) \/ ExecuteThread(p)

InstallationSpec == InstallationInit /\ [][InstallationNext]_all

\* Both threads of a process run, and a first sync ends (Sync).  Operators,
\* users and deaths are not fair.
InstallationFairness ==
  \A p \in Processes : WF_all(MainThread(p)) /\ WF_all(ExecuteThread(p))

FairInstallationSpec == InstallationSpec /\ InstallationFairness

-----------------------------------------------------------------------------
(* Properties. *)

\* install starts a service only beside a file from which the agent can run:
\* the wizard's answers are complete, whatever was typed, and a write that
\* failed does not get this far.
InstalledAgentCanLoad ==
  installer = "start" => file \in Configs /\ Loads(file) /\ HasDriver(file)

\* The subscription opened for this file is for the id that the agent will
\* poll with, whatever its environment says.
EnrolledIsPolled ==
  enrolled # Blank /\ file \in Configs => PollId(Load(file, Environment)) = enrolled

\* With its configuration the service still behaves as Service says.
ServiceSpec == Spec
=============================================================================
