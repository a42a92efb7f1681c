\* Wizards, config_writer, installs and uninstalls around two agent processes.
SPECIFICATION FairInstallationSpec
CONSTANTS
  MaxProcesses = 2
  Answers <- SomeAnswers
  Flags <- SomeFlags
  Detected = "detected"
  Environment = "elsewhere"
  Torn = Torn
  Missing = Missing
  Unread = Unread
INVARIANTS
  InstallationTypeOK
  OnlyLeaversOverlap
  InstalledAgentCanLoad
  EnrolledIsPolled
PROPERTIES
  LeaversLeave
  UninstallCompletes
  ServiceSpec
