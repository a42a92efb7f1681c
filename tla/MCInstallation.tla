--------------------------- MODULE MCInstallation ---------------------------
(***************************************************************************)
(* Installation on a small instance (InstallationSetup.cfg): a wizard that *)
(* is answered with or without an id, a path and a name, for both types of *)
(* POS, and config_writer with a good and two bad sets of flags.           *)
(***************************************************************************)
EXTENDS Installation

SomeAnswers == {
  [choice |-> "1", name |-> "venue", id |-> "store", spcwin |-> ""],
  [choice |-> "2", name |-> "venue", id |-> "", spcwin |-> ""],
  [choice |-> "1", name |-> "", id |-> "", spcwin |-> "typed"]}

SomeFlags == {
  [pos |-> "positouch", name |-> "venue", id |-> "", spcwin |-> "typed"],
  [pos |-> "positouch", name |-> "venue", id |-> "", spcwin |-> ""],
  [pos |-> "aloha", name |-> "venue", id |-> "", spcwin |-> "typed"]}
=============================================================================
