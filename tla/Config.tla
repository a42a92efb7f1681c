------------------------------- MODULE Config -------------------------------
(***************************************************************************)
(* The configuration: what the two programs that write rooam_config.json   *)
(* make of their answers, and what the agent makes of the file.            *)
(*                                                                         *)
(* A configuration is what decides whether the agent can run and under     *)
(* which identifiers: the type of POS, the location's name and id, the     *)
(* path of spcwin.exe and the presence of the MICROS block.  Directories,  *)
(* keys and credentials are carried along unread.                          *)
(***************************************************************************)

Blank == ""

\* A text, or its default: the prompts and Load share this pattern.
Or(text, default) == IF text = Blank THEN default ELSE text

\* Mutant: the path is taken as it was typed.
WizardTrusting(a, detected) ==
  LET pos == IF a.choice = "2" THEN "micros3700" ELSE "positouch"
  IN  [pos |-> pos, name |-> a.name, id |-> Or(a.id, a.name),
       spcwin |-> IF pos = "positouch" THEN a.spcwin ELSE Blank,
       micros |-> pos = "micros3700"]

\* The wizard.  The id defaults to the name, and only POSitouch is asked for
\* spcwin.exe, whose default is a path that was detected.
WizardConfig(a, detected) ==
  LET pos == IF a.choice = "2" THEN "micros3700" ELSE "positouch"
  IN  [pos |-> pos, name |-> a.name, id |-> Or(a.id, a.name),
       spcwin |-> IF pos = "positouch" THEN Or(a.spcwin, detected) ELSE Blank,
       micros |-> pos = "micros3700"]

\* config_writer: the flags are not checked, and an empty one stays empty.
WriterConfig(f) ==
  [pos |-> f.pos, name |-> f.name, id |-> Or(f.id, f.name),
   spcwin |-> IF f.pos = "micros3700" THEN Blank ELSE f.spcwin,
   micros |-> f.pos = "micros3700"]

EffectivePOSType(c) == Or(c.pos, "positouch")

\* The errors of Load, of a file that can be parsed.
Loads(c) ==
  /\ EffectivePOSType(c) = "positouch" => c.spcwin # Blank
  /\ EffectivePOSType(c) = "micros3700" => c.micros

\* main has a driver for two types of POS and ends over any other.
HasDriver(c) == EffectivePOSType(c) \in {"positouch", "micros3700"}

\* Mutant: the environment comes before the file.
LoadEnvironmentFirst(c, environment) ==
  [c EXCEPT !.id = Or(Or(environment, c.id), c.name)]

\* What Load returns: the environment and then the name fill in for the id.
Load(c, environment) == [c EXCEPT !.id = Or(Or(c.id, environment), c.name)]

\* The id under which the pollers fetch and report.  The uploads use the name.
PollId(c) == Or(c.id, c.name)
=============================================================================
