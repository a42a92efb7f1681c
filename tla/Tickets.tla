------------------------------ MODULE Tickets ------------------------------
(***************************************************************************)
(* Reading the POS's tickets: ReadAllTickets scans the directory of open   *)
(* checks and then the one of finalised checks, while the POS writes both, *)
(* and merges the two.  The ticket loop uploads the result; an order that  *)
(* was confirmed picks "its" ticket from it by table and age.              *)
(*                                                                         *)
(* The open checks are listed in one file the POS rewrites as a whole; a   *)
(* finalised check gets a file of its own.  Time is counted in ticks; the  *)
(* POS writes local time and the agent takes it for UTC, so an opening     *)
(* time is read with an offset Skew.                                       *)
(***************************************************************************)
EXTENDS Integers

CONSTANTS
  Checks,     \* check numbers
  Tables,     \* table numbers
  OrderTable, \* table of the order that is being confirmed
  None,       \* no check, no table
  Undated,    \* checks whose opening time does not parse
  Skew,       \* local time minus UTC
  Window,     \* orderTicketMatchWindow
  MaxTime     \* bound: ticks explored

ASSUME ConstantsAssumption ==
  /\ OrderTable \in Tables /\ None \notin Checks \cup Tables
  /\ Undated \subseteq Checks
  /\ Skew \in Int /\ Window \in Nat /\ MaxTime \in Nat

Dirs == {"open", "closed"}
Never == 0 - 1

VARIABLES
  now,      \* the clock
  opened,   \* opened[c]: when the POS opened c, Never if it has not
  table,    \* table[c]: where
  listed,   \* checks in the POS's file of open checks
  torn,     \* that file is being rewritten and does not parse
  final,    \* finalised checks, each with its file
  scan,     \* the reader: directories done, what it found, where it began
  tickets,  \* what the last complete scan returned: open and closed checks
  ours,     \* the check the POS opened for the order
  order     \* the order: "sent", "confirmed", or "matched" with match
vars == <<now, opened, table, listed, torn, final, scan, tickets, ours, order>>
pos == <<opened, table, listed, torn, final, ours>>

Sets == [open : SUBSET Checks, closed : SUBSET Checks]
Nothing == [open |-> {}, closed |-> {}]

TypeOK ==
  /\ now \in 0..MaxTime
  /\ opened \in [Checks -> {Never} \cup 0..MaxTime]
  /\ table \in [Checks -> Tables \cup {None}]
  /\ listed \subseteq Checks /\ final \subseteq Checks
  /\ torn \in BOOLEAN
  /\ scan \in [step : 0..3, found : Sets, start : Sets, clean : BOOLEAN]
  /\ tickets \in Sets
  /\ ours \in Checks \cup {None}
  /\ order \in [pc : {"sent", "confirmed", "matched"}, match : Checks \cup {None}]

Init ==
  /\ now = 0
  /\ opened = [c \in Checks |-> Never]
  /\ table = [c \in Checks |-> None]
  /\ listed = {} /\ final = {} /\ torn = FALSE
  /\ scan = [step |-> 0, found |-> Nothing, start |-> Nothing, clean |-> TRUE]
  /\ tickets = Nothing
  /\ ours = None
  /\ order = [pc |-> "sent", match |-> None]

-----------------------------------------------------------------------------
(* The agent. *)

\* Mutant: the closed directory is scanned first.
ClosedFirst == <<"closed", "open">>

\* The directories in the order in which ReadAllTickets scans them.
ScanOrder == <<"open", "closed">>

\* Mutant: an unparsable file yields a zero check.
ContentUnchecked(dir) ==
  IF dir = "closed" THEN final ELSE IF torn THEN {None} ELSE listed

\* What a scan of dir finds now: a file that does not parse is skipped.
Content(dir) ==
  IF dir = "closed" THEN final ELSE IF torn THEN {} ELSE listed

\* ReadAllTickets is called.
ScanStart ==
  /\ scan.step = 0
  /\ scan' = [step |-> 1, found |-> Nothing, clean |-> TRUE,
              start |-> [open |-> listed \ final, closed |-> final]]
  /\ UNCHANGED <<now, pos, tickets, order>>

\* parseTicketsFromXMLFiles of the next directory.
ScanDir ==
  LET dir == ScanOrder[scan.step]
  IN  /\ scan.step \in {1, 2}
      /\ scan' = [scan EXCEPT !.step = @ + 1, !.found[dir] = Content(dir),
                              !.clean = @ /\ ~(dir = "open" /\ torn)]
      /\ UNCHANGED <<now, pos, tickets, order>>

\* Merging into one map by check number: the closed entry is written last.
Merge(found) == [open |-> found.open \ found.closed, closed |-> found.closed]

\* How old the agent takes a check to be; an unparsable time means just now.
Age(c) == IF c \in Undated THEN 0 ELSE now - (opened[c] + Skew)

\* Mutant: a check that seems to be opened in the future is not accepted.
OnlyPast(found) ==
  {c \in found.open \cup found.closed : table[c] = OrderTable /\ Age(c) \in 0..Window}

\* The tickets findMatchedTicket would accept.
Candidates(found) ==
  {c \in found.open \cup found.closed : table[c] = OrderTable /\ Age(c) <= Window}

\* The scan ends: the ticket loop takes the list, and findMatchedTicket the
\* first candidate of a list whose order is that of a Go map.
ScanEnd ==
  LET result == Merge(scan.found)
  IN  /\ scan.step = 3
      /\ tickets' = result
      /\ scan' = [scan EXCEPT !.step = 0]
      /\ \/ order.pc # "confirmed" /\ UNCHANGED order
         \/ /\ order.pc = "confirmed"
            /\ \E c \in Candidates(result) \cup {None} :
                 /\ c = None => Candidates(result) = {}
                 /\ order' = [pc |-> "matched", match |-> c]
      /\ UNCHANGED <<now, pos>>

-----------------------------------------------------------------------------
(* The environment. *)

Tick ==
  /\ now < MaxTime
  /\ now' = now + 1
  /\ UNCHANGED <<pos, scan, tickets, order>>

\* The POS begins to rewrite its file of open checks.
PosTruncate ==
  /\ ~torn
  /\ torn' = TRUE
  /\ UNCHANGED <<now, opened, table, listed, final, scan, tickets, ours, order>>

\* It opens a check at a table, for the order or for anybody else.
PosOpen(c, t) ==
  /\ torn /\ opened[c] = Never
  /\ torn' = FALSE
  /\ opened' = [opened EXCEPT ![c] = now]
  /\ table' = [table EXCEPT ![c] = t]
  /\ listed' = listed \cup {c}
  /\ \/ ours = None /\ t = OrderTable /\ ours' = c
     \/ ours' = ours
  /\ UNCHANGED <<now, final, scan, tickets, order>>

\* The order's confirmation file is there; ReadAllTickets is called after it.
PosConfirm ==
  /\ order.pc = "sent" /\ ours # None /\ scan.step = 0
  /\ order' = [order EXCEPT !.pc = "confirmed"]
  /\ UNCHANGED <<now, pos, scan, tickets>>

\* A check is paid: its final file is complete before it leaves the open ones.
PosFinalise(c) ==
  /\ c \in listed \ final
  /\ final' = final \cup {c}
  /\ UNCHANGED <<now, opened, table, listed, torn, scan, tickets, ours, order>>

PosDrop(c) ==
  /\ torn /\ c \in listed \cap final
  /\ torn' = FALSE
  /\ listed' = listed \ {c}
  /\ UNCHANGED <<now, opened, table, final, scan, tickets, ours, order>>

ReadAllTickets == ScanStart \/ ScanDir \/ ScanEnd

Next ==
  \/ ReadAllTickets \/ Tick \/ PosTruncate \/ PosConfirm
  \/ \E c \in Checks : PosFinalise(c) \/ PosDrop(c) \/ \E t \in Tables : PosOpen(c, t)

Spec == Init /\ [][Next]_vars

-----------------------------------------------------------------------------
(* Properties. *)

\* A scan that could parse every file returns every check that existed when it
\* began, even if the POS finalised it and dropped it from the open ones half
\* way: it scans the directories in the order in which a check moves.
NoCheckIsLost ==
  scan.step = 3 /\ scan.clean =>
    scan.start.open \cup scan.start.closed \subseteq scan.found.open \cup scan.found.closed

\* "find the newly created ticket by table and time window": the ticket an
\* order is answered with is the check the POS opened for it.
MatchIsTheNewCheck ==
  order.pc = "matched" /\ order.match # None => order.match = ours

\* "find the newly created ticket": if the scan could parse its files and the
\* order's own check was opened within the window, the order is answered with
\* some ticket, whatever the POS did to the check between the confirmation and
\* the end of the scan, and though its opening time is local and read as UTC.
\* It is so where local time is not behind UTC (Skew >= 0).
OwnCheckIsFound ==
  [][order.pc = "confirmed" /\ order'.pc = "matched" /\ scan.clean
       /\ now - opened[ours] <= Window => order'.match # None]_vars
=============================================================================
