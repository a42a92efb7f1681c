--------------------------- MODULE TicketsProofs ---------------------------
(***************************************************************************)
(* Proofs about Tickets: for any checks, tables, match window and offset.  *)
(***************************************************************************)
EXTENDS Tickets, TLAPS

USE ConstantsAssumption

\* What the reader knows at each step about the checks that were there when it
\* began: a check is final before it leaves the list, so listed \cup final and
\* final only grow.
ScanInv ==
  LET all == scan.start.open \cup scan.start.closed
  IN  /\ scan.step = 1 => all \subseteq listed \cup final
      /\ scan.step = 2 /\ scan.clean => all \subseteq scan.found.open \cup final
      /\ scan.step = 3 /\ scan.clean =>
           all \subseteq scan.found.open \cup scan.found.closed
      /\ scan.step \in {1, 2} => scan.start.closed \subseteq final
      /\ scan.step = 3 => scan.start.closed \subseteq scan.found.closed

\* Only checks that were opened are listed, final, or found, and none was
\* opened in the future.
OpenedInv ==
  LET seen == {c \in Checks : opened[c] # Never}
  IN  /\ \A c \in seen : opened[c] <= now
      /\ listed \subseteq seen /\ final \subseteq seen
      /\ scan.found.open \subseteq seen /\ scan.found.closed \subseteq seen

IInv == TypeOK /\ ScanInv /\ OpenedInv

LEMMA ScanOrderFacts == ScanOrder[1] = "open" /\ ScanOrder[2] = "closed"
BY DEF ScanOrder

LEMMA NothingType == Nothing \in Sets
BY DEF Nothing, Sets

LEMMA InitInv == Init => IInv
<1> SUFFICES ASSUME Init PROVE IInv
  OBVIOUS
<1>1. TypeOK
  <2>1. 0 \in 0..3 /\ 0 \in 0..MaxTime
    OBVIOUS
  <2>2. scan \in [step : 0..3, found : Sets, start : Sets, clean : BOOLEAN]
    BY <2>1, NothingType DEF Init
  <2>3. order \in [pc : {"sent", "confirmed", "matched"}, match : Checks \cup {None}]
    BY DEF Init
  <2> QED
    BY <2>1, <2>2, <2>3, NothingType DEF Init, TypeOK
<1>2. ScanInv /\ OpenedInv
  BY DEF Init, ScanInv, OpenedInv, Nothing
<1> QED
  BY <1>1, <1>2 DEF IInv

LEMMA ContentFacts ==
  ASSUME IInv, NEW dir \in Dirs
  PROVE  /\ Content(dir) \subseteq Checks
         /\ \A c \in Content(dir) : opened[c] # Never
         /\ dir = "closed" => Content(dir) = final
         /\ dir = "open" /\ ~torn => Content(dir) = listed
BY DEF IInv, TypeOK, OpenedInv, Content, Dirs

LEMMA ScanStartInv == ASSUME IInv, ScanStart PROVE IInv'
<1> USE DEF IInv, ScanStart, pos
<1>1. TypeOK'
  BY NothingType DEF TypeOK, Sets
<1>2. ScanInv' /\ OpenedInv'
  BY DEF TypeOK, ScanInv, OpenedInv, Nothing
<1> QED
  BY <1>1, <1>2

LEMMA ScanDirInv == ASSUME IInv, ScanDir PROVE IInv'
<1> DEFINE dir == ScanOrder[scan.step]
<1> USE DEF IInv, pos
<1>1. /\ scan.step \in {1, 2} /\ scan.found \in Sets /\ scan.start \in Sets
      /\ dir = IF scan.step = 1 THEN "open" ELSE "closed"
  BY ScanOrderFacts DEF ScanDir, TypeOK
<1>2. [scan.found EXCEPT ![dir] = Content(dir)] =
        [open |-> IF dir = "open" THEN Content("open") ELSE scan.found.open,
         closed |-> IF dir = "closed" THEN Content("closed") ELSE scan.found.closed]
  BY <1>1 DEF Sets
<1>3. scan' = [step |-> scan.step + 1,
               found |-> [scan.found EXCEPT ![dir] = Content(dir)],
               start |-> scan.start, clean |-> scan.clean /\ ~(dir = "open" /\ torn)]
  BY <1>1, Zenon DEF ScanDir, TypeOK
<1>4. UNCHANGED <<now, pos, tickets, order>>
  BY DEF ScanDir
<1>5. CASE scan.step = 1
  <2>1. /\ scan'.step = 2 /\ scan'.start = scan.start
        /\ scan'.clean => ~torn
        /\ scan'.found = [open |-> Content("open"), closed |-> scan.found.closed]
    <3>1. scan'.clean = (scan.clean /\ ~(dir = "open" /\ torn))
      BY <1>3, Zenon
    <3>2. scan'.clean => ~torn
      BY <3>1, <1>1, <1>5
    <3>3. scan'.step = scan.step + 1 /\ scan'.start = scan.start
      BY <1>3
    <3>4. scan'.found = [scan.found EXCEPT ![dir] = Content(dir)]
      BY <1>3
    <3> QED
      BY <3>2, <3>3, <3>4, <1>1, <1>2, <1>5
  <2>2. TypeOK'
    BY <1>1, <1>2, <1>3, <1>4, <1>5, ContentFacts DEF Dirs, TypeOK, Sets
  <2>3. ScanInv'
    BY <1>4, <1>5, <2>1, ContentFacts DEF Dirs, TypeOK, ScanInv
  <2>4. OpenedInv'
    BY <1>1, <1>4, <2>1, ContentFacts DEF Dirs, TypeOK, OpenedInv
  <2> QED
    BY <2>2, <2>3, <2>4
<1>6. CASE scan.step = 2
  <2>1. /\ scan'.step = 3 /\ scan'.start = scan.start
        /\ scan'.clean => scan.clean
        /\ scan'.found = [open |-> scan.found.open, closed |-> Content("closed")]
    <3>1. scan'.clean = (scan.clean /\ ~(dir = "open" /\ torn))
      BY <1>3, Zenon
    <3>2. scan'.clean => scan.clean
      BY <3>1, <1>1, <1>6
    <3>3. scan'.step = scan.step + 1 /\ scan'.start = scan.start
      BY <1>3
    <3>4. scan'.found = [scan.found EXCEPT ![dir] = Content(dir)]
      BY <1>3
    <3> QED
      BY <3>2, <3>3, <3>4, <1>1, <1>2, <1>6
  <2>2. TypeOK'
    BY <1>1, <1>2, <1>3, <1>4, <1>6, ContentFacts DEF Dirs, TypeOK, Sets
  <2>3. ScanInv'
    BY <1>4, <1>6, <2>1, ContentFacts DEF Dirs, TypeOK, ScanInv
  <2>4. OpenedInv'
    BY <1>1, <1>4, <2>1, ContentFacts DEF Dirs, TypeOK, OpenedInv
  <2> QED
    BY <2>2, <2>3, <2>4
<1> QED
  BY <1>1, <1>5, <1>6

LEMMA ScanEndInv == ASSUME IInv, ScanEnd PROVE IInv'
<1> USE DEF IInv, ScanEnd, pos
<1>1. Merge(scan.found) \in Sets
  BY DEF TypeOK, Merge, Sets
<1>2. Candidates(Merge(scan.found)) \subseteq Checks
  BY <1>1 DEF Candidates, Sets
<1>3. order' \in [pc : {"sent", "confirmed", "matched"}, match : Checks \cup {None}]
  BY <1>2 DEF TypeOK
<1>4. TypeOK'
  BY <1>1, <1>3 DEF TypeOK
<1>5. ScanInv' /\ OpenedInv'
  BY DEF TypeOK, ScanInv, OpenedInv
<1> QED
  BY <1>4, <1>5

LEMMA EnvironmentInv ==
  ASSUME IInv, Tick \/ PosTruncate \/ PosConfirm
  PROVE  IInv'
<1>1. CASE Tick
  BY <1>1 DEF Tick, pos, IInv, TypeOK, ScanInv, OpenedInv
<1>2. CASE PosTruncate
  BY <1>2 DEF PosTruncate, IInv, TypeOK, ScanInv, OpenedInv
<1>3. CASE PosConfirm
  BY <1>3 DEF PosConfirm, pos, IInv, TypeOK, ScanInv, OpenedInv
<1> QED
  BY <1>1, <1>2, <1>3

LEMMA CheckInv ==
  ASSUME IInv, NEW c \in Checks, PosFinalise(c) \/ PosDrop(c)
  PROVE  IInv'
<1>1. CASE PosFinalise(c)
  BY <1>1 DEF PosFinalise, IInv, TypeOK, ScanInv, OpenedInv
<1>2. CASE PosDrop(c)
  BY <1>2 DEF PosDrop, IInv, TypeOK, ScanInv, OpenedInv
<1> QED
  BY <1>1, <1>2

LEMMA PosOpenInv ==
  ASSUME IInv, NEW c \in Checks, NEW t \in Tables, PosOpen(c, t)
  PROVE  IInv'
<1> USE DEF IInv, PosOpen
<1>1. TypeOK'
  BY DEF TypeOK
<1>2. ScanInv'
  BY DEF TypeOK, ScanInv
<1>3. now # Never /\ now <= now
  BY DEF TypeOK, Never
<1>4. OpenedInv'
  BY <1>3 DEF TypeOK, OpenedInv
<1> QED
  BY <1>1, <1>2, <1>4

LEMMA NextInv == IInv /\ [Next]_vars => IInv'
<1> SUFFICES ASSUME IInv, [Next]_vars PROVE IInv'
  OBVIOUS
<1>1. CASE UNCHANGED vars
  BY <1>1 DEF vars, pos, IInv, TypeOK, ScanInv, OpenedInv
<1> QED
  BY <1>1, ScanStartInv, ScanDirInv, ScanEndInv, EnvironmentInv, CheckInv, PosOpenInv
     DEF Next, ReadAllTickets

LEMMA Invariance == Spec => []IInv
BY InitInv, NextInv, PTL DEF Spec

-----------------------------------------------------------------------------
(* Theorems. *)

\* Scans, lists and the order's answer stay well typed.
THEOREM TicketsTypeCorrect == Spec => []TypeOK
<1>1. IInv => TypeOK
  BY DEF IInv
<1> QED
  BY <1>1, Invariance, PTL

\* A scan that could parse its files returns every check that was there when it
\* began, whatever the POS finalised or dropped meanwhile.
THEOREM NoneLost == Spec => []NoCheckIsLost
<1>1. IInv => NoCheckIsLost
  BY DEF IInv, ScanInv, NoCheckIsLost
<1> QED
  BY <1>1, Invariance, PTL

\* Of a check that is in both directories the closed entry wins, so that one that
\* was final when a scan began is not returned as open, nor in both states, while
\* the POS still lists it: what the merge does, and the opposite of the README's
\* "open wins over closed".
ClosedWinsOverOpen ==
  scan.step = 3 /\ scan'.step = 0 =>
    /\ scan.start.closed \cap tickets'.open = {}
    /\ scan.found.open \cap scan.found.closed \subseteq tickets'.closed \ tickets'.open

\* No interleaving of the POS with the two scans brings a final check back.
THEOREM ClosedWins == Spec => [][ClosedWinsOverOpen]_vars
<1>1. ASSUME IInv, [Next]_vars, scan.step = 3, scan'.step = 0
      PROVE  /\ scan.start.closed \cap tickets'.open = {}
             /\ scan.found.open \cap scan.found.closed \subseteq tickets'.closed \ tickets'.open
  <2>1. ScanEnd
    BY <1>1 DEF Next, ReadAllTickets, ScanStart, ScanDir, Tick, PosTruncate, PosOpen,
           PosConfirm, PosFinalise, PosDrop, vars
  <2>2. scan.start.closed \subseteq scan.found.closed
    BY <1>1 DEF IInv, ScanInv
  <2> QED
    BY <2>1, <2>2 DEF ScanEnd, Merge
<1>2. IInv /\ [Next]_vars => [ClosedWinsOverOpen]_vars
  BY <1>1 DEF ClosedWinsOverOpen
<1> QED
  BY <1>2, Invariance, PTL DEF Spec

\* The ticket an order is answered with is one of the candidates of its scan.
LEMMA MatchIsACandidate ==
  ASSUME IInv, [Next]_vars, order.pc = "confirmed", order'.pc = "matched", order'.match # None
  PROVE  /\ order'.match \in Checks /\ table[order'.match] = OrderTable
         /\ Age(order'.match) <= Window
<1>1. ScanEnd
  BY DEF Next, ReadAllTickets, ScanStart, ScanDir, Tick, PosTruncate, PosOpen,
         PosConfirm, PosFinalise, PosDrop, vars
<1>2. order'.match \in Candidates(Merge(scan.found))
  BY <1>1 DEF ScanEnd
<1> QED
  BY <1>2 DEF IInv, TypeOK, Candidates, Merge, Sets

\* The order's check: it stays at the order's table, is listed or final from the
\* moment it exists, and was so when the scan of a confirmed order began.
OursInv ==
  /\ ours # None => /\ ours \in Checks /\ table[ours] = OrderTable
                    /\ ours \in listed \cup final
  /\ order.pc = "confirmed" =>
       /\ ours # None
       /\ scan.step # 0 => ours \in scan.start.open \cup scan.start.closed

LEMMA OursStep ==
  ASSUME IInv, OursInv, [Next]_vars
  PROVE  OursInv'
<1>1. CASE ScanStart
  BY <1>1 DEF ScanStart, pos, OursInv
<1>2. CASE ScanDir
  <2>1. scan'.start = scan.start /\ scan.step # 0
    BY <1>2 DEF ScanDir, IInv, TypeOK
  <2> QED
    BY <1>2, <2>1 DEF ScanDir, pos, OursInv
<1>3. CASE ScanEnd
  <2>1. order'.pc # "confirmed"
    BY <1>3 DEF ScanEnd
  <2> QED
    BY <1>3, <2>1 DEF ScanEnd, pos, OursInv
<1>4. CASE Tick \/ PosTruncate
  BY <1>4 DEF Tick, PosTruncate, pos, OursInv
<1>5. CASE PosConfirm
  BY <1>5 DEF PosConfirm, pos, OursInv
<1>6. ASSUME NEW c \in Checks, NEW t \in Tables, PosOpen(c, t)
      PROVE  OursInv'
  <2>1. ours # None => ours # c /\ table'[ours] = table[ours]
    BY <1>6 DEF PosOpen, IInv, OpenedInv, TypeOK, OursInv
  <2>2. table'[c] = t /\ c \in listed'
    BY <1>6 DEF PosOpen, IInv, TypeOK
  <2>3. listed \subseteq listed' /\ UNCHANGED <<final, scan, order>>
    BY <1>6 DEF PosOpen
  <2>4. CASE ours' = ours
    BY <2>1, <2>3, <2>4 DEF OursInv
  <2>5. CASE ours = None /\ t = OrderTable /\ ours' = c
    BY <2>2, <2>3, <2>5 DEF OursInv
  <2> QED
    BY <1>6, <2>4, <2>5 DEF PosOpen
<1>7. ASSUME NEW c \in Checks, PosFinalise(c) \/ PosDrop(c)
      PROVE  OursInv'
  BY <1>7 DEF PosFinalise, PosDrop, OursInv
<1>8. CASE UNCHANGED vars
  BY <1>8 DEF vars, pos, OursInv
<1> QED
  BY <1>1, <1>2, <1>3, <1>4, <1>5, <1>6, <1>7, <1>8 DEF Next, ReadAllTickets

\* A confirmed order whose scan read every file finds a ticket if its own check
\* looks young.
LEMMA YoungIsFound ==
  ASSUME IInv, OursInv, [Next]_vars, order.pc = "confirmed", order'.pc = "matched",
         scan.clean, Age(ours) <= Window
  PROVE  order'.match # None
<1>1. ScanEnd
  BY DEF Next, ReadAllTickets, ScanStart, ScanDir, Tick, PosTruncate, PosOpen,
         PosConfirm, PosFinalise, PosDrop, vars
<1>2. ours \in scan.found.open \cup scan.found.closed
  BY <1>1 DEF ScanEnd, IInv, ScanInv, OursInv
<1>3. ours \in Candidates(Merge(scan.found))
  BY <1>2 DEF Candidates, Merge, OursInv
<1> QED
  BY <1>1, <1>3 DEF ScanEnd

LEMMA OursInvariance == Spec => []OursInv
<1>1. Init => OursInv
  BY DEF Init, OursInv
<1> QED
  BY <1>1, OursStep, Invariance, PTL DEF Spec

\* Where local time is not behind UTC, a confirmed order whose scan read every
\* file finds a ticket if its own check is young, for every offset and window.
THEOREM OwnIsFound ==
  ASSUME Skew >= 0
  PROVE  Spec => OwnCheckIsFound
<1>1. IInv /\ OursInv /\ [Next]_vars =>
        [order.pc = "confirmed" /\ order'.pc = "matched" /\ scan.clean
           /\ now - opened[ours] <= Window => order'.match # None]_vars
  <2> SUFFICES ASSUME IInv, OursInv, [Next]_vars, order.pc = "confirmed",
                      order'.pc = "matched", scan.clean, now - opened[ours] <= Window
               PROVE  order'.match # None
    OBVIOUS
  <2>1. now \in Int /\ opened[ours] \in Int
    BY DEF IInv, TypeOK, OursInv, Never
  <2>2. Age(ours) <= Window
    BY <2>1 DEF Age
  <2> QED
    BY <2>2, YoungIsFound
<1> QED
  BY <1>1, Invariance, OursInvariance, PTL DEF Spec, OwnCheckIsFound

\* No other check of the order's table looks as young as the window allows.
Alone == \A c \in Checks \ {ours} : table[c] = OrderTable => ~(Age(c) <= Window)

\* An order whose check is alone in that and looks young is answered with it.
AloneIsAnswered ==
  order.pc = "confirmed" /\ order'.pc = "matched" /\ scan.clean /\ Age(ours) <= Window /\ Alone =>
    order'.match = ours

\* When the promise of findMatchedTicket is kept: it takes a second young check
\* of the table to break it, and an offset, a late scan or a file that does not
\* parse to answer with no ticket.
THEOREM AloneIsMatched == Spec => [][AloneIsAnswered]_vars
<1>1. IInv /\ OursInv /\ [Next]_vars => [AloneIsAnswered]_vars
  BY YoungIsFound, MatchIsACandidate DEF Alone, AloneIsAnswered
<1> QED
  BY <1>1, Invariance, OursInvariance, PTL DEF Spec

\* The window in force: an order's ticket is no older than the match window
\* corrected by the offset, if its time parses.
WithinRealWindow ==
  order.pc = "confirmed" /\ order'.pc = "matched" /\ order'.match \notin Undated \cup {None} =>
    now - opened[order'.match] \in 0..(Window + Skew)

\* East of UTC orders are matched with checks that are older by the offset, west
\* of it the window is narrower by it, or empty.
THEOREM WindowIsShifted == Spec => [][WithinRealWindow]_vars
<1>1. ASSUME IInv, Next, order.pc = "confirmed", order'.pc = "matched",
             order'.match \notin Undated \cup {None}
      PROVE  now - opened[order'.match] \in 0..(Window + Skew)
  <2> DEFINE c == order'.match
  <2>1. ScanEnd
    BY <1>1 DEF Next, ReadAllTickets, ScanStart, ScanDir, Tick, PosTruncate, PosOpen,
           PosConfirm, PosFinalise, PosDrop
  <2>2. c \in Candidates(Merge(scan.found))
    BY <1>1, <2>1 DEF ScanEnd
  <2>3. c \in Checks /\ opened[c] # Never /\ opened[c] <= now
    BY <1>1, <2>2 DEF IInv, OpenedInv, TypeOK, Candidates, Merge, Sets
  <2>4. now \in Int /\ opened[c] \in Int
    BY <1>1, <2>3 DEF IInv, TypeOK, Never
  <2>5. now - (opened[c] + Skew) <= Window
    BY <1>1, <2>2 DEF Candidates, Age
  <2> QED
    BY <2>3, <2>4, <2>5
<1>2. IInv /\ [Next]_vars => [WithinRealWindow]_vars
  BY <1>1 DEF WithinRealWindow
<1> QED
  BY <1>2, Invariance, PTL DEF Spec

\* No order has been answered with a ticket.
NeverMatched == order.match = None

\* Where local time is behind UTC by more than the match window, as in all of
\* America, no order is ever answered with its ticket: every dated check looks
\* older than the window.
THEOREM WestOfUtcNothingMatches ==
  ASSUME Undated = {}, Skew + Window < 0
  PROVE  Spec => []NeverMatched
<1>1. Init => NeverMatched
  BY DEF Init, NeverMatched
<1>2. ASSUME IInv, NeverMatched, [Next]_vars
      PROVE  NeverMatched'
  <2>1. CASE ScanEnd
    <3>1. ASSUME NEW c \in Candidates(Merge(scan.found))
          PROVE  FALSE
      <4>1. c \in Checks /\ opened[c] # Never /\ opened[c] <= now
        BY <1>2, <3>1 DEF IInv, OpenedInv, TypeOK, Candidates, Merge, Sets
      <4>2. now \in Int /\ opened[c] \in Int
        BY <1>2, <4>1 DEF IInv, TypeOK
      <4>3. Age(c) = now - (opened[c] + Skew)
        BY DEF Age
      <4>4. Age(c) <= Window
        BY <3>1 DEF Candidates
      <4> QED
        BY <4>1, <4>2, <4>3, <4>4
    <3> QED
      BY <2>1, <3>1, <1>2 DEF ScanEnd, NeverMatched
  <2>2. CASE ~ScanEnd
    BY <1>2, <2>2 DEF NeverMatched, IInv, TypeOK, Next, ReadAllTickets, ScanStart,
       ScanDir, Tick, PosTruncate, PosOpen, PosConfirm, PosFinalise, PosDrop, vars
  <2> QED
    BY <2>1, <2>2
<1> QED
  BY <1>1, <1>2, Invariance, PTL DEF Spec
=============================================================================
