------------------------------ MODULE Readers ------------------------------
(***************************************************************************)
(* How SyncEntities reads its lists: employees with their statuses, order  *)
(* types, tenders and cost centers from DBF files, one after the other,    *)
(* while the POS appends records to the same files and flags others as     *)
(* deleted; then the tables, whose revenue centers are positions in a list *)
(* of names.  Nothing locks the files: the header is read once, then one   *)
(* record at a time, and any of these reads may fail.                      *)
(*                                                                         *)
(* A record is named by its position.  Appending one takes two writes, the *)
(* record and the header's count, in either order.                         *)
(***************************************************************************)
EXTENDS Naturals, Sequences, FiniteSets

CONSTANTS
  Unread,      \* a list that is not there yet
  Names,       \* names of revenue centers in set1.xml
  Blank,       \* an empty name
  MaxSlots,    \* bound: revenue center slots of set1.xml explored
  MaxChanges   \* bound: writes of the POS explored

ASSUME NamesAssumption == Blank \notin Names
ASSUME BoundsAssumption == MaxSlots \in Nat /\ MaxChanges \in Nat
ASSUME UnreadAssumption == \A rows \in SUBSET (1..MaxChanges) : Unread # rows

Files == {"USERS", "EMPFILE", "NAMECC", "NAMEPAY", "NAMES"}
Lists == {"employees", "statuses", "orderTypes", "tenders", "costCenters"}
Positions == 1..MaxChanges
Records == [class : {"CC", "PY"}, named : BOOLEAN, deleted : BOOLEAN]
Slots == UNION {[1..n -> Names \cup {Blank}] : n \in 0..MaxSlots}

VARIABLES
  exists,   \* the files this venue has
  files,    \* files[f]: the header's count and the records
  read,     \* the reader: which list, the header's count, the next record
  lists,    \* lists[l]: rows of the snapshot, as positions in their file
  failed,   \* history: lists of this snapshot that could not be read
  before,   \* history: before[l]: records when l's header was read
  table,    \* a table of the snapshot: its center's position and name
  changes   \* writes so far

vars == <<exists, files, read, lists, failed, before, table, changes>>

Steps == 1..6   \* the five lists, then the tables

\* Mutant: the cost centers are read before the order types.
CostCentersFirst ==
  <<"employees", "statuses", "costCenters", "tenders", "orderTypes">>

\* The order in which SyncEntities calls its readers.
Order == <<"employees", "statuses", "orderTypes", "tenders", "costCenters">>

ListsTypeOK ==
  /\ exists \subseteq Files
  /\ files \in [Files -> [count : Nat, records : Seq(Records)]]
  /\ \A f \in Files : Len(files[f].records) <= changes
  /\ read \in [pc : {"idle", "open", "records", "tables"}, step : Steps,
               count : Nat, next : Nat \ {0}, rows : SUBSET Positions]
  /\ lists \in [Lists -> {Unread} \cup SUBSET Positions]
  /\ \A i \in 1..(read.step - 1) : lists[Order[i]] # Unread
  /\ failed \subseteq Lists
  /\ before \in [Lists -> [live : SUBSET Positions, gone : SUBSET Positions]]
  /\ changes \in 0..MaxChanges

TypeOK ==
  /\ ListsTypeOK
  /\ table \in [slots : Slots, center : 0..(MaxSlots + 1), section : Names \cup {Blank}]

\* A reader without an open file.
Reader(pc, step) == [pc |-> pc, step |-> step, count |-> 0, next |-> 1, rows |-> {}]

NothingRead == [l \in Lists |-> Unread]
NothingKnown == [l \in Lists |-> [live |-> {}, gone |-> {}]]
NoTable == [slots |-> << >>, center |-> 0, section |-> Blank]

Init ==
  /\ exists \in SUBSET Files
  /\ files = [f \in Files |-> [count |-> 0, records |-> << >>]]
  /\ read = Reader("idle", 1)
  /\ lists = NothingRead
  /\ failed = {}
  /\ before = NothingKnown
  /\ table = NoTable
  /\ changes = 0

-----------------------------------------------------------------------------
(* Which rows a list is made of. *)

\* The file a list has for itself.  EMPFILE.DBF is looked for in two places.
Own(l) ==
  CASE l = "employees" -> "USERS"
    [] l = "statuses" -> "EMPFILE"
    [] l = "tenders" -> "NAMEPAY"
    [] OTHER -> "NAMECC"

\* Cost centers and tenders fall back to NAMES.DBF, the other lists do not.
Source(l) ==
  IF Own(l) \notin exists /\ l \in {"tenders", "costCenters"} THEN "NAMES" ELSE Own(l)

\* NAMES.DBF holds rows of every class; an order type needs a name.
Wanted(l, r) ==
  /\ Source(l) = "NAMES" => r.class = IF l = "tenders" THEN "PY" ELSE "CC"
  /\ l = "orderTypes" => r.named

Current == Order[read.step]
Content == files[Source(Current)].records

\* List l is done, or left out: the next one's turn, the tables come last.
Advance(l, rows) ==
  /\ lists' = [lists EXCEPT ![l] = rows]
  /\ read' = Reader(IF read.step = Len(Order) THEN "tables" ELSE "open", read.step + 1)

\* ReadEmployees fails: EMPFILE.DBF is not even tried.
NoEmployees ==
  /\ lists' = [lists EXCEPT !["employees"] = {}, !["statuses"] = {}]
  /\ failed' = failed \cup {"employees", "statuses"}
  /\ read' = Reader("open", 3)

\* List l cannot be read: the error is logged and the snapshot goes on with an
\* empty list.
CannotRead(l) ==
  IF l = "employees" THEN NoEmployees
  ELSE Advance(l, {}) /\ failed' = failed \cup {l}

-----------------------------------------------------------------------------
(* The reader. *)

\* SyncEntities is called.
Begin ==
  /\ read.pc = "idle"
  /\ read' = Reader("open", 1)
  /\ lists' = NothingRead
  /\ failed' = {}
  /\ before' = NothingKnown
  /\ table' = NoTable
  /\ UNCHANGED <<exists, files, changes>>

ReadHeader(f) ==
  read' = [read EXCEPT !.pc = "records", !.count = files[f].count,
                       !.next = 1, !.rows = {}]

\* Mutant: a file that cannot be opened leaves no list at all.
OpenOrSkip ==
  LET f == Source(Current)
  IN  /\ read.pc = "open"
      /\ \/ Advance(Current, Unread)
         \/ f \in exists /\ ReadHeader(f) /\ UNCHANGED lists
      /\ UNCHANGED <<exists, files, failed, before, table, changes>>

\* Open the list's file and read its header and its fields.  That fails if the
\* file is not there, and may fail although it is.
OpenFile ==
  LET l == Current
      f == Source(l)
      present(deleted) == {k \in 1..Len(files[f].records) :
                             files[f].records[k].deleted = deleted}
  IN  /\ read.pc = "open"
      /\ \/ CannotRead(l) /\ UNCHANGED before
         \/ /\ f \in exists
            /\ ReadHeader(f)
            /\ before' = [before EXCEPT ![l] =
                 [live |-> present(FALSE) \cap 1..files[f].count, gone |-> present(TRUE)]]
            /\ UNCHANGED <<lists, failed>>
      /\ UNCHANGED <<exists, files, table, changes>>

\* Mutant: the deletion flag is not looked at.
ReadAnyRecord ==
  /\ read.pc = "records"
  /\ read.next <= read.count /\ read.next <= Len(Content)
  /\ read' = [read EXCEPT !.next = @ + 1,
       !.rows = IF Wanted(Current, Content[read.next]) THEN @ \cup {read.next} ELSE @]
  /\ UNCHANGED <<exists, files, lists, failed, before, table, changes>>

\* Read one record, skipping it if it is deleted or not of this list.
ReadRecord ==
  LET r == Content[read.next]
  IN  /\ read.pc = "records"
      /\ read.next <= read.count /\ read.next <= Len(Content)
      /\ read' = [read EXCEPT !.next = @ + 1,
           !.rows = IF ~r.deleted /\ Wanted(Current, r) THEN @ \cup {read.next} ELSE @]
      /\ UNCHANGED <<exists, files, lists, failed, before, table, changes>>

\* All counted records are read, or the file ends before that.
EndOfRecords ==
  /\ read.pc = "records"
  /\ read.next > read.count \/ read.next > Len(Content)
  /\ Advance(Current, read.rows)
  /\ UNCHANGED <<exists, files, failed, before, table, changes>>

\* A counted record cannot be read, for another reason than the file's end: the
\* rows read so far are dropped.
ReadFails ==
  /\ read.pc = "records" /\ read.next <= read.count
  /\ CannotRead(Current)
  /\ UNCHANGED <<exists, files, before, table, changes>>

\* How many names are left of the first i slots when the blank ones are dropped.
Kept(slots, i) == Cardinality({j \in 1..i : slots[j] # Blank})

\* The slot of the n-th name that is left, if there are as many.
Place(slots, n) == {i \in DOMAIN slots : slots[i] # Blank /\ Kept(slots, i) = n}

NameAt(slots, place) == IF place = {} THEN Blank ELSE slots[CHOOSE i \in place : TRUE]

\* Mutant: the 1-based position is taken for a 0-based one.
SectionZeroBased(slots, center) == NameAt(slots, Place(slots, center + 1))

\* The name a table gets.
Section(slots, center) == NameAt(slots, Place(slots, center))

\* The tables of the export, whatever slots the venue has.
ParseTables ==
  /\ read.pc = "tables"
  /\ \E slots \in Slots, center \in 0..(MaxSlots + 1) :
       table' = [slots |-> slots, center |-> center, section |-> Section(slots, center)]
  /\ read' = [read EXCEPT !.pc = "idle"]
  /\ UNCHANGED <<exists, files, lists, failed, before, changes>>

-----------------------------------------------------------------------------
(* The POS. *)

Change(f, content) ==
  /\ changes < MaxChanges
  /\ changes' = changes + 1
  /\ files' = [files EXCEPT ![f] = content]
  /\ UNCHANGED <<exists, read, lists, failed, before, table>>

\* Append a record, before or after the header counts it.
PosAppend(f, r) ==
  /\ Len(files[f].records) <= files[f].count /\ ~r.deleted
  /\ f # "NAMES" => r.class = IF f = "NAMEPAY" THEN "PY" ELSE "CC"
  /\ f \in {"USERS", "EMPFILE", "NAMEPAY"} => r.named
  /\ Change(f, [files[f] EXCEPT !.records = Append(@, r)])

PosCount(f) ==
  /\ files[f].count <= Len(files[f].records)
  /\ Change(f, [files[f] EXCEPT !.count = @ + 1])

\* Flag a record as deleted.
PosDelete(f, k) ==
  /\ k \in DOMAIN files[f].records /\ ~files[f].records[k].deleted
  /\ Change(f, [files[f] EXCEPT !.records[k].deleted = TRUE])

Pos(f) ==
  \/ \E r \in Records : PosAppend(f, r)
  \/ PosCount(f)
  \/ \E k \in Positions : PosDelete(f, k)

Next ==
  \/ Begin \/ OpenFile \/ ReadRecord \/ EndOfRecords \/ ReadFails \/ ParseTables
  \/ \E f \in exists : Pos(f)

Spec == Init /\ [][Next]_vars

-----------------------------------------------------------------------------
(* Properties. *)

DeletedNow(f) == {k \in DOMAIN files[f].records : files[f].records[k].deleted}

\* "ReadFile opens and reads all active (non-deleted) records" (reader.go):
\* although the POS writes meanwhile, a list whose file could be read has every
\* wanted record that was complete when its header was read and was not deleted
\* since, and none that was deleted before; a list whose reading failed, at
\* whatever record, has no rows at all.
ListsAreExact ==
  \A l \in Lists : lists[l] # Unread =>
    IF l \in failed THEN lists[l] = {}
    ELSE /\ {k \in before[l].live : Wanted(l, files[Source(l)].records[k])}
              \ DeletedNow(Source(l)) \subseteq lists[l]
         /\ lists[l] \cap before[l].gone = {}

\* "In POSitouch, revenue centers (cost centers) double as order types"
\* (ordertypes.go): a snapshot whose cost centers could be read has no order
\* type without its cost center, but for one that was deleted since, because
\* SyncEntities reads the cost centers later.
OrderTypesAreCostCenters ==
  /\ "NAMECC" \in exists /\ lists["orderTypes"] # Unread
  /\ lists["costCenters"] # Unread /\ "costCenters" \notin failed
  => lists["orderTypes"] \ DeletedNow("NAMECC") \subseteq lists["costCenters"]

\* "POSitouch uses 1-based index for rev centers" (tables.go): a table has the
\* name at its position, as long as no slot up to it is blank, and no name if
\* there is no such slot.  The names after a blank slot are shifted.
SectionIsItsSlot ==
  LET c == table.center
  IN  /\ c \in DOMAIN table.slots /\ (\A i \in 1..c : table.slots[i] # Blank) =>
           table.section = table.slots[c]
      /\ c \notin DOMAIN table.slots => table.section = Blank
=============================================================================
