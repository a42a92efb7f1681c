--------------------------- MODULE ReadersProofs ---------------------------
(***************************************************************************)
(* What the lists of a snapshot are worth although nothing locks the files *)
(* they are read from.  The argument: files only grow and deletions are    *)
(* never taken back, so what was true of a record when the header was read *)
(* can only be undone by a deletion.  A read that fails leaves no rows.    *)
(***************************************************************************)
EXTENDS Readers, SequenceTheorems, FiniteSetTheorems, TLAPS

Rows(l) == files[Source(l)].records
Reading == read.pc \in {"open", "records"}

\* Lists are made in order: those still to come are not there, and nothing is
\* known of their files.
PhaseInv ==
  /\ Reading => read.step \in 1..5
  /\ Reading => \A j \in read.step..5 : lists[Order[j]] = Unread /\ Order[j] \notin failed
  /\ Reading => \A j \in read.step..5 : read.pc = "open" \/ j > read.step =>
                  before[Order[j]] = [live |-> {}, gone |-> {}]

\* What was seen of a file is still in it.
KnownInv ==
  \A l \in Lists : /\ before[l].live \subseteq 1..Len(Rows(l))
                   /\ before[l].gone \subseteq DeletedNow(Source(l))

\* While list l is read: of the records that were there, those behind the
\* reader are in the list unless they are unwanted or deleted.
PartOf(l) ==
  /\ read.count <= files[Source(l)].count
  /\ before[l].live \subseteq 1..read.count
  /\ read.rows \subseteq 1..read.count
  /\ read.rows \subseteq 1..Len(Rows(l))
  /\ read.rows \cap before[l].gone = {}
  /\ \A k \in before[l].live :
       k < read.next /\ Wanted(l, Rows(l)[k]) /\ k \notin DeletedNow(Source(l))
         => k \in read.rows

ReadingInv == read.pc = "records" => PartOf(Current)

\* Order types are counted records, so the reader of the cost centers sees all
\* that are not deleted by then.
OrderTypesInv ==
  "NAMECC" \in exists /\ lists["orderTypes"] # Unread =>
    /\ lists["orderTypes"] \subseteq 1..Len(files["NAMECC"].records)
    /\ lists["orderTypes"] \subseteq 1..files["NAMECC"].count
    /\ \/ lists["costCenters"] # Unread /\ "costCenters" \notin failed
       \/ read.pc = "records" /\ read.step = 5
       => lists["orderTypes"] \ DeletedNow("NAMECC") \subseteq before["costCenters"].live

IInv == /\ ListsTypeOK /\ PhaseInv /\ KnownInv /\ ReadingInv
        /\ ListsAreExact /\ OrderTypesInv

LEMMA InitIInv == Init => IInv
<1> SUFFICES ASSUME Init PROVE IInv
  OBVIOUS
<1> USE DEF Init, NothingRead, NothingKnown, Reader
<1>1. << >> \in Seq(Records) /\ Len(<< >>) = 0
  BY EmptySeq
<1>2. ListsTypeOK
  BY <1>1, BoundsAssumption DEF ListsTypeOK, Steps
<1>3. PhaseInv /\ KnownInv /\ ReadingInv /\ ListsAreExact /\ OrderTypesInv
  BY DEF PhaseInv, Reading, KnownInv, ReadingInv, ListsAreExact, OrderTypesInv, Lists
<1> QED BY <1>2, <1>3 DEF IInv

-----------------------------------------------------------------------------
(* The files. *)

LEMMA OrderIs ==
  /\ Len(Order) = 5
  /\ \A i \in 1..5 : Order[i] \in Lists
  /\ \A i, j \in 1..5 : Order[i] = Order[j] => i = j
  /\ Order[1] = "employees" /\ Order[2] = "statuses"
  /\ Order[3] = "orderTypes" /\ Order[5] = "costCenters"
BY DEF Order, Lists

LEMMA SourceIsFile == \A l \in Lists : Source(l) \in Files
BY DEF Lists, Source, Own, Files

LEMMA RecordsAre ==
  ASSUME ListsTypeOK, NEW f \in Files
  PROVE  /\ files[f].records \in Seq(Records) /\ files[f].count \in Nat
         /\ Len(files[f].records) \in Nat /\ Len(files[f].records) <= MaxChanges
         /\ 1..Len(files[f].records) \subseteq Positions
         /\ DOMAIN files[f].records = 1..Len(files[f].records)
         /\ \A k \in 1..Len(files[f].records) : files[f].records[k] \in Records
         /\ DeletedNow(f) = {k \in 1..Len(files[f].records) : files[f].records[k].deleted}
<1>1. files[f].records \in Seq(Records) /\ files[f].count \in Nat
  BY DEF ListsTypeOK
<1>2. /\ Len(files[f].records) \in Nat
      /\ DOMAIN files[f].records = 1..Len(files[f].records)
      /\ \A k \in 1..Len(files[f].records) : files[f].records[k] \in Records
  BY <1>1, LenProperties, ElementOfSeq
<1>3. Len(files[f].records) <= MaxChanges
  BY <1>2, BoundsAssumption DEF ListsTypeOK
<1> QED BY <1>1, <1>2, <1>3, BoundsAssumption DEF Positions, DeletedNow

\* Files grow: nothing of a record changes but its deletion flag, once.
Grown ==
  \A f \in Files :
    /\ files[f].count <= files'[f].count
    /\ Len(files[f].records) <= Len(files'[f].records)
    /\ \A k \in 1..Len(files[f].records) :
         /\ files'[f].records[k].class = files[f].records[k].class
         /\ files'[f].records[k].named = files[f].records[k].named
         /\ files[f].records[k].deleted => files'[f].records[k].deleted

\* A write to one file that extends it is a growth.
LEMMA ChangeGrows ==
  ASSUME ListsTypeOK, NEW f \in Files,
         NEW content \in [count : Nat, records : Seq(Records)], Change(f, content),
         files[f].count <= content.count,
         Len(files[f].records) <= Len(content.records),
         Len(content.records) <= Len(files[f].records) + 1,
         \A k \in 1..Len(files[f].records) :
           /\ content.records[k].class = files[f].records[k].class
           /\ content.records[k].named = files[f].records[k].named
           /\ files[f].records[k].deleted => content.records[k].deleted
  PROVE  Grown /\ ListsTypeOK'
<1>1. files' = [files EXCEPT ![f] = content] /\ files \in [Files -> [count : Nat, records : Seq(Records)]]
  BY DEF Change, ListsTypeOK
<1>2. \A g \in Files : files'[g] = IF g = f THEN content ELSE files[g]
  BY <1>1
<1>3. \A g \in Files : files[g].count \in Nat /\ Len(files[g].records) \in Nat
  BY RecordsAre
<1>4. Grown
  <2> SUFFICES ASSUME NEW g \in Files
               PROVE  /\ files[g].count <= files'[g].count
                      /\ Len(files[g].records) <= Len(files'[g].records)
                      /\ \A k \in 1..Len(files[g].records) :
                           /\ files'[g].records[k].class = files[g].records[k].class
                           /\ files'[g].records[k].named = files[g].records[k].named
                           /\ files[g].records[k].deleted => files'[g].records[k].deleted
    BY DEF Grown
  <2>1. CASE g = f
    <3>1. files'[g] = content
      BY <1>2, <2>1
    <3> QED BY <2>1, <3>1
  <2>2. CASE g # f
    <3>1. files'[g] = files[g]
      BY <1>2, <2>2
    <3> QED BY <1>3, <3>1
  <2> QED BY <2>1, <2>2
<1>5. Len(content.records) \in Nat
  BY LenProperties
<1>6. changes' = changes + 1 /\ changes \in Nat /\ changes' \in 0..MaxChanges
  BY BoundsAssumption DEF Change, ListsTypeOK
<1>7. \A g \in Files : Len(files'[g].records) <= changes'
  <2>1. \A g \in Files : Len(files[g].records) <= changes
    BY DEF ListsTypeOK
  <2> TAKE g \in Files
  <2>2. CASE g = f
    BY <1>2, <1>3, <1>5, <1>6, <2>1, <2>2
  <2>3. CASE g # f
    BY <1>2, <1>3, <1>6, <2>1, <2>3
  <2> QED BY <2>2, <2>3
<1>8. files' \in [Files -> [count : Nat, records : Seq(Records)]]
  BY <1>1
<1> QED BY <1>4, <1>6, <1>7, <1>8 DEF ListsTypeOK, Change

LEMMA PosGrows ==
  ASSUME ListsTypeOK, NEW f \in Files, Pos(f)
  PROVE  Grown /\ ListsTypeOK'
<1> DEFINE c == files[f]
           n == Len(c.records)
<1>0. /\ c \in [count : Nat, records : Seq(Records)] /\ n \in Nat
      /\ DOMAIN c.records = 1..n /\ \A k \in 1..n : c.records[k] \in Records
  BY RecordsAre DEF ListsTypeOK
<1>1. ASSUME NEW r \in Records, PosAppend(f, r) PROVE Grown /\ ListsTypeOK'
  <2> DEFINE d == [c EXCEPT !.records = Append(@, r)]
  <2>1. /\ Append(c.records, r) \in Seq(Records) /\ Len(Append(c.records, r)) = n + 1
        /\ \A k \in 1..n : Append(c.records, r)[k] = c.records[k]
    BY <1>0, AppendProperties
  <2>2. d \in [count : Nat, records : Seq(Records)] /\ d.count = c.count
        /\ d.records = Append(c.records, r)
    BY <1>0, <2>1
  <2>3. Change(f, d)
    BY <1>1 DEF PosAppend
  <2>4. /\ files[f].count <= d.count
        /\ Len(files[f].records) <= Len(d.records)
        /\ Len(d.records) <= Len(files[f].records) + 1
    BY <1>0, <2>1, <2>2
  <2>5. \A k \in 1..Len(files[f].records) : d.records[k] = files[f].records[k]
    BY <2>1, <2>2
  <2> HIDE DEF d
  <2> QED BY <2>2, <2>3, <2>4, <2>5, ChangeGrows
<1>2. CASE PosCount(f)
  <2> DEFINE d == [c EXCEPT !.count = @ + 1]
  <2>1. d \in [count : Nat, records : Seq(Records)] /\ d.count = c.count + 1
        /\ d.records = c.records
    BY <1>0
  <2>2. Change(f, d)
    BY <1>2 DEF PosCount
  <2>3. /\ files[f].count <= d.count
        /\ Len(files[f].records) <= Len(d.records)
        /\ Len(d.records) <= Len(files[f].records) + 1
    BY <1>0, <2>1
  <2> HIDE DEF d
  <2> QED BY <2>1, <2>2, <2>3, ChangeGrows
<1>3. ASSUME NEW k \in Positions, PosDelete(f, k) PROVE Grown /\ ListsTypeOK'
  <2> DEFINE gone == [c.records[k] EXCEPT !.deleted = TRUE]
             d == [c EXCEPT !.records[k].deleted = TRUE]
  <2>1. k \in 1..n /\ c.records[k] \in Records
    BY <1>0, <1>3 DEF PosDelete
  <2>2. /\ gone \in Records /\ gone.class = c.records[k].class
        /\ gone.named = c.records[k].named /\ gone.deleted
    BY <2>1 DEF Records
  <2>3. d.count = c.count /\ d.records = [c.records EXCEPT ![k] = gone]
        /\ d = [c EXCEPT !.records = [c.records EXCEPT ![k] = gone]]
    BY <1>0, <2>1
  <2> HIDE DEF gone
  <2>4. /\ d.records \in Seq(Records) /\ Len(d.records) = n
        /\ \A j \in 1..n : d.records[j] = IF j = k THEN gone ELSE c.records[j]
    <3>1. c.records \in Seq(Records)
      BY <1>0
    <3>2. /\ [c.records EXCEPT ![k] = gone] \in Seq(Records)
          /\ Len([c.records EXCEPT ![k] = gone]) = n
          /\ \A j \in 1..n : [c.records EXCEPT ![k] = gone][j] = IF j = k THEN gone ELSE c.records[j]
      BY <2>1, <2>2, <3>1, ExceptSeq
    <3> QED BY <2>3, <3>2
  <2>5. d \in [count : Nat, records : Seq(Records)]
    BY <1>0, <2>3, <2>4
  <2>6. Change(f, d)
    BY <1>3 DEF PosDelete
  <2> HIDE DEF d
  <2>7. \A j \in 1..n : /\ d.records[j].class = c.records[j].class
                        /\ d.records[j].named = c.records[j].named
                        /\ c.records[j].deleted => d.records[j].deleted
    BY <2>2, <2>4
  <2> QED BY <1>0, <2>3, <2>4, <2>5, <2>6, <2>7, ChangeGrows
<1> QED BY <1>1, <1>2, <1>3 DEF Pos

\* Whatever grows, what the invariant says of the lists stays true.
LEMMA GrownKeeps ==
  ASSUME IInv, Grown, ListsTypeOK', UNCHANGED <<exists, read, lists, failed, before>>
  PROVE  IInv'
<1> USE DEF IInv
<1>1. \A l \in Lists : /\ Source(l)' = Source(l) /\ Source(l) \in Files
                       /\ files[Source(l)].count \in Nat /\ files'[Source(l)].count \in Nat
                       /\ files[Source(l)].count <= files'[Source(l)].count
                       /\ Len(Rows(l)) \in Nat /\ Len(Rows(l))' \in Nat
                       /\ Len(Rows(l)) <= Len(Rows(l))'
  <2>1. \A f \in Files : /\ files[f].count \in Nat /\ files'[f].count \in Nat
                         /\ Len(files[f].records) \in Nat /\ Len(files'[f].records) \in Nat
    BY RecordsAre DEF ListsTypeOK
  <2>2. \A l \in Lists : Source(l)' = Source(l) /\ Source(l) \in Files
    BY SourceIsFile DEF Source
  <2> QED BY <2>1, <2>2 DEF Grown, Rows
<1>2. \A l \in Lists : \A k \in 1..Len(Rows(l)) :
        Wanted(l, Rows(l)[k])' = Wanted(l, Rows(l)[k])
  BY <1>1 DEF Grown, Rows, Wanted
<1>3. \A f \in Files : DeletedNow(f) \subseteq DeletedNow(f)'
  <2>1. \A f \in Files :
          /\ DeletedNow(f) = {k \in 1..Len(files[f].records) : files[f].records[k].deleted}
          /\ DeletedNow(f)' = {k \in 1..Len(files'[f].records) : files'[f].records[k].deleted}
          /\ Len(files[f].records) \in Nat /\ Len(files'[f].records) \in Nat
    <3>1. ASSUME NEW f \in Files
          PROVE  /\ Len(files'[f].records) \in Nat
                 /\ DOMAIN files'[f].records = 1..Len(files'[f].records)
      BY LenProperties DEF ListsTypeOK
    <3> QED BY <3>1, RecordsAre DEF DeletedNow
  <2> QED BY <2>1 DEF Grown
<1>4. PhaseInv'
  BY DEF PhaseInv, Reading
<1>5. KnownInv'
  BY <1>1, <1>3 DEF KnownInv
<1>6. ReadingInv'
  <2> SUFFICES ASSUME read.pc = "records" PROVE PartOf(Current)'
    BY DEF ReadingInv
  <2>1. Current \in Lists /\ Current' = Current
    BY OrderIs DEF PhaseInv, Reading, Current
  <2>2. PartOf(Current) /\ before[Current].live \subseteq 1..Len(Rows(Current))
    BY <2>1 DEF ReadingInv, KnownInv
  <2>3. read.count \in Nat
    BY DEF ListsTypeOK
  <2>4. /\ read.count' <= files'[Source(Current)].count
        /\ read.rows \subseteq 1..Len(Rows(Current))'
    BY <1>1, <2>1, <2>2, <2>3 DEF PartOf
  <2>5. \A k \in before[Current].live :
          k < read.next /\ Wanted(Current, Rows(Current)[k])' /\ k \notin DeletedNow(Source(Current))'
            => k \in read.rows
    BY <1>1, <1>2, <1>3, <2>1, <2>2 DEF PartOf
  <2> QED BY <1>1, <2>1, <2>2, <2>4, <2>5 DEF PartOf
<1>7. ListsAreExact'
  <2> SUFFICES ASSUME NEW l \in Lists, lists[l] # Unread, l \notin failed
               PROVE  /\ {k \in before[l].live : Wanted(l, Rows(l)[k])'} \ DeletedNow(Source(l))'
                            \subseteq lists[l]
                      /\ lists[l] \cap before[l].gone = {}
    BY <1>1 DEF ListsAreExact, Rows
  <2>1. before[l].live \subseteq 1..Len(Rows(l))
    BY DEF KnownInv
  <2>2. /\ {k \in before[l].live : Wanted(l, Rows(l)[k])} \ DeletedNow(Source(l)) \subseteq lists[l]
        /\ lists[l] \cap before[l].gone = {}
    BY DEF ListsAreExact, Rows
  <2> QED BY <1>1, <1>2, <1>3, <2>1, <2>2
<1>8. OrderTypesInv'
  <2> SUFFICES ASSUME "NAMECC" \in exists, lists["orderTypes"] # Unread
               PROVE  OrderTypesInv'
    BY DEF OrderTypesInv
  <2>1. /\ Source("orderTypes") = "NAMECC" /\ "orderTypes" \in Lists /\ "NAMECC" \in Files
    BY DEF Source, Own, Lists, Files
  <2>2. /\ Len(files["NAMECC"].records) <= Len(files'["NAMECC"].records)
        /\ files["NAMECC"].count <= files'["NAMECC"].count
        /\ Len(files["NAMECC"].records) \in Nat /\ Len(files'["NAMECC"].records) \in Nat
        /\ files["NAMECC"].count \in Nat /\ files'["NAMECC"].count \in Nat
    BY <1>1, <2>1 DEF Rows
  <2>3. DeletedNow("NAMECC") \subseteq DeletedNow("NAMECC")'
    BY <1>3, <2>1
  <2> QED BY <2>2, <2>3 DEF OrderTypesInv
<1> QED BY <1>4, <1>5, <1>6, <1>7, <1>8

-----------------------------------------------------------------------------
(* The reader. *)

LEMMA BeginStep == ASSUME IInv, Begin PROVE IInv'
<1> USE DEF IInv, Begin, NothingRead, NothingKnown, Reader
<1>1. ListsTypeOK'
  <2>1. /\ read' \in [pc : {"idle", "open", "records", "tables"}, step : Steps,
                     count : Nat, next : Nat \ {0}, rows : SUBSET Positions]
        /\ read'.step = 1
    <3>1. 1 \in Steps
      BY DEF Steps
    <3> QED BY <3>1
  <2>2. /\ lists' \in [Lists -> {Unread} \cup SUBSET Positions]
        /\ before' \in [Lists -> [live : SUBSET Positions, gone : SUBSET Positions]]
    <3>1. [live |-> {}, gone |-> {}] \in [live : SUBSET Positions, gone : SUBSET Positions]
      OBVIOUS
    <3>2. lists' = [l \in Lists |-> Unread] /\ before' = [l \in Lists |-> [live |-> {}, gone |-> {}]]
      OBVIOUS
    <3> QED BY <3>1, <3>2
  <2>3. 1..(read'.step - 1) = {}
    BY <2>1
  <2> QED BY <2>1, <2>2, <2>3 DEF ListsTypeOK
<1>2. PhaseInv'
  BY OrderIs DEF PhaseInv, Reading
<1>3. KnownInv' /\ ReadingInv' /\ ListsAreExact' /\ OrderTypesInv'
  BY DEF KnownInv, ReadingInv, ListsAreExact, OrderTypesInv, Lists
<1> QED BY <1>1, <1>2, <1>3

\* The list whose turn it is, as the invariant has it.
LEMMA CurrentIs ==
  ASSUME IInv, Reading
  PROVE  /\ read.step \in 1..5 /\ Current = Order[read.step] /\ Current \in Lists
         /\ Source(Current) \in Files /\ lists[Current] = Unread /\ Current \notin failed
         /\ Current = "employees" => read.step = 1
         /\ Current = "costCenters" <=> read.step = 5
         /\ \A j \in (read.step + 1)..5 :
              /\ Order[j] # Current /\ Order[j] \in Lists
              /\ lists[Order[j]] = Unread /\ Order[j] \notin failed
              /\ before[Order[j]] = [live |-> {}, gone |-> {}]
         /\ read.pc = "open" => before[Current] = [live |-> {}, gone |-> {}]
<1>1. read.step \in 1..5 /\ Current = Order[read.step]
  BY DEF IInv, PhaseInv, Current
<1>2. Current \in Lists /\ Source(Current) \in Files
  BY <1>1, OrderIs, SourceIsFile
<1>3. lists[Current] = Unread /\ Current \notin failed /\ (read.pc = "open" => before[Current] = [live |-> {}, gone |-> {}])
  BY <1>1 DEF IInv, PhaseInv
<1>4. \A j \in (read.step + 1)..5 :
        /\ j \in read.step..5 /\ j > read.step /\ j \in 1..5 /\ j # read.step
  BY <1>1
<1>5. \A j \in (read.step + 1)..5 :
        /\ Order[j] # Current /\ Order[j] \in Lists
        /\ lists[Order[j]] = Unread /\ Order[j] \notin failed
        /\ before[Order[j]] = [live |-> {}, gone |-> {}]
  BY <1>1, <1>4, OrderIs DEF IInv, PhaseInv
<1>6. /\ Current = "employees" => read.step = 1
      /\ Current = "costCenters" <=> read.step = 5
  BY <1>1, OrderIs
<1> QED BY <1>1, <1>2, <1>3, <1>5, <1>6

\* A list is done with the rows it should have, or could not be read.
LEMMA AdvanceStep ==
  ASSUME IInv, Reading, NEW rows \in SUBSET Positions, Advance(Current, rows),
         UNCHANGED <<exists, files, before, changes>>,
         \/ failed' = failed \cup {Current} /\ rows = {}
         \/ /\ failed' = failed
            /\ \A k \in before[Current].live :
                 Wanted(Current, Rows(Current)[k]) /\ k \notin DeletedNow(Source(Current))
                   => k \in rows
            /\ rows \cap before[Current].gone = {}
            /\ Current = "costCenters" /\ "NAMECC" \in exists /\ lists["orderTypes"] # Unread =>
                 lists["orderTypes"] \ DeletedNow("NAMECC") \subseteq before["costCenters"].live,
         Current = "orderTypes" /\ "NAMECC" \in exists =>
           /\ rows \subseteq 1..Len(files["NAMECC"].records)
           /\ rows \subseteq 1..files["NAMECC"].count
  PROVE  IInv'
<1>0. /\ lists' = [lists EXCEPT ![Current] = rows]
      /\ read' = Reader(IF read.step = Len(Order) THEN "tables" ELSE "open", read.step + 1)
  BY DEF Advance
<1>1. rows # Unread
  BY UnreadAssumption DEF Positions
<1>2. /\ read'.pc = IF read.step = 5 THEN "tables" ELSE "open"
      /\ read'.step = read.step + 1 /\ read.step \in 1..5
      /\ read' \in [pc : {"idle", "open", "records", "tables"}, step : Steps,
                    count : Nat, next : Nat \ {0}, rows : SUBSET Positions]
  <2>1. read.step \in 1..5 /\ Len(Order) = 5
    BY CurrentIs, OrderIs
  <2>3. read.step + 1 \in Steps
    BY <2>1 DEF Steps
  <2> QED BY <1>0, <2>1, <2>3 DEF Reader
<1>3. /\ lists' \in [Lists -> {Unread} \cup SUBSET Positions]
      /\ \A l \in Lists : lists'[l] = IF l = Current THEN rows ELSE lists[l]
  BY <1>0, CurrentIs DEF IInv, ListsTypeOK
<1>4. ListsTypeOK'
  <2>1. \A i \in 1..(read'.step - 1) : lists'[Order[i]] # Unread
    <3> TAKE i \in 1..(read'.step - 1)
    <3>1. i \in 1..5 /\ (i \in 1..(read.step - 1) \/ i = read.step)
      BY <1>2
    <3>2. CASE i = read.step
      BY <1>1, <1>3, <3>2, CurrentIs
    <3>3. CASE i \in 1..(read.step - 1)
      BY <1>1, <1>3, <3>1, <3>3, OrderIs DEF IInv, ListsTypeOK
    <3> QED BY <3>1, <3>2, <3>3
  <2>2. failed' \subseteq Lists
    BY CurrentIs DEF IInv, ListsTypeOK
  <2> QED BY <1>2, <1>3, <2>1, <2>2 DEF IInv, ListsTypeOK
<1>5. PhaseInv'
  <2>1. Reading' => read'.pc = "open" /\ read'.step \in 1..5
    BY <1>2 DEF Reading
  <2>2. \A j \in read'.step..5 : /\ lists'[Order[j]] = Unread
                                /\ Order[j] \notin failed'
                                /\ before'[Order[j]] = [live |-> {}, gone |-> {}]
    BY <1>2, <1>3, CurrentIs
  <2> QED BY <2>1, <2>2 DEF PhaseInv
<1>6. KnownInv' /\ ReadingInv'
  <2>1. KnownInv'
    BY DEF IInv, KnownInv, Rows, Source, DeletedNow
  <2>2. ReadingInv'
    BY <1>2 DEF ReadingInv
  <2> QED BY <2>1, <2>2
<1>7. ListsAreExact'
  <2> SUFFICES ASSUME NEW l \in Lists, lists'[l] # Unread
      PROVE  IF l \in failed' THEN lists'[l] = {}
             ELSE /\ {k \in before[l].live : Wanted(l, Rows(l)[k])} \ DeletedNow(Source(l))
                       \subseteq lists'[l]
                  /\ lists'[l] \cap before[l].gone = {}
    BY DEF ListsAreExact, Rows, Source, DeletedNow, Wanted
  <2>1. CASE l = Current
    BY <1>3, <2>1, CurrentIs
  <2>2. CASE l # Current
    BY <1>3, <2>2 DEF IInv, ListsAreExact, Rows
  <2> QED BY <2>1, <2>2
<1>8. OrderTypesInv'
  <2> SUFFICES ASSUME "NAMECC" \in exists, lists'["orderTypes"] # Unread
      PROVE  /\ lists'["orderTypes"] \subseteq 1..Len(files["NAMECC"].records)
             /\ lists'["orderTypes"] \subseteq 1..files["NAMECC"].count
             /\ lists'["costCenters"] # Unread /\ "costCenters" \notin failed' =>
                  lists'["orderTypes"] \ DeletedNow("NAMECC") \subseteq before["costCenters"].live
    BY <1>2 DEF OrderTypesInv, DeletedNow
  <2>0. "orderTypes" \in Lists /\ "costCenters" \in Lists
    BY DEF Lists
  <2>1. CASE Current = "orderTypes"
    <3>1. lists'["orderTypes"] = rows /\ lists'["costCenters"] = lists["costCenters"]
      BY <1>3, <2>0, <2>1
    <3>2. lists["costCenters"] = Unread
      <4>1. read.step # 5
        BY <2>1, CurrentIs
      <4>2. 5 \in (read.step + 1)..5
        BY <1>2, <4>1
      <4> QED BY <4>2, CurrentIs, OrderIs
    <3> QED BY <2>1, <3>1, <3>2
  <2>2. CASE Current # "orderTypes"
    <3>1. lists'["orderTypes"] = lists["orderTypes"]
      BY <1>3, <2>0, <2>2
    <3>2. lists'["costCenters"] # Unread /\ "costCenters" \notin failed' =>
            \/ Current = "costCenters" /\ failed' = failed
            \/ lists["costCenters"] # Unread /\ "costCenters" \notin failed
      BY <1>3, <2>0
    <3> QED BY <3>1, <3>2 DEF IInv, OrderTypesInv
  <2> QED BY <2>1, <2>2
<1> QED BY <1>4, <1>5, <1>6, <1>7, <1>8 DEF IInv

\* A list that cannot be read is empty, and an error of the employees' reader
\* leaves their statuses out too.
LEMMA CannotReadStep ==
  ASSUME IInv, Reading, CannotRead(Current), UNCHANGED <<exists, files, before, changes>>
  PROVE  IInv'
<1>1. CASE Current # "employees"
  <2>1. Advance(Current, {}) /\ failed' = failed \cup {Current}
    BY <1>1 DEF CannotRead
  <2> HIDE DEF Advance
  <2> QED BY <2>1, AdvanceStep
<1>2. CASE Current = "employees"
  <2>1. /\ read.step = 1 /\ read' = Reader("open", 3)
        /\ failed' = failed \cup {"employees", "statuses"}
        /\ lists' = [lists EXCEPT !["employees"] = {}, !["statuses"] = {}]
    BY <1>2, CurrentIs DEF CannotRead, NoEmployees
  <2>2. /\ read'.step = 3 /\ read'.pc = "open"
        /\ read' \in [pc : {"idle", "open", "records", "tables"}, step : Steps,
                      count : Nat, next : Nat \ {0}, rows : SUBSET Positions]
    <3>1. 3 \in Steps
      BY DEF Steps
    <3> QED BY <2>1, <3>1 DEF Reader
  <2>3. /\ lists' \in [Lists -> {Unread} \cup SUBSET Positions]
        /\ \A l \in Lists : lists'[l] = IF l \in {"employees", "statuses"} THEN {} ELSE lists[l]
    BY <2>1 DEF IInv, ListsTypeOK, Lists
  <2>4. {} # Unread
    BY UnreadAssumption
  <2>5. \A j \in 1..5 : /\ lists[Order[j]] = Unread /\ Order[j] \in Lists
                        /\ Order[j] \notin failed
                        /\ j > 1 => before[Order[j]] = [live |-> {}, gone |-> {}]
    BY <2>1, OrderIs DEF IInv, PhaseInv
  <2>6. ListsTypeOK'
    <3>1. \A i \in 1..(read'.step - 1) : i = 1 \/ i = 2
      BY <2>2
    <3>2. lists'[Order[1]] # Unread /\ lists'[Order[2]] # Unread
      BY <2>3, <2>4, <2>5, OrderIs
    <3>3. failed' \subseteq Lists
      BY <2>1 DEF IInv, ListsTypeOK, Lists
    <3> QED BY <2>2, <2>3, <3>1, <3>2, <3>3 DEF IInv, ListsTypeOK
  <2>7. PhaseInv'
    <3>1. \A j \in 3..5 : j \in 1..5 /\ Order[j] \notin {"employees", "statuses"}
      BY OrderIs
    <3> QED BY <2>1, <2>2, <2>3, <2>5, <3>1 DEF PhaseInv
  <2>8. KnownInv' /\ ReadingInv'
    <3>1. KnownInv'
      BY DEF IInv, KnownInv, Rows, Source, DeletedNow
    <3> QED BY <2>2, <3>1 DEF ReadingInv
  <2>10. ListsAreExact'
    <3> SUFFICES ASSUME NEW l \in Lists, lists'[l] # Unread
        PROVE  IF l \in failed' THEN lists'[l] = {}
               ELSE /\ {k \in before[l].live : Wanted(l, Rows(l)[k])} \ DeletedNow(Source(l))
                         \subseteq lists'[l]
                    /\ lists'[l] \cap before[l].gone = {}
      BY DEF ListsAreExact, Rows, Source, DeletedNow, Wanted
    <3>1. CASE l \in {"employees", "statuses"}
      BY <2>1, <2>3, <3>1
    <3>2. CASE l \notin {"employees", "statuses"}
      BY <2>1, <2>3, <3>2 DEF IInv, ListsAreExact, Rows
    <3> QED BY <3>1, <3>2
  <2>11. OrderTypesInv'
    <3>1. lists'["orderTypes"] = Unread
      BY <2>3, <2>5, OrderIs
    <3> QED BY <3>1 DEF OrderTypesInv
  <2> QED BY <2>6, <2>7, <2>8, <2>10, <2>11 DEF IInv
<1> QED BY <1>1, <1>2

\* The header is read: what is there now is remembered.
LEMMA HeaderStep ==
  ASSUME IInv, OpenFile, ~(CannotRead(Current) /\ UNCHANGED before)
  PROVE  IInv'
<1> DEFINE l == Current
           f == Source(l)
           n == Len(files[f].records)
           live == {k \in 1..n : ~files[f].records[k].deleted} \cap 1..files[f].count
           gone == DeletedNow(f)
<1>1. /\ read.pc = "open" /\ Reading /\ UNCHANGED <<exists, files, lists, failed, changes>>
      /\ read' = [read EXCEPT !.pc = "records", !.count = files[f].count,
                              !.next = 1, !.rows = {}]
  BY DEF OpenFile, ReadHeader, Reading
<1>2. /\ l \in Lists /\ f \in Files /\ read.step \in 1..5 /\ l = Order[read.step]
      /\ lists[l] = Unread
  BY <1>1, CurrentIs
<1>3. /\ n \in Nat /\ files[f].count \in Nat /\ 1..n \subseteq Positions
      /\ gone = {k \in 1..n : files[f].records[k].deleted}
      /\ \A k \in 1..n : files[f].records[k].deleted \in BOOLEAN
  BY <1>2, RecordsAre DEF IInv, Records
<1>4. before' = [before EXCEPT ![l] = [live |-> live, gone |-> gone]]
  <2>1. {k \in 1..n : files[f].records[k].deleted = FALSE} = {k \in 1..n : ~files[f].records[k].deleted}
    BY <1>3
  <2>2. {k \in 1..n : files[f].records[k].deleted = TRUE} = gone
    BY <1>3
  <2> QED BY <2>1, <2>2 DEF OpenFile
<1>5. live \subseteq 1..n /\ live \subseteq 1..files[f].count /\ gone \subseteq 1..n
  BY <1>3
<1> HIDE DEF live, gone
<1>6. /\ before' \in [Lists -> [live : SUBSET Positions, gone : SUBSET Positions]]
      /\ \A m \in Lists : before'[m] = IF m = l THEN [live |-> live, gone |-> gone] ELSE before[m]
  BY <1>2, <1>3, <1>4, <1>5 DEF IInv, ListsTypeOK
<1>7. /\ read' \in [pc : {"idle", "open", "records", "tables"}, step : Steps,
                    count : Nat, next : Nat \ {0}, rows : SUBSET Positions]
      /\ read'.pc = "records" /\ read'.step = read.step /\ read'.next = 1 /\ read'.rows = {}
      /\ read'.count = files[f].count
  <2>1. read \in [pc : {"idle", "open", "records", "tables"}, step : Steps,
                 count : Nat, next : Nat \ {0}, rows : SUBSET Positions]
    BY DEF IInv, ListsTypeOK
  <2> DEFINE c == files[f].count
  <2>2. c \in Nat /\ 1 \in Nat \ {0} /\ {} \in SUBSET Positions
    BY <1>3
  <2>3. read' = [read EXCEPT !.pc = "records", !.count = c, !.next = 1, !.rows = {}]
    BY <1>1
  <2> HIDE DEF c
  <2>4. /\ read' \in [pc : {"idle", "open", "records", "tables"}, step : Steps,
                      count : Nat, next : Nat \ {0}, rows : SUBSET Positions]
        /\ read'.pc = "records" /\ read'.step = read.step /\ read'.next = 1 /\ read'.rows = {}
        /\ read'.count = c
    BY <2>1, <2>2, <2>3
  <2> QED BY <2>4 DEF c
<1>8. ListsTypeOK'
  BY <1>1, <1>6, <1>7 DEF IInv, ListsTypeOK
<1>9. PhaseInv'
  <2>1. \A j \in read.step..5 : j > read.step => j \in (read.step + 1)..5
    BY <1>2
  <2>2. \A j \in (read.step + 1)..5 : before'[Order[j]] = [live |-> {}, gone |-> {}]
    BY <1>1, <1>6, CurrentIs
  <2>3. \A j \in read.step..5 : lists'[Order[j]] = Unread /\ Order[j] \notin failed'
    BY <1>1 DEF IInv, PhaseInv
  <2> QED BY <1>2, <1>7, <2>1, <2>2, <2>3 DEF PhaseInv
<1>10. KnownInv'
  <2> SUFFICES ASSUME NEW m \in Lists
               PROVE  /\ before'[m].live \subseteq 1..Len(Rows(m))
                      /\ before'[m].gone \subseteq DeletedNow(Source(m))
    BY <1>1 DEF KnownInv, Rows, Source, DeletedNow
  <2>1. CASE m = l
    <3>1. before'[m].live = live /\ before'[m].gone = gone
      BY <1>6, <2>1
    <3>2. Len(Rows(m)) = n /\ DeletedNow(Source(m)) = gone
      BY <2>1 DEF Rows, gone
    <3> QED BY <1>5, <3>1, <3>2
  <2>2. CASE m # l
    BY <1>6, <2>2 DEF IInv, KnownInv
  <2> QED BY <2>1, <2>2
<1>11. ReadingInv'
  <2>1. Current' = l /\ Source(l)' = f
    BY <1>1, <1>7 DEF Current, Source
  <2>2. \A k \in live : ~(k < 1)
    BY <1>5
  <2>3. before'[l].live = live /\ before'[l].gone = gone
    BY <1>2, <1>6
  <2>4. /\ read'.count <= files'[f].count
        /\ before'[l].live \subseteq 1..read'.count
        /\ read'.rows = {} /\ read'.next = 1
    BY <1>1, <1>3, <1>5, <1>7, <2>3
  <2>5. PartOf(Current)'
    BY <2>1, <2>2, <2>3, <2>4 DEF PartOf
  <2> QED BY <2>5 DEF ReadingInv
<1>12. ListsAreExact'
  <2> SUFFICES ASSUME NEW m \in Lists, lists[m] # Unread, m \notin failed
               PROVE  /\ {k \in before'[m].live : Wanted(m, Rows(m)[k])} \ DeletedNow(Source(m))
                            \subseteq lists[m]
                      /\ lists[m] \cap before'[m].gone = {}
    <3>1. \A m \in failed : m \in Lists /\ lists[m] # Unread => lists[m] = {}
      BY DEF IInv, ListsAreExact
    <3> QED BY <1>1, <3>1 DEF ListsAreExact, Rows, Source, DeletedNow, Wanted
  <2> QED BY <1>2, <1>6 DEF IInv, ListsAreExact, Rows
<1>13. OrderTypesInv'
  <2> SUFFICES ASSUME "NAMECC" \in exists, lists["orderTypes"] # Unread
      PROVE  /\ lists["orderTypes"] \subseteq 1..Len(files["NAMECC"].records)
             /\ lists["orderTypes"] \subseteq 1..files["NAMECC"].count
             /\ (lists["costCenters"] # Unread /\ "costCenters" \notin failed) \/ read.step = 5 =>
                  lists["orderTypes"] \ DeletedNow("NAMECC") \subseteq before'["costCenters"].live
    BY <1>1, <1>7 DEF OrderTypesInv, DeletedNow
  <2>1. /\ lists["orderTypes"] \subseteq 1..Len(files["NAMECC"].records)
        /\ lists["orderTypes"] \subseteq 1..files["NAMECC"].count
        /\ lists["costCenters"] # Unread /\ "costCenters" \notin failed =>
             lists["orderTypes"] \ DeletedNow("NAMECC") \subseteq before["costCenters"].live
    BY DEF IInv, OrderTypesInv
  <2>2. CASE read.step = 5
    <3>1. l = "costCenters" /\ f = "NAMECC"
      BY <1>1, <2>2, CurrentIs DEF Source, Own
    <3>2. lists["orderTypes"] \ DeletedNow("NAMECC") \subseteq live
      BY <1>3, <2>1, <3>1 DEF live, gone
    <3> QED BY <1>2, <1>6, <2>1, <3>1, <3>2
  <2>3. CASE read.step # 5
    <3>1. l # "costCenters" /\ "costCenters" \in Lists
      BY <1>1, <2>3, CurrentIs DEF Lists
    <3> QED BY <1>6, <2>1, <2>3, <3>1
  <2> QED BY <2>2, <2>3
<1> QED BY <1>8, <1>9, <1>10, <1>11, <1>12, <1>13 DEF IInv

\* One record behind another: it is taken if it is wanted and not deleted.
LEMMA ReadRecordStep == ASSUME IInv, ReadRecord PROVE IInv'
<1> DEFINE l == Current
           f == Source(l)
           n == Len(files[f].records)
           k0 == read.next
           r == files[f].records[k0]
           rows == IF ~r.deleted /\ Wanted(l, r) THEN read.rows \cup {k0} ELSE read.rows
<1>1. /\ read.pc = "records" /\ Reading
      /\ UNCHANGED <<exists, files, lists, failed, before, changes>>
      /\ k0 <= read.count /\ k0 <= n
      /\ read' = [read EXCEPT !.next = @ + 1, !.rows = rows]
  BY DEF ReadRecord, Reading, Content
<1>2. l \in Lists /\ f \in Files
  BY <1>1, CurrentIs
<1>3. /\ n \in Nat /\ 1..n \subseteq Positions
      /\ DeletedNow(f) = {k \in 1..n : files[f].records[k].deleted}
  BY <1>2, RecordsAre DEF IInv
<1>4. read \in [pc : {"idle", "open", "records", "tables"}, step : Steps,
               count : Nat, next : Nat \ {0}, rows : SUBSET Positions]
  BY DEF IInv, ListsTypeOK
<1>5. k0 \in 1..n /\ k0 \in 1..read.count /\ k0 \in Nat
  BY <1>1, <1>3, <1>4
<1>6. rows \in SUBSET Positions
  BY <1>3, <1>4, <1>5
<1>7. PartOf(l) /\ before[l].gone \subseteq DeletedNow(f)
  BY <1>1, <1>2 DEF IInv, ReadingInv, KnownInv
<1>8. /\ read.rows \subseteq 1..read.count /\ read.rows \subseteq 1..n
      /\ read.rows \cap before[l].gone = {}
      /\ before[l].live \subseteq 1..read.count
      /\ \A k \in before[l].live :
           k < k0 /\ Wanted(l, files[f].records[k]) /\ k \notin DeletedNow(f) => k \in read.rows
  BY <1>7 DEF PartOf, Rows
<1>9. ~r.deleted => k0 \notin before[l].gone
  BY <1>3, <1>5, <1>7
<1>a. /\ rows \subseteq 1..read.count /\ rows \subseteq 1..n
      /\ rows \cap before[l].gone = {}
  BY <1>5, <1>8, <1>9
<1>b. \A k \in before[l].live :
        k < k0 + 1 /\ Wanted(l, files[f].records[k]) /\ k \notin DeletedNow(f) => k \in rows
  <2> SUFFICES ASSUME NEW k \in before[l].live, k < k0 + 1,
                      Wanted(l, files[f].records[k]), k \notin DeletedNow(f)
               PROVE  k \in rows
    OBVIOUS
  <2>1. k \in Nat
    BY <1>4, <1>8
  <2>2. CASE k = k0
    <3>1. k0 \notin {j \in 1..n : files[f].records[j].deleted}
      BY <1>3, <2>2
    <3>2. ~r.deleted
      BY <1>5, <3>1
    <3>3. Wanted(l, r)
      BY <2>2
    <3> QED BY <2>2, <3>2, <3>3
  <2>3. CASE k # k0
    <3>1. k < k0
      BY <1>5, <2>1, <2>3
    <3> QED BY <1>8, <3>1
  <2> QED BY <2>2, <2>3
<1> HIDE DEF rows
<1>10. /\ read' \in [pc : {"idle", "open", "records", "tables"}, step : Steps,
                     count : Nat, next : Nat \ {0}, rows : SUBSET Positions]
       /\ read'.pc = "records" /\ read'.step = read.step /\ read'.count = read.count
       /\ read'.next = k0 + 1 /\ read'.rows = rows
  <2> DEFINE k1 == k0 + 1
  <2>1. k1 \in Nat \ {0}
    BY <1>5
  <2>2. read' = [read EXCEPT !.next = k1, !.rows = rows]
    BY <1>1
  <2> HIDE DEF k1
  <2>3. /\ read' \in [pc : {"idle", "open", "records", "tables"}, step : Steps,
                       count : Nat, next : Nat \ {0}, rows : SUBSET Positions]
        /\ read'.pc = "records" /\ read'.step = read.step /\ read'.count = read.count
        /\ read'.next = k1 /\ read'.rows = rows
    BY <1>1, <1>4, <1>6, <2>1, <2>2
  <2> QED BY <2>3 DEF k1
<1>11. ListsTypeOK'
  BY <1>1, <1>10 DEF IInv, ListsTypeOK
<1>12. PhaseInv'
  BY <1>1, <1>10 DEF IInv, PhaseInv, Reading
<1>13. KnownInv'
  BY <1>1 DEF IInv, KnownInv, Rows, Source, DeletedNow
<1>14. ReadingInv'
  <2>1. Current' = Current
    BY <1>10 DEF Current
  <2> SUFFICES ASSUME NEW m \in Lists, m = l
               PROVE  PartOf(m)'
    BY <1>2, <2>1 DEF ReadingInv
  <2>2. /\ Source(m) = f /\ Source(m)' = Source(m)
        /\ Rows(m)' = Rows(m) /\ DeletedNow(Source(m))' = DeletedNow(Source(m))
    BY <1>1 DEF Source, Rows, DeletedNow
  <2>3. \A k : Wanted(m, Rows(m)[k])' <=> Wanted(m, Rows(m)[k])
    BY <1>1 DEF Wanted, Source, Rows
  <2>4. \A k \in before'[m].live :
          k < read'.next /\ Wanted(m, Rows(m)[k])' /\ k \notin DeletedNow(Source(m))'
            => k \in read'.rows
    BY <1>1, <1>b, <1>10, <2>2, <2>3 DEF Rows, DeletedNow
  <2>5. /\ read'.count <= files'[Source(m)'].count
        /\ before'[m].live \subseteq 1..read'.count
        /\ read'.rows \subseteq 1..read'.count
        /\ read'.rows \subseteq 1..Len(Rows(m)')
        /\ read'.rows \cap before'[m].gone = {}
    BY <1>1, <1>7, <1>8, <1>a, <1>10, <2>2 DEF PartOf, Rows
  <2> QED BY <2>4, <2>5 DEF PartOf
<1>15. ListsAreExact'
  BY <1>1 DEF IInv, ListsAreExact, Wanted, Source, DeletedNow
<1>16. OrderTypesInv'
  BY <1>1, <1>10 DEF IInv, OrderTypesInv, DeletedNow
<1> QED BY <1>11, <1>12, <1>13, <1>14, <1>15, <1>16 DEF IInv

\* At the end the reader is behind every record it was to read.
LEMMA EndOfRecordsStep == ASSUME IInv, EndOfRecords PROVE IInv'
<1> DEFINE l == Current
           f == Source(l)
           n == Len(files[f].records)
<1>1. /\ read.pc = "records" /\ Reading
      /\ UNCHANGED <<exists, files, failed, before, changes>>
      /\ read.next > read.count \/ read.next > n
      /\ Advance(l, read.rows)
  BY DEF EndOfRecords, Reading, Content
<1>2. l \in Lists /\ f \in Files /\ (l = "costCenters" <=> read.step = 5)
  BY <1>1, CurrentIs
<1>3. n \in Nat /\ files[f].count \in Nat
  BY <1>2, RecordsAre DEF IInv
<1>4. read.count \in Nat /\ read.next \in Nat /\ read.rows \in SUBSET Positions
  BY DEF IInv, ListsTypeOK
<1>5. PartOf(l) /\ before[l].live \subseteq 1..n
  BY <1>1, <1>2 DEF IInv, ReadingInv, KnownInv, Rows
<1>6. \A k \in before[l].live : k < read.next
  BY <1>1, <1>3, <1>4, <1>5 DEF PartOf
<1>7. \A k \in before[l].live :
        Wanted(l, Rows(l)[k]) /\ k \notin DeletedNow(Source(l)) => k \in read.rows
  BY <1>5, <1>6 DEF PartOf
<1>8. l = "orderTypes" /\ "NAMECC" \in exists =>
        /\ read.rows \subseteq 1..Len(files["NAMECC"].records)
        /\ read.rows \subseteq 1..files["NAMECC"].count
  <2> HAVE l = "orderTypes" /\ "NAMECC" \in exists
  <2>1. f = "NAMECC"
    BY DEF Source, Own
  <2> QED BY <1>3, <1>4, <1>5, <2>1 DEF PartOf, Rows
<1>9. l = "costCenters" /\ "NAMECC" \in exists /\ lists["orderTypes"] # Unread =>
        lists["orderTypes"] \ DeletedNow("NAMECC") \subseteq before["costCenters"].live
  BY <1>1, <1>2 DEF IInv, OrderTypesInv
<1>10. read.rows \cap before[l].gone = {}
  BY <1>5 DEF PartOf
<1> HIDE DEF f, n
<1> QED BY <1>1, <1>4, <1>7, <1>8, <1>9, <1>10, AdvanceStep

LEMMA ParseTablesStep == ASSUME IInv, ParseTables PROVE IInv'
<1>1. /\ UNCHANGED <<exists, files, lists, failed, before, changes>>
      /\ read' = [read EXCEPT !.pc = "idle"]
  BY DEF ParseTables
<1>2. /\ read' \in [pc : {"idle", "open", "records", "tables"}, step : Steps,
                    count : Nat, next : Nat \ {0}, rows : SUBSET Positions]
      /\ read'.pc = "idle" /\ read'.step = read.step
  <2>1. read \in [pc : {"idle", "open", "records", "tables"}, step : Steps,
                 count : Nat, next : Nat \ {0}, rows : SUBSET Positions]
    BY DEF IInv, ListsTypeOK
  <2> QED BY <1>1, <2>1
<1>3. ListsTypeOK'
  BY <1>1, <1>2 DEF IInv, ListsTypeOK
<1>4. PhaseInv' /\ ReadingInv'
  BY <1>2 DEF PhaseInv, Reading, ReadingInv
<1>5. KnownInv' /\ ListsAreExact'
  BY <1>1 DEF IInv, KnownInv, ListsAreExact, Rows, Wanted, Source, DeletedNow
<1>6. OrderTypesInv'
  BY <1>1, <1>2 DEF IInv, OrderTypesInv, DeletedNow
<1> QED BY <1>3, <1>4, <1>5, <1>6 DEF IInv

-----------------------------------------------------------------------------
LEMMA NextIInv == IInv /\ [Next]_vars => IInv'
<1> SUFFICES ASSUME IInv, [Next]_vars PROVE IInv'
  OBVIOUS
<1>1. CASE OpenFile
  <2>1. CASE CannotRead(Current) /\ UNCHANGED before
    BY <1>1, <2>1, CannotReadStep DEF OpenFile, Reading
  <2>2. CASE ~(CannotRead(Current) /\ UNCHANGED before)
    BY <1>1, <2>2, HeaderStep
  <2> QED BY <2>1, <2>2
<1>4. CASE ReadFails
  BY <1>4, CannotReadStep DEF ReadFails, Reading
<1>2. ASSUME NEW f \in exists, Pos(f) PROVE IInv'
  <2>1. f \in Files /\ ListsTypeOK
    BY DEF IInv, ListsTypeOK
  <2>2. UNCHANGED <<exists, read, lists, failed, before>>
    BY <1>2 DEF Pos, PosAppend, PosCount, PosDelete, Change
  <2> QED BY <1>2, <2>1, <2>2, PosGrows, GrownKeeps
<1>3. CASE UNCHANGED vars
  <2>1. ListsTypeOK' /\ PhaseInv' /\ OrderTypesInv'
    BY <1>3 DEF vars, IInv, ListsTypeOK, PhaseInv, Reading, OrderTypesInv, DeletedNow
  <2>2. KnownInv' /\ ListsAreExact'
    BY <1>3 DEF vars, IInv, KnownInv, ListsAreExact, Rows, Wanted, Source, DeletedNow
  <2>3. ReadingInv'
    BY <1>3 DEF vars, IInv, ReadingInv, PartOf, Current, Rows, Wanted, Source, DeletedNow
  <2> QED BY <2>1, <2>2, <2>3 DEF IInv
<1> QED BY <1>1, <1>2, <1>3, <1>4, BeginStep, ReadRecordStep, EndOfRecordsStep, ParseTablesStep DEF Next

LEMMA Invariance == Spec => []IInv
BY InitIInv, NextIInv, PTL DEF Spec

\* Every list that could be read has all wanted records that were complete when
\* its header was read (readFromReader) and were not deleted since, and none
\* that was deleted before; one that could not is empty.  However long the files
\* and however much the POS writes meanwhile.
THEOREM ListsStayExact == Spec => []ListsAreExact
<1>1. IInv => ListsAreExact
  BY DEF IInv
<1> QED BY <1>1, Invariance, PTL

\* A snapshot names no order type without its cost center, unless that was
\* deleted between the two reads or the second one failed.
THEOREM OrderTypesHaveCostCenters == Spec => []OrderTypesAreCostCenters
<1>1. IInv => OrderTypesAreCostCenters
  <2> SUFFICES ASSUME IInv, "NAMECC" \in exists,
                      lists["orderTypes"] # Unread, lists["costCenters"] # Unread,
                      "costCenters" \notin failed
               PROVE  lists["orderTypes"] \ DeletedNow("NAMECC") \subseteq lists["costCenters"]
    BY DEF OrderTypesAreCostCenters
  <2>1. lists["orderTypes"] \ DeletedNow("NAMECC") \subseteq before["costCenters"].live
    BY DEF IInv, OrderTypesInv
  <2>2. /\ "costCenters" \in Lists /\ Source("costCenters") = "NAMECC"
        /\ \A r : Wanted("costCenters", r)
    BY DEF Lists, Source, Own, Wanted
  <2>3. before["costCenters"].live \ DeletedNow("NAMECC") \subseteq lists["costCenters"]
    BY <2>2 DEF IInv, ListsAreExact
  <2> QED BY <2>1, <2>3
<1> QED BY <1>1, Invariance, PTL

-----------------------------------------------------------------------------
(* The tables. *)

\* Counting the names among the first i slots.
LEMMA KeptIs ==
  ASSUME NEW slots, NEW i \in Nat
  PROVE  /\ Kept(slots, i) \in Nat /\ Kept(slots, i) <= i
         /\ (\A j \in 1..i : slots[j] # Blank) => Kept(slots, i) = i
         /\ \A c \in 0..(i - 1) : slots[i] # Blank => Kept(slots, c) < Kept(slots, i)
<1> DEFINE K(n) == {j \in 1..n : slots[j] # Blank}
<1>1. \A n \in Nat : IsFiniteSet(1..n) /\ Cardinality(1..n) = n
  <2>1. TAKE n \in Nat
  <2>2. IsFiniteSet(1..n) /\ Cardinality(1..n) = IF 1 > n THEN 0 ELSE n - 1 + 1
    BY FS_Interval
  <2> QED BY <2>2
<1>2. \A n \in Nat : K(n) \subseteq 1..n /\ IsFiniteSet(K(n)) /\ Cardinality(K(n)) \in Nat
                     /\ Cardinality(K(n)) <= n
  <2>1. TAKE n \in Nat
  <2>2. K(n) \subseteq 1..n
    OBVIOUS
  <2> QED BY <1>1, <2>2, FS_Subset, FS_CardinalityType
<1>3. ASSUME \A j \in 1..i : slots[j] # Blank PROVE Cardinality(K(i)) = i
  <2>1. K(i) = 1..i
    BY <1>3
  <2> QED BY <1>1, <2>1
<1>4. ASSUME NEW c \in 0..(i - 1), slots[i] # Blank
      PROVE Cardinality(K(c)) < Cardinality(K(i))
  <2>1. c \in Nat /\ i \in K(i) /\ i \notin K(c) /\ K(c) \subseteq K(i)
    BY <1>4
  <2>2. IsFiniteSet(K(c)) /\ IsFiniteSet(K(i))
    BY <1>2, <2>1
  <2>3. Cardinality(K(c)) \in Nat /\ Cardinality(K(i)) \in Nat
    BY <1>2, <2>1
  <2> HIDE DEF K
  <2>4. Cardinality(K(c)) <= Cardinality(K(i))
    BY <2>1, <2>2, FS_Subset
  <2>5. Cardinality(K(c)) # Cardinality(K(i))
    BY <2>1, <2>2, FS_Subset
  <2> QED BY <2>3, <2>4, <2>5
<1> QED BY <1>2, <1>3, <1>4 DEF Kept

\* A center whose slot has no blank one before it gets that slot's name; one
\* without a slot gets none.
LEMMA SectionIs ==
  ASSUME NEW slots \in Slots, NEW c \in Nat
  PROVE  /\ Section(slots, c) \in Names \cup {Blank}
         /\ c \in DOMAIN slots /\ (\A i \in 1..c : slots[i] # Blank) =>
              Section(slots, c) = slots[c]
         /\ c \notin DOMAIN slots => Section(slots, c) = Blank
<1> DEFINE at == Place(slots, c)
<1>1. PICK n \in 0..MaxSlots : slots \in [1..n -> Names \cup {Blank}]
  BY DEF Slots
<1>2. n \in Nat /\ DOMAIN slots = 1..n /\ \A i \in 1..n : slots[i] \in Names \cup {Blank}
  BY <1>1, BoundsAssumption
<1>3. Section(slots, c) = IF at = {} THEN Blank ELSE slots[CHOOSE i \in at : TRUE]
  BY DEF Section, NameAt
<1>4. at # {} => (CHOOSE i \in at : TRUE) \in at
  OBVIOUS
<1>5. Section(slots, c) \in Names \cup {Blank}
  BY <1>2, <1>3, <1>4 DEF Place
<1>6. ASSUME c \in 1..n, \A i \in 1..c : slots[i] # Blank
      PROVE Section(slots, c) = slots[c]
  <2>1. Kept(slots, c) = c
    BY <1>6, KeptIs
  <2>2. ASSUME NEW i \in at PROVE i = c
    <3>1. i \in 1..n /\ slots[i] # Blank /\ Kept(slots, i) = c
      BY <1>2 DEF Place
    <3>2. CASE i < c
      <4>1. \A j \in 1..i : slots[j] # Blank
        BY <1>6, <3>1, <3>2
      <4> QED BY <3>1, <3>2, <4>1, <1>2, KeptIs
    <3>3. CASE c < i
      <4>1. Kept(slots, c) < Kept(slots, i)
        BY <3>1, <3>3, <1>2, KeptIs
      <4> QED BY <2>1, <3>1, <4>1
    <3> QED BY <3>1, <3>2, <3>3, <1>2
  <2>3. c \in at
    BY <1>2, <1>6, <2>1 DEF Place
  <2> HIDE DEF at
  <2> QED BY <1>3, <1>4, <2>2, <2>3
<1>7. ASSUME c \notin 1..n PROVE Section(slots, c) = Blank
  <2>1. SUFFICES ASSUME NEW i \in 1..n, slots[i] # Blank, Kept(slots, i) = c PROVE FALSE
    BY <1>2, <1>3 DEF Place
  <2>2. Kept(slots, i) \in Nat /\ Kept(slots, i) <= i
    BY <2>1, <1>2, KeptIs
  <2>3. Kept(slots, 0) \in Nat /\ Kept(slots, 0) < Kept(slots, i)
    BY <2>1, <1>2, KeptIs
  <2> QED BY <1>2, <1>7, <2>1, <2>2, <2>3
<1> QED BY <1>2, <1>5, <1>6, <1>7

\* The last table parsed has the revenue center its position selects.
TableInv ==
  /\ table \in [slots : Slots, center : 0..(MaxSlots + 1), section : Names \cup {Blank}]
  /\ table.section = Section(table.slots, table.center)

LEMMA NoTableIs ==
  NoTable \in [slots : Slots, center : 0..(MaxSlots + 1), section : Names \cup {Blank}]
    /\ NoTable.section = Section(NoTable.slots, NoTable.center)
<1>1. << >> \in [1..0 -> Names \cup {Blank}] /\ DOMAIN << >> = {}
  OBVIOUS
<1>2. << >> \in Slots
  <2>1. 0 \in 0..MaxSlots
    BY BoundsAssumption
  <2> QED BY <1>1, <2>1 DEF Slots
<1>3. Section(<< >>, 0) = Blank
  BY <1>1, <1>2, SectionIs
<1> QED BY <1>2, <1>3, BoundsAssumption DEF NoTable

LEMMA InitTableInv == Init => TableInv
BY NoTableIs DEF Init, TableInv

LEMMA NextTableInv == TableInv /\ [Next]_vars => TableInv'
<1> SUFFICES ASSUME TableInv, [Next]_vars PROVE TableInv'
  OBVIOUS
<1>1. CASE ParseTables
  <2>1. PICK slots \in Slots, center \in 0..(MaxSlots + 1) :
          table' = [slots |-> slots, center |-> center, section |-> Section(slots, center)]
    BY <1>1 DEF ParseTables
  <2>2. center \in Nat
    BY BoundsAssumption
  <2>3. Section(slots, center) \in Names \cup {Blank}
    BY <2>2, SectionIs
  <2> QED BY <2>1, <2>3 DEF TableInv
<1>2. CASE Begin
  BY <1>2, NoTableIs DEF Begin, TableInv
<1>3. CASE ~ParseTables /\ ~Begin
  <2>1. table' = table
    BY <1>3 DEF Next, OpenFile, ReadRecord, EndOfRecords, ReadFails, Pos, PosAppend, PosCount,
                PosDelete, Change, vars
  <2> QED BY <2>1 DEF TableInv
<1> QED BY <1>1, <1>2, <1>3

LEMMA TableInvariance == Spec => []TableInv
BY InitTableInv, NextTableInv, PTL DEF Spec

\* The reader's state, its lists and the tables stay well typed.
THEOREM ReadersTypeCorrect == Spec => []TypeOK
<1>1. IInv /\ TableInv => TypeOK
  BY DEF IInv, TableInv, TypeOK
<1> QED BY <1>1, Invariance, TableInvariance, PTL

\* However many slots there are, a table's revenue center is off by none as
\* long as no slot before its own is blank, and a position behind the last slot
\* gets no name.
THEOREM SectionsAreSlots == Spec => []SectionIsItsSlot
<1>1. TableInv => SectionIsItsSlot
  <2> SUFFICES ASSUME TableInv PROVE SectionIsItsSlot
    OBVIOUS
  <2>1. table.slots \in Slots /\ table.center \in Nat
    BY BoundsAssumption DEF TableInv
  <2> QED BY <2>1, SectionIs DEF TableInv, SectionIsItsSlot
<1> QED BY <1>1, TableInvariance, PTL
=============================================================================
