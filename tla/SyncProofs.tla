----------------------------- MODULE SyncProofs -----------------------------
(***************************************************************************)
(* Proofs about Sync: for any number of agents stopped in their first sync *)
(* beside the current one, of concurrent HTTP requests, changes of the POS *)
(* data and deaths of an agent.                                            *)
(***************************************************************************)
EXTENDS Sync, TLAPS

USE WorkersAssumption, MarkersAssumption, BoundsAssumption

-----------------------------------------------------------------------------
(* The inductive invariant. *)

Owning == {"export", "create", "copy"}     \* stages inside the mutex
Copied == {"parse", "reread", "tickets", "upload"}

\* The current agent lives; requests and the ticket loop are its own; any other
\* that lives was told to leave.
ProcInv ==
  /\ current # "none" => Alive(current)
  /\ ~serving => \A w \in Workers \ Agents : stage[w] = "off"
  /\ current = "none" => ~serving
  /\ \A a \in Agents : Alive(a) /\ a # current => a \in left

\* Each mutex is held by the one goroutine of its process that is inside
\* RunWExportAndCopySet1.
HolderInv ==
  \A a \in Agents, w \in Syncers :
    holder[a] = w <=> stage[w] \in Owning /\ Process(w) = a

\* A WExport.EXE has somebody who waits for it or was left by a process that is
\* gone, and its agent is the current one or was told to leave.
ExesInv ==
  /\ \A x \in exes :
       IF x.for = "nobody" THEN ~Alive(x.by)
       ELSE stage[x.for] = "export" /\ Process(x.for) = x.by
  /\ \A x, y \in exes : x.by = y.by \/ {x.by, y.by} \cap left # {}
  /\ current # "none" => \A x \in exes : x.by \in left \cup {current}

\* w's export succeeded, or still may, and its agent is alone.
Counts(w) == own[w] # Missing

\* No other agent lives beside that of a sync whose export counts, and then the
\* exports that its agent's other syncs begin count as well.
CrossInv ==
  \A w \in Syncers : Counts(w) =>
    /\ ~Beside(w)
    /\ \A v \in Syncers : stage[w] \in Copied /\ stage[v] \in Owning => Counts(v)

\* content, where it is a version at all, is not older than w's export.
NotOlder(w, content) == content \in Versions => own[w] <= content

\* What w read, and what it could still read, is not older than its export.
FreshInv ==
  \A w \in Syncers :
    /\ stage[w] \in {"off", "idle", "lock", "rest"} => ~Counts(w)
    /\ stage[w] \notin {"tickets", "upload"} => snap[w].tables = Empty
    /\ Counts(w) =>
         /\ own[w] <= pos
         /\ stage[w] \in {"create", "copy"} => src \in Versions
         /\ stage[w] \in {"create", "copy"} \cup Copied => NotOlder(w, src)
         /\ stage[w] \in Copied => NotOlder(w, dst)
         /\ stage[w] = "reread" => NotOlder(w, half[w])
         /\ NotOlder(w, snap[w].tables)
         /\ \A v \in Syncers :
              stage[w] \in Copied /\ stage[v] = "export" => own[w] <= own[v]

IInv == TypeOK /\ ProcInv /\ HolderInv /\ ExesInv /\ CrossInv /\ FreshInv

-----------------------------------------------------------------------------
LEMMA WorkersFacts ==
  /\ Agents \subseteq Syncers /\ Handlers \subseteq Syncers
  /\ Syncers \subseteq Workers /\ "ticket" \in Workers
  /\ "ticket" \notin Syncers /\ "none" \notin Syncers /\ "nobody" \notin Syncers
  /\ \A w \in Workers : w \in Syncers \/ w = "ticket"
  /\ \A w \in Syncers : w \in Agents <=> w \notin Handlers
BY DEF Workers, Syncers

LEMMA MarkersFacts ==
  /\ Torn \notin Versions /\ Missing \notin Versions
  /\ Empty \notin Versions /\ Mixed \notin Versions
  /\ Versions \subseteq Nat
BY DEF Versions

\* What a parse yields is well typed, and a version only if both reads are it.
LEMMA DecodedFacts ==
  ASSUME NEW head, NEW tail, NEW t \in Decoded(head, tail)
  PROVE  /\ t \in Versions \cup {Empty, Mixed}
         /\ t \in Versions => t = head /\ t = tail
BY MarkersFacts DEF Decoded

\* Changing one field of one worker's snapshot keeps the snapshots well typed
\* and the others as they are.
LEMMA SnapUpdate ==
  ASSUME TypeOK, NEW w \in Workers, NEW t \in Versions \cup {Empty, Mixed}
  PROVE  LET s == [snap EXCEPT ![w].tables = t]
         IN  /\ s \in [Workers -> Snapshot]
             /\ \A v \in Workers : s[v].tables = IF v = w THEN t ELSE snap[v].tables
<1>1. snap[w] \in Snapshot
  BY DEF TypeOK
<1>2. [snap[w] EXCEPT !.tables = t] \in Snapshot
  BY <1>1 DEF Snapshot
<1> QED
  BY <1>1, <1>2 DEF TypeOK, Snapshot

LEMMA SnapTickets ==
  ASSUME TypeOK, NEW w \in Workers
  PROVE  LET s == [snap EXCEPT ![w].tickets = pos]
         IN  /\ s \in [Workers -> Snapshot]
             /\ \A v \in Workers : s[v].tables = snap[v].tables
<1>1. snap[w] \in Snapshot
  BY DEF TypeOK
<1>2. [snap[w] EXCEPT !.tickets = pos] \in Snapshot
  BY <1>1 DEF Snapshot, TypeOK
<1> QED
  BY <1>1, <1>2 DEF TypeOK, Snapshot

\* Nothing is read yet.
LEMMA BlankFacts == Blank \in Snapshot /\ Blank.tables = Empty
BY DEF Blank, Snapshot

\* Whoever is at work is a goroutine of a living agent.
LEMMA ProcessLives ==
  ASSUME TypeOK, ProcInv, NEW w \in Syncers, stage[w] # "off"
  PROVE  Process(w) \in Agents /\ Alive(Process(w))
<1>1. CASE w \in Agents
  BY <1>1 DEF Process, Alive
<1>2. CASE w \notin Agents
  <2>1. w \in Workers \ Agents
    BY <1>2, WorkersFacts
  <2>2. current # "none"
    BY <2>1 DEF ProcInv
  <2> QED
    BY <1>2, <2>2 DEF ProcInv, TypeOK, Process
<1> QED
  BY <1>1, <1>2

\* Two goroutines of one process are not both inside.
LEMMA OneInside ==
  ASSUME TypeOK, ProcInv, HolderInv, NEW v \in Syncers, NEW w \in Syncers,
         stage[v] \in Owning, stage[w] \in Owning, Process(v) = Process(w)
  PROVE  v = w
<1>1. Process(w) \in Agents
  BY ProcessLives DEF Owning
<1> QED
  BY <1>1 DEF HolderInv

\* Where one export counts, all that is at work is of one process.
LEMMA CountsAlone ==
  ASSUME TypeOK, ProcInv, CrossInv, NEW w \in Syncers, Counts(w),
         NEW v \in Syncers, stage[v] # "off"
  PROVE  Process(v) = Process(w)
<1>1. Process(v) \in Agents /\ Alive(Process(v))
  BY ProcessLives
<1> QED
  BY <1>1 DEF CrossInv, Beside

\* ... and what is exported is exported for one of its goroutines.
LEMMA CountsExes ==
  ASSUME IInv, NEW w \in Syncers, Counts(w), NEW x \in exes
  PROVE  x.for \in Syncers /\ stage[x.for] = "export" /\ x = Mine(x.for)
                           /\ Process(x.for) = Process(w)
<1>1. x.by \in Agents /\ x.for \in Syncers \cup {"nobody"} /\ x = [by |-> x.by, for |-> x.for]
  BY DEF IInv, TypeOK
<1>2. x.by = Process(w)
  BY <1>1 DEF IInv, CrossInv, Beside
<1>3. stage[w] # "off"
  BY DEF IInv, FreshInv
<1>4. Alive(x.by)
  BY <1>2, <1>3, ProcessLives DEF IInv
<1> QED
  BY <1>1, <1>2, <1>4 DEF IInv, ExesInv, Mine

LEMMA InitInv == Init => IInv
<1> SUFFICES ASSUME Init PROVE IInv
  OBVIOUS
<1> USE WorkersFacts, MarkersFacts DEF Init
<1>1. 0 \in Versions /\ 0 \in 0..MaxEnds
  BY DEF Versions
<1>2. TypeOK
  BY <1>1, BlankFacts DEF TypeOK, Stages
<1>3. ProcInv /\ HolderInv /\ ExesInv
  BY DEF Alive, ProcInv, HolderInv, ExesInv, Owning
<1>4. CrossInv /\ FreshInv
  BY BlankFacts DEF CrossInv, FreshInv, Counts
<1> QED
  BY <1>2, <1>3, <1>4 DEF IInv


LEMMA StartAgentInv ==
  ASSUME IInv, NEW a \in Agents, StartAgent(a)
  PROVE  IInv'
<1> USE WorkersFacts, MarkersFacts DEF IInv, StartAgent, Free, MeetAgents, At, GoTo,
        process, files, reads
<1>1. TypeOK'
  BY DEF TypeOK, Stages
<1>2. ProcInv'
  BY DEF TypeOK, ProcInv, Alive
<1>3. HolderInv'
  BY DEF TypeOK, ProcInv, HolderInv, Owning, Process, Alive
<1>4. ExesInv'
  BY DEF TypeOK, ProcInv, HolderInv, ExesInv, Owning, Process, Alive, Mine
<1>5. CrossInv'
  BY DEF TypeOK, ProcInv, CrossInv, Counts, Beside, Process, Alive, Owning, Copied
<1>6. FreshInv'
  <2>1. \A w \in Syncers : ~Counts(w)'
    BY DEF TypeOK, ProcInv, FreshInv, Counts
  <2>2. \A w \in Syncers : stage'[w] = stage[w] \/ stage[w] = "off"
    BY DEF TypeOK, Alive
  <2> QED
    BY <2>1, <2>2 DEF FreshInv, Counts
<1> QED
  BY <1>1, <1>2, <1>3, <1>4, <1>5, <1>6

LEMMA StopInFirstSyncInv ==
  ASSUME IInv, StopInFirstSync
  PROVE  IInv'
<1> USE WorkersFacts, MarkersFacts DEF IInv, StopInFirstSync, At, GoTo,
        process, files, reads
<1>1. TypeOK'
  BY DEF TypeOK, Stages
<1>2. ProcInv'
  BY DEF TypeOK, ProcInv, Alive
<1>3. HolderInv'
  BY DEF TypeOK, ProcInv, HolderInv, Owning, Process, Alive
<1>4. ExesInv'
  BY DEF TypeOK, ProcInv, HolderInv, ExesInv, Owning, Process, Alive, Mine
<1>5. CrossInv'
  <2>1. \A w \in Handlers : stage[w] = "off" /\ ~Counts(w)
    BY DEF ProcInv, FreshInv
  <2> QED
    BY <2>1 DEF TypeOK, CrossInv, Counts, Beside, Process, Alive, Owning, Copied
<1>6. FreshInv'
  BY DEF TypeOK, FreshInv, NotOlder, Counts, Copied, Owning, Versions
<1> QED
  BY <1>1, <1>2, <1>3, <1>4, <1>5, <1>6

LEMMA CrashInv ==
  ASSUME IInv, NEW a \in Agents, Crash(a)
  PROVE  IInv'
<1> USE WorkersFacts, MarkersFacts DEF IInv, Crash, At, GoTo,
        process, files, reads
<1>1. TypeOK'
  <2>1. exes' \subseteq [by : Agents, for : Syncers \cup {"nobody"}]
    BY DEF TypeOK
  <2>2. snap' \in [Workers -> Snapshot]
    BY BlankFacts DEF TypeOK
  <2> QED
    BY <2>1, <2>2 DEF TypeOK, Stages
<1>2. ProcInv'
  <2>1. \A w \in Workers : stage'[w] = IF Process(w) = a THEN "off" ELSE stage[w]
    OBVIOUS
  <2>2. \A b \in Agents : Process(b) = b
    BY DEF Process
  <2>3. \A w \in Workers \ Agents : Process(w) = current
    BY DEF Process
  <2> QED
    BY <2>1, <2>2, <2>3 DEF TypeOK, ProcInv, Alive
<1>3. HolderInv'
  BY DEF TypeOK, ProcInv, HolderInv, Owning, Process, Alive
<1>4. ExesInv'
  BY DEF TypeOK, ProcInv, HolderInv, ExesInv, Owning, Process, Alive, Mine
<1>5. CrossInv'
  BY DEF TypeOK, ProcInv, CrossInv, Counts, Beside, Process, Alive, Owning, Copied
<1>6. FreshInv'
  <2> DEFINE gone(w) == Process(w) = a
  <2>1. \A w \in Workers : /\ stage'[w] = IF gone(w) THEN "off" ELSE stage[w]
                          /\ snap'[w] = IF gone(w) THEN Blank ELSE snap[w]
    OBVIOUS
  <2>2. \A w \in Syncers : /\ own'[w] = IF gone(w) THEN Missing ELSE own[w]
                          /\ half'[w] = IF gone(w) THEN Missing ELSE half[w]
    OBVIOUS
  <2>3. pos' = pos /\ src' = src /\ dst' = dst
    OBVIOUS
  <2> HIDE DEF gone
  <2> QED
    BY <2>1, <2>2, <2>3, BlankFacts DEF FreshInv, NotOlder, Counts, Copied, Owning
<1> QED
  BY <1>1, <1>2, <1>3, <1>4, <1>5, <1>6

LEMMA PosChangesInv ==
  ASSUME IInv, PosChanges
  PROVE  IInv'
<1> USE WorkersFacts, MarkersFacts DEF IInv, PosChanges, At, GoTo,
        process, files, reads
<1>1. TypeOK'
  BY DEF TypeOK, Versions
<1>2. ProcInv'
  BY DEF TypeOK, ProcInv, Alive
<1>3. HolderInv'
  BY DEF TypeOK, ProcInv, HolderInv, Owning, Process, Alive
<1>4. ExesInv'
  BY DEF TypeOK, ProcInv, HolderInv, ExesInv, Owning, Process, Alive, Mine
<1>5. CrossInv'
  BY DEF TypeOK, ProcInv, CrossInv, Counts, Beside, Process, Alive, Owning, Copied
<1>6. FreshInv'
  BY DEF TypeOK, FreshInv, NotOlder, Counts, Copied, Owning, Versions
<1> QED
  BY <1>1, <1>2, <1>3, <1>4, <1>5, <1>6

LEMMA OrphanEndsInv ==
  ASSUME IInv, OrphanEnds
  PROVE  IInv'
<1> USE WorkersFacts, MarkersFacts DEF IInv, OrphanEnds, At, GoTo,
        process, files, reads
<1>1. TypeOK'
  BY DEF TypeOK, Versions, Exported, Began
<1>2. ProcInv'
  BY DEF TypeOK, ProcInv, Alive
<1>3. HolderInv'
  BY DEF TypeOK, ProcInv, HolderInv, Owning, Process, Alive
<1>4. ExesInv'
  BY DEF TypeOK, ProcInv, HolderInv, ExesInv, Owning, Process, Alive, Mine
<1>5. CrossInv'
  BY DEF TypeOK, ProcInv, CrossInv, Counts, Beside, Process, Alive, Owning, Copied
<1>6. FreshInv'
  <2>1. \A w \in Syncers : ~Counts(w)
    BY CountsExes DEF IInv
  <2> QED
    BY <2>1 DEF FreshInv, Counts
<1> QED
  BY <1>1, <1>2, <1>3, <1>4, <1>5, <1>6

LEMMA BeginInv ==
  ASSUME IInv, NEW w \in Workers, Begin(w)
  PROVE  IInv'
<1> USE WorkersFacts, MarkersFacts DEF IInv, Begin, At, GoTo,
        process, files, reads
<1>1. TypeOK'
  BY DEF TypeOK, Stages
<1>2. ProcInv'
  BY DEF TypeOK, ProcInv, Alive
<1>3. HolderInv'
  BY DEF TypeOK, ProcInv, HolderInv, Owning, Process, Alive
<1>4. ExesInv'
  BY DEF TypeOK, ProcInv, HolderInv, ExesInv, Owning, Process, Alive, Mine
<1>5. CrossInv'
  BY DEF TypeOK, ProcInv, CrossInv, Counts, Beside, Process, Alive, Owning, Copied
<1>6. FreshInv'
  BY DEF TypeOK, FreshInv, NotOlder, Counts, Copied, Owning, Versions
<1> QED
  BY <1>1, <1>2, <1>3, <1>4, <1>5, <1>6

LEMMA LockAndExportInv ==
  ASSUME IInv, NEW w \in Syncers, LockAndExport(w)
  PROVE  IInv'
<1> USE WorkersFacts, MarkersFacts DEF IInv, LockAndExport, At, GoTo,
        process, files, reads
<1>1. TypeOK'
  <2>1. Process(w) \in Agents
    BY ProcessLives
  <2>2. Mine(w) \in [by : Agents, for : Syncers \cup {"nobody"}]
    BY <2>1 DEF Mine
  <2> QED
    BY <2>1, <2>2 DEF TypeOK, Stages
<1>2. ProcInv'
  BY DEF TypeOK, ProcInv, Alive
<1>3. HolderInv'
  BY DEF TypeOK, ProcInv, HolderInv, Owning, Process, Alive
<1>4. ExesInv'
  BY DEF TypeOK, ProcInv, HolderInv, ExesInv, Owning, Process, Alive, Mine
<1>5. CrossInv'
  <2>1. Process(w) \in Agents /\ Alive(Process(w))
    BY ProcessLives
  <2>2. \A v \in Syncers : Process(v)' = Process(v)
    BY DEF Process
  <2>3. \A b \in Agents : Alive(b)' = Alive(b)
    BY DEF TypeOK, Alive
  <2>4. \A v \in Syncers \ {w} : own'[v] = own[v] /\ stage'[v] = stage[v]
    BY DEF TypeOK
  <2>5. stage'[w] = "export" /\ own'[w] = IF Beside(w) THEN Missing ELSE pos
    BY DEF TypeOK
  <2>6. \A v \in Syncers : Counts(v) => Process(v) = Process(w)
    BY CountsAlone
  <2>7. ASSUME NEW v \in Syncers, Counts(v)', v # w
        PROVE  Counts(v) /\ Process(v) = Process(w) /\ ~Beside(v) /\ ~Beside(w)
    BY <2>4, <2>6, <2>7 DEF Counts, CrossInv, Beside
  <2>8. \A v \in Syncers : Counts(v)' => ~Beside(v)'
    <3>1. \A x \in exes' : x \in exes \/ x.by = Process(w)
      BY DEF Mine
    <3> QED
      BY <2>2, <2>3, <2>5, <2>7, <3>1 DEF Beside, Counts
  <2>9. ASSUME NEW v \in Syncers, Counts(v)', (stage[v] \in Copied)',
               NEW u \in Syncers, (stage[u] \in Owning)'
        PROVE  Counts(u)'
    <3>1. v # w
      BY <2>5, <2>9 DEF Copied
    <3>2. CASE u = w
      BY <2>5, <2>7, <2>9, <3>1, <3>2 DEF TypeOK, Counts
    <3>3. CASE u # w
      BY <2>4, <2>7, <2>9, <3>1, <3>3 DEF CrossInv, Counts
    <3> QED
      BY <3>2, <3>3
  <2> QED
    BY <2>8, <2>9 DEF CrossInv
<1>6. FreshInv'
  <2>1. stage[w] = "lock" /\ ~Counts(w)
    BY DEF FreshInv
  <2>2. \A v \in Syncers \ {w} : own'[v] = own[v] /\ stage'[v] = stage[v]
    BY DEF TypeOK
  <2>3. stage'[w] = "export" /\ own'[w] \in {Missing, pos}
    BY DEF TypeOK
  <2>4. \A v \in Syncers : Counts(v) /\ stage[v] \in Copied => Counts(w)' \/ ~Counts(w)'
    OBVIOUS
  <2>5. \A v \in Syncers : Counts(v)' /\ (stage[v] \in Copied)' => v # w /\ own'[w] = pos
    <3>1. \A v \in Syncers : Counts(v)' /\ (stage[v] \in Copied)' => Counts(w)'
      BY <1>5, <2>3 DEF CrossInv, Owning
    <3> QED
      BY <2>3, <3>1 DEF Counts, Copied
  <2> QED
    BY <2>1, <2>2, <2>3, <2>5 DEF TypeOK, FreshInv, NotOlder, Counts, Copied, Versions
<1> QED
  BY <1>1, <1>2, <1>3, <1>4, <1>5, <1>6

LEMMA ExportDoneInv ==
  ASSUME IInv, NEW w \in Syncers, ExportDone(w)
  PROVE  IInv'
<1> USE WorkersFacts, MarkersFacts DEF IInv, ExportDone, At, GoTo,
        process, files, reads
<1>1. TypeOK'
  <2>1. src' \in Versions \cup {Torn}
    BY DEF TypeOK, Exported, Began, Versions
  <2> QED
    BY <2>1 DEF TypeOK, Stages
<1>2. ProcInv'
  BY DEF TypeOK, ProcInv, Alive
<1>3. HolderInv'
  BY DEF TypeOK, ProcInv, HolderInv, Owning, Process, Alive
<1>4. ExesInv'
  BY DEF TypeOK, ProcInv, HolderInv, ExesInv, Owning, Process, Alive, Mine
<1>5. CrossInv'
  BY DEF TypeOK, ProcInv, CrossInv, Counts, Beside, Process, Alive, Owning, Copied
<1>6. FreshInv'
  <2>1. \A v \in Workers : stage'[v] = IF v = w THEN "create" ELSE stage[v]
    BY DEF TypeOK
  <2>2. ASSUME NEW v \in Syncers, Counts(v) PROVE src' \in Versions
    <3>1. exes = {Mine(w)}
      <4>1. ASSUME NEW x \in exes PROVE x = Mine(w)
        <5>1. x.for = w
          BY <2>2, <4>1, CountsExes, CountsAlone, OneInside DEF Owning
        <5> QED
          BY <2>2, <4>1, <5>1, CountsExes
      <4> QED
        BY <4>1
    <3> QED
      BY <3>1 DEF TypeOK, Exported, Began, Versions
  <2>3. Counts(w) /\ src' \in Versions => own[w] <= src'
    BY DEF TypeOK, Exported, Began, Mine, Counts, Versions
  <2>4. ASSUME NEW v \in Syncers, Counts(v), stage[v] \in {"create", "copy"} \cup Copied
        PROVE  NotOlder(v, src)'
    <3>1. v # w /\ stage[v] \notin {"create", "copy"}
      BY <2>4, CountsAlone, OneInside DEF Owning, Copied
    <3>2. Counts(w) /\ own[v] <= own[w]
      BY <2>4, <3>1 DEF CrossInv, FreshInv, Owning
    <3>3. own[v] \in Nat /\ own[w] \in Nat /\ Versions \subseteq Nat
      BY <2>4, <3>2 DEF TypeOK, Counts
    <3>4. ASSUME src' \in Versions
          PROVE  own[v] <= src'
      <4>1. src' \in Nat /\ own[w] <= src'
        BY <2>3, <3>2, <3>3, <3>4
      <4> QED
        BY <3>2, <3>3, <4>1
    <3> QED
      BY <3>4 DEF NotOlder
  <2> QED
    BY <2>1, <2>2, <2>3, <2>4 DEF FreshInv, NotOlder, Counts, Copied
<1> QED
  BY <1>1, <1>2, <1>3, <1>4, <1>5, <1>6

LEMMA ExportFailsInv ==
  ASSUME IInv, NEW w \in Syncers, ExportFails(w)
  PROVE  IInv'
<1> USE WorkersFacts, MarkersFacts DEF IInv, ExportFails, Return, At, GoTo,
        process, files, reads
<1>1. TypeOK'
  BY DEF TypeOK, Stages
<1>2. ProcInv'
  BY DEF TypeOK, ProcInv, Alive
<1>3. HolderInv'
  BY DEF TypeOK, ProcInv, HolderInv, Owning, Process, Alive
<1>4. ExesInv'
  BY DEF TypeOK, ProcInv, HolderInv, ExesInv, Owning, Process, Alive, Mine
<1>5. CrossInv'
  BY DEF TypeOK, ProcInv, CrossInv, Counts, Beside, Process, Alive, Owning, Copied
<1>6. FreshInv'
  <2>1. \A v \in Workers : stage'[v] = IF v = w THEN "parse" ELSE stage[v]
    BY DEF TypeOK
  <2>2. \A v \in Syncers : own'[v] = IF v = w THEN Missing ELSE own[v]
    BY DEF TypeOK
  <2>3. ASSUME NEW v \in Syncers, Counts(v), stage[v] \in {"create", "copy"} PROVE FALSE
    BY <2>3, CountsAlone, OneInside DEF Owning
  <2> QED
    BY <2>1, <2>2, <2>3 DEF FreshInv, NotOlder, Counts, Copied
<1> QED
  BY <1>1, <1>2, <1>3, <1>4, <1>5, <1>6

LEMMA OpenAndCreateInv ==
  ASSUME IInv, NEW w \in Syncers, OpenAndCreate(w)
  PROVE  IInv'
<1> USE WorkersFacts, MarkersFacts DEF IInv, OpenAndCreate, Return, At, GoTo,
        process, files, reads
<1>1. TypeOK'
  BY DEF TypeOK, Stages
<1>2. ProcInv'
  BY DEF TypeOK, ProcInv, Alive
<1>3. HolderInv'
  BY DEF TypeOK, ProcInv, HolderInv, Owning, Process, Alive
<1>4. ExesInv'
  BY DEF TypeOK, ProcInv, HolderInv, ExesInv, Owning, Process, Alive, Mine
<1>5. CrossInv'
  BY DEF TypeOK, ProcInv, CrossInv, Counts, Beside, Process, Alive, Owning, Copied
<1>6. FreshInv'
  BY DEF TypeOK, FreshInv, NotOlder, Counts, Copied, Owning, Versions
<1> QED
  BY <1>1, <1>2, <1>3, <1>4, <1>5, <1>6

LEMMA CopyInv ==
  ASSUME IInv, NEW w \in Syncers, Copy(w)
  PROVE  IInv'
<1> USE WorkersFacts, MarkersFacts DEF IInv, Copy, Return, At, GoTo,
        process, files, reads
<1>1. TypeOK'
  <2>1. dst' \in {src, Torn}
    BY DEF Copies
  <2> QED
    BY <2>1 DEF TypeOK, Stages
<1>2. ProcInv'
  BY DEF TypeOK, ProcInv, Alive
<1>3. HolderInv'
  BY DEF TypeOK, ProcInv, HolderInv, Owning, Process, Alive
<1>4. ExesInv'
  BY DEF TypeOK, ProcInv, HolderInv, ExesInv, Owning, Process, Alive, Mine
<1>5. CrossInv'
  <2>1. \A v \in Workers : stage'[v] = IF v = w THEN "parse" ELSE stage[v]
    BY DEF TypeOK
  <2>2. /\ \A v \in Syncers \ {w} : own'[v] = own[v]
        /\ own'[w] \in {own[w], Missing}
    BY DEF TypeOK
  <2>3. \A v \in Syncers : Process(v)' = Process(v)
    BY DEF Process
  <2>4. \A b \in Agents : Alive(b)' = Alive(b)
    BY <2>1, WorkersFacts DEF Alive
  <2>5. \A v \in Syncers : Counts(v)' => Counts(v) /\ ~Beside(v)'
    BY <2>2, <2>3, <2>4 DEF Counts, CrossInv, Beside
  <2>6. ASSUME NEW v \in Syncers, Counts(v), NEW u \in Syncers, u # w, stage[u] \in Owning,
               stage[v] \in Copied \/ v = w
        PROVE  Counts(u)'
    <3>1. v # w
      BY <2>6, CountsAlone, OneInside DEF Owning
    <3> QED
      BY <2>2, <2>6, <3>1 DEF CrossInv, Counts
  <2> QED
    BY <2>1, <2>5, <2>6 DEF CrossInv, Owning, Copied
<1>6. FreshInv'
  <2>1. \A v \in Workers : stage'[v] = IF v = w THEN "parse" ELSE stage[v]
    BY DEF TypeOK
  <2>2. /\ \A v \in Syncers \ {w} : own'[v] = own[v]
        /\ own'[w] \in {own[w], Missing}
    BY DEF TypeOK
  <2>3. dst' \in {src, Torn}
    BY DEF Copies
  <2>4. ASSUME NEW v \in Syncers, Counts(v), stage[v] \in Copied \cup {"copy"}
        PROVE  NotOlder(v, dst)'
    BY <2>2, <2>3, <2>4 DEF FreshInv, NotOlder, Counts
  <2>5. ASSUME Counts(w), NEW u \in Syncers, stage[u] = "export"
        PROVE  FALSE
    BY <2>5, CountsAlone, OneInside DEF Owning
  <2>6. src' = src /\ half' = half /\ snap' = snap /\ pos' = pos
    OBVIOUS
  <2> QED
    BY <2>1, <2>2, <2>4, <2>5, <2>6 DEF FreshInv, NotOlder, Counts, Copied
<1> QED
  BY <1>1, <1>2, <1>3, <1>4, <1>5, <1>6

LEMMA ParseHeadInv ==
  ASSUME IInv, NEW w \in Syncers, ParseHead(w)
  PROVE  IInv'
<1> USE WorkersFacts, MarkersFacts DEF IInv, ParseHead, At, GoTo,
        process, files, reads
<1>1. TypeOK'
  BY DEF TypeOK, Stages
<1>2. ProcInv'
  BY DEF TypeOK, ProcInv, Alive
<1>3. HolderInv'
  BY DEF TypeOK, ProcInv, HolderInv, Owning, Process, Alive
<1>4. ExesInv'
  BY DEF TypeOK, ProcInv, HolderInv, ExesInv, Owning, Process, Alive, Mine
<1>5. CrossInv'
  BY DEF TypeOK, ProcInv, CrossInv, Counts, Beside, Process, Alive, Owning, Copied
<1>6. FreshInv'
  BY DEF TypeOK, FreshInv, NotOlder, Counts, Copied, Owning, Versions
<1> QED
  BY <1>1, <1>2, <1>3, <1>4, <1>5, <1>6

LEMMA ParseTailInv ==
  ASSUME IInv, NEW w \in Syncers, ParseTail(w)
  PROVE  IInv'
<1> USE WorkersFacts, MarkersFacts DEF IInv, ParseTail, At, GoTo,
        process, files, reads
<1>1. TypeOK'
  BY DecodedFacts, SnapUpdate DEF TypeOK, Stages
<1>2. ProcInv'
  BY DEF TypeOK, ProcInv, Alive
<1>3. HolderInv'
  BY DEF TypeOK, ProcInv, HolderInv, Owning, Process, Alive
<1>4. ExesInv'
  BY DEF TypeOK, ProcInv, HolderInv, ExesInv, Owning, Process, Alive, Mine
<1>5. CrossInv'
  BY DEF TypeOK, ProcInv, CrossInv, Counts, Beside, Process, Alive, Owning, Copied
<1>6. FreshInv'
  <2>1. PICK t \in Decoded(half[w], dst) : snap' = [snap EXCEPT ![w].tables = t]
    BY DEF ParseTail
  <2>2. /\ t \in Versions \cup {Empty, Mixed}
        /\ t \in Versions => t = dst
    BY DecodedFacts
  <2>3. \A v \in Workers : snap'[v].tables = IF v = w THEN t ELSE snap[v].tables
    BY <2>1, <2>2, SnapUpdate
  <2>4. stage'[w] \in {"tickets", "upload"} /\ \A v \in Syncers \ {w} : stage'[v] = stage[v]
    BY DEF TypeOK
  <2> QED
    BY <2>2, <2>3, <2>4 DEF TypeOK, FreshInv, NotOlder, Counts, Copied
<1> QED
  BY <1>1, <1>2, <1>3, <1>4, <1>5, <1>6

LEMMA SyncTicketsInv ==
  ASSUME IInv, NEW w \in Workers, SyncTickets(w)
  PROVE  IInv'
<1> USE WorkersFacts, MarkersFacts DEF IInv, SyncTickets, At, GoTo,
        process, files, reads
<1>1. TypeOK'
  BY SnapTickets DEF TypeOK, Stages
<1>2. ProcInv'
  BY DEF TypeOK, ProcInv, Alive
<1>3. HolderInv'
  BY DEF TypeOK, ProcInv, HolderInv, Owning, Process, Alive
<1>4. ExesInv'
  BY DEF TypeOK, ProcInv, HolderInv, ExesInv, Owning, Process, Alive, Mine
<1>5. CrossInv'
  BY DEF TypeOK, ProcInv, CrossInv, Counts, Beside, Process, Alive, Owning, Copied
<1>6. FreshInv'
  <2>1. \A v \in Workers : snap'[v].tables = snap[v].tables
    BY SnapTickets
  <2> QED
    BY <2>1 DEF TypeOK, FreshInv, NotOlder, Counts, Copied
<1> QED
  BY <1>1, <1>2, <1>3, <1>4, <1>5, <1>6

LEMMA PutEntitiesInv ==
  ASSUME IInv, NEW a \in Agents, PutEntities(a)
  PROVE  IInv'
<1> USE WorkersFacts, MarkersFacts DEF IInv, PutEntities, Forget, At, GoTo,
        process, files, reads
<1>1. TypeOK'
  <2>1. snap[a].tickets \in Versions \cup {Empty}
    BY DEF TypeOK, Snapshot
  <2> QED
    BY <2>1, BlankFacts DEF TypeOK, Stages
<1>2. ProcInv'
  BY DEF TypeOK, ProcInv, Alive
<1>3. HolderInv'
  BY DEF TypeOK, ProcInv, HolderInv, Owning, Process, Alive
<1>4. ExesInv'
  BY DEF TypeOK, ProcInv, HolderInv, ExesInv, Owning, Process, Alive, Mine
<1>5. CrossInv'
  BY DEF TypeOK, ProcInv, CrossInv, Counts, Beside, Process, Alive, Owning, Copied
<1>6. FreshInv'
  <2>1. \A v \in Workers : /\ stage'[v] = IF v = a THEN "rest" ELSE stage[v]
                          /\ snap'[v] = IF v = a THEN Blank ELSE snap[v]
    BY DEF TypeOK
  <2>2. \A v \in Syncers : own'[v] = IF v = a THEN Missing ELSE own[v]
    BY DEF TypeOK
  <2> QED
    BY <2>1, <2>2, BlankFacts DEF FreshInv, NotOlder, Counts, Copied
<1> QED
  BY <1>1, <1>2, <1>3, <1>4, <1>5, <1>6

LEMMA EndOfRoundInv ==
  ASSUME IInv, NEW a \in Agents, EndOfRound(a)
  PROVE  IInv'
<1> USE WorkersFacts, MarkersFacts DEF IInv, EndOfRound, At, GoTo,
        process, files, reads
<1>1. TypeOK'
  <2>1. {"idle", "off"} \subseteq Stages
    BY DEF Stages
  <2>2. stage' \in [Workers -> Stages]
    BY <2>1 DEF TypeOK
  <2>3. serving' \in BOOLEAN /\ left' \subseteq Agents
    BY DEF TypeOK
  <2> QED
    BY <2>2, <2>3 DEF TypeOK
<1>2. ProcInv'
  BY DEF TypeOK, ProcInv, Alive
<1>3. HolderInv'
  BY DEF TypeOK, ProcInv, HolderInv, Owning, Process, Alive
<1>4. ExesInv'
  BY DEF TypeOK, ProcInv, HolderInv, ExesInv, Owning, Process, Alive, Mine
<1>5. CrossInv'
  BY DEF TypeOK, ProcInv, CrossInv, Counts, Beside, Process, Alive, Owning, Copied
<1>6. FreshInv'
  <2>1. \A v \in Syncers : IF v = a THEN stage'[v] \in {"idle", "off"} ELSE stage'[v] = stage[v]
    BY DEF TypeOK
  <2>2. ~Counts(a) /\ snap[a].tables = Empty
    BY DEF FreshInv
  <2> QED
    BY <2>1, <2>2 DEF FreshInv, NotOlder, Counts, Copied
<1> QED
  BY <1>1, <1>2, <1>3, <1>4, <1>5, <1>6

LEMMA PutTicketsInv ==
  ASSUME IInv, PutTickets
  PROVE  IInv'
<1> USE WorkersFacts, MarkersFacts DEF IInv, PutTickets, At, GoTo,
        process, files, reads
<1>1. TypeOK'
  <2>1. snap["ticket"].tickets \in Versions \cup {Empty}
    BY DEF TypeOK, Snapshot
  <2> QED
    BY <2>1, BlankFacts DEF TypeOK, Stages
<1>2. ProcInv'
  BY DEF TypeOK, ProcInv, Alive
<1>3. HolderInv'
  BY DEF TypeOK, ProcInv, HolderInv, Owning, Process, Alive
<1>4. ExesInv'
  BY DEF TypeOK, ProcInv, HolderInv, ExesInv, Owning, Process, Alive, Mine
<1>5. CrossInv'
  BY DEF TypeOK, ProcInv, CrossInv, Counts, Beside, Process, Alive, Owning, Copied
<1>6. FreshInv'
  BY DEF TypeOK, FreshInv, NotOlder, Counts, Copied, Owning, Versions
<1> QED
  BY <1>1, <1>2, <1>3, <1>4, <1>5, <1>6

LEMMA RespondInv ==
  ASSUME IInv, NEW h \in Handlers, Respond(h)
  PROVE  IInv'
<1> USE WorkersFacts, MarkersFacts DEF IInv, Respond, Forget, At, GoTo,
        process, files, reads
<1>1. TypeOK'
  BY BlankFacts DEF TypeOK, Stages
<1>2. ProcInv'
  BY DEF TypeOK, ProcInv, Alive
<1>3. HolderInv'
  BY DEF TypeOK, ProcInv, HolderInv, Owning, Process, Alive
<1>4. ExesInv'
  BY DEF TypeOK, ProcInv, HolderInv, ExesInv, Owning, Process, Alive, Mine
<1>5. CrossInv'
  BY DEF TypeOK, ProcInv, CrossInv, Counts, Beside, Process, Alive, Owning, Copied
<1>6. FreshInv'
  <2>1. \A v \in Workers : /\ stage'[v] = IF v = h THEN "off" ELSE stage[v]
                          /\ snap'[v] = IF v = h THEN Blank ELSE snap[v]
    BY DEF TypeOK
  <2>2. \A v \in Syncers : own'[v] = IF v = h THEN Missing ELSE own[v]
    BY DEF TypeOK
  <2> QED
    BY <2>1, <2>2, BlankFacts DEF FreshInv, NotOlder, Counts, Copied
<1> QED
  BY <1>1, <1>2, <1>3, <1>4, <1>5, <1>6

LEMMA NextInv == IInv /\ [Next]_vars => IInv'
<1> SUFFICES ASSUME IInv, [Next]_vars PROVE IInv'
  OBVIOUS
<1>1. CASE StopInFirstSync \/ PosChanges \/ OrphanEnds \/ PutTickets
  BY <1>1, StopInFirstSyncInv, PosChangesInv, OrphanEndsInv, PutTicketsInv
<1>2. ASSUME NEW w \in Workers, Begin(w) \/ SyncTickets(w)
      PROVE  IInv'
  BY <1>2, BeginInv, SyncTicketsInv
<1>3. ASSUME NEW w \in Syncers, SyncEntities(w)
      PROVE  IInv'
  BY <1>3, LockAndExportInv, ExportDoneInv, ExportFailsInv, OpenAndCreateInv, CopyInv,
     ParseHeadInv, ParseTailInv DEF SyncEntities, Export
<1>4. ASSUME NEW h \in Handlers, Respond(h)
      PROVE  IInv'
  BY <1>4, RespondInv
<1>5. ASSUME NEW a \in Agents, Lifecycle(a) \/ PutEntities(a) \/ EndOfRound(a)
      PROVE  IInv'
  BY <1>5, StartAgentInv, CrashInv, PutEntitiesInv, EndOfRoundInv DEF Lifecycle
<1>6. CASE UNCHANGED vars
  BY <1>6 DEF vars, process, files, reads, IInv, TypeOK, ProcInv, HolderInv, ExesInv,
              CrossInv, FreshInv, NotOlder, Counts, Beside, Process, Alive
<1> QED
  BY <1>1, <1>2, <1>3, <1>4, <1>5, <1>6 DEF Next

LEMMA Invariance == Spec => []IInv
BY InitInv, NextInv, PTL DEF Spec

-----------------------------------------------------------------------------
(* Theorems. *)

\* The state of the agents, their handlers and the files stays well typed.
THEOREM SyncTypeCorrect == Spec => []TypeOK
<1>1. IInv => TypeOK
  BY DEF IInv
<1> QED
  BY <1>1, Invariance, PTL

\* One agent runs at most one WExport.EXE: the mutex orders its calls, and the
\* kill at the start of main removes what a dead agent left running.  Of two
\* on the machine one is that of an agent stopped in its first sync.
THEOREM OneExport == Spec => []ExclusiveExport
<1>1. ASSUME IInv PROVE ExclusiveExport
  <2> SUFFICES ASSUME NEW x \in exes, NEW y \in exes, x.by = y.by
               PROVE  x = y
    BY <1>1 DEF IInv, ExesInv, ExclusiveExport
  <2> USE <1>1 DEF IInv
  <2>1. /\ x = [by |-> x.by, for |-> x.for] /\ x.for \in Syncers \cup {"nobody"}
        /\ y = [by |-> y.by, for |-> y.for] /\ y.for \in Syncers \cup {"nobody"}
    BY DEF TypeOK
  <2>2. CASE x.for = "nobody" \/ y.for = "nobody"
    <3>1. ~Alive(x.by)
      BY <2>2 DEF ExesInv
    <3>2. ASSUME NEW z \in {x, y}, z.for # "nobody" PROVE FALSE
      <4>1. z.for \in Syncers /\ stage[z.for] # "off" /\ Process(z.for) = x.by
        BY <2>1, <3>2 DEF ExesInv
      <4> QED
        BY <3>1, <4>1, ProcessLives
    <3> QED
      BY <2>1, <3>2
  <2>3. CASE x.for # "nobody" /\ y.for # "nobody"
    <3>1. x.for = y.for
      BY <2>1, <2>3, OneInside DEF ExesInv, Owning
    <3> QED
      BY <2>1, <3>1
  <2> QED
    BY <2>2, <2>3
<1> QED
  BY <1>1, Invariance, PTL

\* Whatever other requests do to the copy of set1.xml, a sync never reports the
\* tables of an export older than its own.
THEOREM NeverOlder == Spec => []NeverAnOlderExport
<1>1. ASSUME IInv PROVE NeverAnOlderExport
  BY <1>1, WorkersFacts, MarkersFacts
     DEF IInv, FreshInv, NotOlder, Counts, NeverAnOlderExport, TypeOK
<1> QED
  BY <1>1, Invariance, PTL

\* As long as w is the last who truncated the copy, what it copied and read of
\* it is one export; without HTTP requests there is nobody else.
UndisturbedInv ==
  \A w \in Syncers :
    /\ copier = w => Counts(w) /\ stage[w] \in Copied \cup {"copy"}
    /\ Counts(w) /\ stage[w] = "copy" => copier = w
    /\ Handlers = {} /\ Counts(w) /\ stage[w] \in Copied => copier = w
    /\ copier = w =>
         /\ stage[w] \in {"parse", "reread"} => dst \in Versions
         /\ stage[w] = "reread" => half[w] = dst
         /\ stage[w] \in {"tickets", "upload"} => snap[w].tables \in Versions

LEMMA UndisturbedStep ==
  ASSUME IInv, UndisturbedInv, [Next]_vars
  PROVE  UndisturbedInv'
<1> USE WorkersFacts, MarkersFacts DEF IInv, At, GoTo, process, files, reads, UndisturbedInv,
        Copied, Counts
<1>1. ASSUME NEW a \in Agents, StartAgent(a)
      PROVE  UndisturbedInv'
  <2>1. \A w \in Syncers : ~Counts(w)' /\ copier' # w
    BY <1>1 DEF StartAgent, MeetAgents, TypeOK, ProcInv, FreshInv
  <2> QED
    BY <2>1
<1>2. ASSUME NEW a \in Agents, Crash(a)
      PROVE  UndisturbedInv'
  <2> DEFINE gone(w) == Process(w) = a
  <2>1. \A w \in Workers : /\ stage'[w] = IF gone(w) THEN "off" ELSE stage[w]
                          /\ snap'[w] = IF gone(w) THEN Blank ELSE snap[w]
    BY <1>2 DEF Crash
  <2>2. \A w \in Syncers : /\ own'[w] = IF gone(w) THEN Missing ELSE own[w]
                          /\ half'[w] = IF gone(w) THEN Missing ELSE half[w]
    BY <1>2 DEF Crash
  <2>3. dst' = dst /\ \A w \in Syncers : copier' = w => copier = w /\ ~gone(w)
    BY <1>2 DEF Crash
  <2>4. \A w \in Syncers : copier = w /\ ~gone(w) => copier' = w
    BY <1>2 DEF Crash
  <2> HIDE DEF gone
  <2> QED
    BY <2>1, <2>2, <2>3, <2>4
<1>3. CASE StopInFirstSync \/ PosChanges \/ OrphanEnds \/ PutTickets
  BY <1>3 DEF StopInFirstSync, PosChanges, OrphanEnds, PutTickets, TypeOK
<1>4. ASSUME NEW v \in Workers, Begin(v)
      PROVE  UndisturbedInv'
  BY <1>4 DEF Begin, TypeOK, FreshInv
<1>5. ASSUME NEW v \in Workers, SyncTickets(v)
      PROVE  UndisturbedInv'
  <2>1. \A w \in Workers : snap'[w].tables = snap[w].tables
    BY <1>5, SnapTickets DEF SyncTickets
  <2> QED
    BY <1>5, <2>1 DEF SyncTickets, TypeOK
<1>6. ASSUME NEW v \in Syncers, LockAndExport(v)
      PROVE  UndisturbedInv'
  BY <1>6 DEF LockAndExport, TypeOK
<1>7. ASSUME NEW v \in Syncers, ExportDone(v) \/ ExportFails(v)
      PROVE  UndisturbedInv'
  BY <1>7 DEF ExportDone, ExportFails, Return, TypeOK
<1>8. ASSUME NEW v \in Syncers, OpenAndCreate(v)
      PROVE  UndisturbedInv'
  <2>1. \A w \in Syncers \ {v} : Counts(w) => stage[w] \notin Owning
    BY <1>8, CountsAlone, OneInside DEF OpenAndCreate, Owning
  <2>2. \A w \in Syncers \ {v} : Counts(w) => Handlers # {}
    BY <1>8, CountsAlone DEF OpenAndCreate, Process
  <2>3. CASE GoTo(v, "copy") /\ dst' = Torn
    <3>1. /\ stage'[v] = "copy" /\ \A w \in Syncers \ {v} : stage'[w] = stage[w]
          /\ own' = own /\ copier' = IF own[v] = Missing THEN "none" ELSE v
      BY <1>8, <2>3 DEF OpenAndCreate, Return, TypeOK
    <3> QED
      BY <2>1, <2>2, <3>1 DEF Owning
  <2>4. CASE Return(v, FALSE) /\ dst' = dst
    BY <1>8, <2>4 DEF OpenAndCreate, Return, TypeOK
  <2> QED
    BY <1>8, <2>3, <2>4 DEF OpenAndCreate
<1>9. ASSUME NEW v \in Syncers, Copy(v)
      PROVE  UndisturbedInv'
  <2>1. ASSUME NEW w \in Syncers, copier = w PROVE w = v
    <3>1. Counts(w) /\ Process(v) = Process(w) /\ stage[v] = "copy"
      BY <1>9, <2>1, CountsAlone DEF Copy
    <3>2. CASE stage[w] = "copy"
      BY <3>1, <3>2, OneInside DEF Owning
    <3>3. CASE stage[w] \in Copied
      BY <2>1, <3>1, <3>3 DEF CrossInv, Owning
    <3> QED
      BY <2>1, <3>2, <3>3
  <2>2. Counts(v) => Copies(v) = {src} /\ src \in Versions
    <3>1. ASSUME Counts(v), NEW w \in Syncers, w # v, stage[w] \in Owning PROVE FALSE
      BY <1>9, <3>1, CountsAlone, OneInside DEF Copy, Owning
    <3>2. ASSUME Counts(v) PROVE exes = {}
      BY <1>9, <3>1, <3>2, CountsExes DEF Copy, Owning
    <3> QED
      BY <1>9, <3>1, <3>2 DEF Copy, Copies, FreshInv, Owning
  <2>3. /\ stage'[v] = "parse" /\ \A w \in Syncers \ {v} : stage'[w] = stage[w]
        /\ \A w \in Syncers \ {v} : own'[w] = own[w]
    BY <1>9 DEF Copy, Return, TypeOK
  <2>4. copier' = copier \/ copier' = "none"
    BY <1>9 DEF Copy, Return
  <2>5. copier' = v => Counts(v) /\ own' = own /\ dst' \in Copies(v)
    BY <1>9 DEF Copy, Return, TypeOK
  <2>6. Counts(v)' => own' = own /\ copier' = v
    BY <1>9 DEF Copy, Return, TypeOK
  <2>7. ASSUME NEW w \in Syncers, w # v, Counts(w) PROVE stage[w] # "copy" /\ Handlers # {}
    BY <1>9, <2>7, CountsAlone, OneInside DEF Copy, Owning, Process
  <2> QED
    BY <2>1, <2>2, <2>3, <2>4, <2>5, <2>6, <2>7
<1>10. ASSUME NEW v \in Syncers, ParseHead(v)
      PROVE  UndisturbedInv'
  BY <1>10 DEF ParseHead, TypeOK
<1>11. ASSUME NEW v \in Syncers, ParseTail(v)
      PROVE  UndisturbedInv'
  <2>1. PICK t \in Decoded(half[v], dst) : snap' = [snap EXCEPT ![v].tables = t]
    BY <1>11 DEF ParseTail
  <2>2. \A w \in Workers : snap'[w].tables = IF w = v THEN t ELSE snap[w].tables
    BY <2>1, DecodedFacts, SnapUpdate
  <2>3. copier = v => t \in Versions
    BY <1>11, <2>1 DEF ParseTail, Decoded
  <2> QED
    BY <1>11, <2>2, <2>3 DEF ParseTail, TypeOK
<1>12. ASSUME NEW h \in Handlers, Respond(h)
       PROVE  UndisturbedInv'
  BY <1>12 DEF Respond, Forget, TypeOK
<1>13. ASSUME NEW a \in Agents, PutEntities(a)
       PROVE  UndisturbedInv'
  BY <1>13 DEF PutEntities, Forget, TypeOK
<1>14. ASSUME NEW a \in Agents, EndOfRound(a)
       PROVE  UndisturbedInv'
  BY <1>14 DEF EndOfRound, TypeOK, FreshInv
<1>15. CASE UNCHANGED vars
  BY <1>15 DEF vars
<1> QED
  BY <1>1, <1>2, <1>3, <1>4, <1>5, <1>6, <1>7, <1>8, <1>9, <1>10, <1>11, <1>12, <1>13,
     <1>14, <1>15 DEF Next, SyncEntities, Export, Lifecycle

LEMMA UndisturbedInvariance == Spec => []UndisturbedInv
<1>1. Init => UndisturbedInv
  BY WorkersFacts DEF Init, UndisturbedInv, Counts
<1> QED
  BY <1>1, UndisturbedStep, Invariance, PTL DEF Spec

\* A sync whose export and copy succeeded reports exactly the tables of that
\* copy, over restarts, failed copies and orphaned exports, unless another
\* caller truncated the copy before it was parsed or another agent came.
THEOREM UndisturbedSyncReadsItsExport == Spec => []UndisturbedExportIsRead
<1>1. IInv /\ UndisturbedInv => UndisturbedExportIsRead
  BY WorkersFacts, MarkersFacts
     DEF IInv, TypeOK, FreshInv, NotOlder, Counts, UndisturbedInv, UndisturbedExportIsRead
<1> QED
  BY <1>1, Invariance, UndisturbedInvariance, PTL

\* Without HTTP requests there is no other caller: the property that one of
\* them violates then holds as it stands.
THEOREM LoneSyncReadsItsExport ==
  ASSUME Handlers = {}
  PROVE  Spec => []OwnExportIsRead
<1>1. IInv /\ UndisturbedInv => OwnExportIsRead
  <2> SUFFICES ASSUME IInv, UndisturbedInv, NEW w \in Syncers, own[w] # Missing,
                      stage[w] \in {"tickets", "upload"}
               PROVE  snap[w].tables \in Versions /\ snap[w].tables >= own[w]
    BY DEF OwnExportIsRead
  <2>1. copier = w
    BY DEF UndisturbedInv, Copied, Counts
  <2> QED
    BY <2>1, WorkersFacts, MarkersFacts
       DEF IInv, TypeOK, FreshInv, NotOlder, Counts, UndisturbedInv
<1> QED
  BY <1>1, Invariance, UndisturbedInvariance, PTL

-----------------------------------------------------------------------------
(* The safety half of MutexIsGranted. *)

\* A mutex is held by one goroutine of its own living process that is inside the
\* function it guards, and everybody else of the process is outside.
MutexIsHeldInside ==
  /\ \A a \in Agents : holder[a] # "none" =>
       Alive(a) /\ Process(holder[a]) = a /\ stage[holder[a]] \in Owning
  /\ \A v, w \in Syncers :
       Process(v) = Process(w) /\ stage[v] \in Owning /\ stage[w] \in Owning => v = w

\* No error path of RunWExportAndCopySet1 returns with the mutex, and no restart
\* leaves it to a goroutine that is gone.
THEOREM MutexNeverLeaks == Spec => []MutexIsHeldInside
<1>1. ASSUME IInv
      PROVE  MutexIsHeldInside
  <2>1. \A v, w \in Syncers :
          Process(v) = Process(w) /\ stage[v] \in Owning /\ stage[w] \in Owning => v = w
    BY <1>1, OneInside DEF IInv
  <2>2. ASSUME NEW a \in Agents, holder[a] # "none"
        PROVE  Alive(a) /\ Process(holder[a]) = a /\ stage[holder[a]] \in Owning
    <3>1. holder[a] \in Syncers /\ stage[holder[a]] \in Owning /\ Process(holder[a]) = a
      BY <1>1, <2>2 DEF IInv, TypeOK, HolderInv
    <3> QED
      BY <1>1, <3>1, ProcessLives DEF IInv, Owning
  <2> QED
    BY <2>1, <2>2 DEF MutexIsHeldInside
<1> QED
  BY <1>1, Invariance, PTL

\* Steps the holder still has before it releases the mutex, at most.
BeforeRelease(s) ==
  CASE s = "export" -> 3 [] s = "create" -> 2 [] s = "copy" -> 1 [] OTHER -> 0

\* Whatever the holder does brings it nearer to the release, and nobody but the
\* holder, or the end of the process, takes the mutex away.
HolderMovesOn ==
  \A a \in Agents, w \in Syncers : holder[a] = w =>
    /\ stage'[w] # stage[w] => BeforeRelease(stage'[w]) < BeforeRelease(stage[w])
    /\ holder'[a] # w <=> BeforeRelease(stage'[w]) = 0

\* No export is repeated and no step returns to an earlier one inside the mutex:
\* it is free after three steps of its holder.
THEOREM HolderReleases == Spec => [][HolderMovesOn]_vars
<1>1. ASSUME IInv, IInv', Next, NEW a \in Agents, NEW w \in Syncers, holder[a] = w
      PROVE  /\ stage'[w] # stage[w] => BeforeRelease(stage'[w]) < BeforeRelease(stage[w])
             /\ holder'[a] # w <=> BeforeRelease(stage'[w]) = 0
  <2>1. stage[w] \in Owning /\ Process(w) = a
    BY <1>1 DEF IInv, HolderInv
  <2> DEFINE Nearer == stage'[w] # stage[w] => BeforeRelease(stage'[w]) < BeforeRelease(stage[w])
  <2>2. TypeOK /\ stage \in [Workers -> Stages] /\ w \in Workers /\ w # "ticket"
    BY <1>1, WorkersFacts DEF IInv, TypeOK
  <2>3. stage'[w] \in Owning => Process(w)' = a
    <3>1. CASE w \in Agents
      BY <2>1, <3>1 DEF Process
    <3>2. CASE w \notin Agents
      <4>1. stage[w] # "off" /\ serving
        BY <1>1, <2>1, <2>2, <3>2 DEF IInv, ProcInv, Owning
      <4>2. current = a
        BY <2>1, <3>2 DEF Process
      <4>3. ASSUME stage'[w] \in Owning PROVE current' = current
        <5>1. ASSUME NEW b \in Agents, Crash(b) PROVE current' = current
          BY <2>2, <3>2, <4>3, <5>1 DEF Crash, Process, Owning
        <5>2. ~StopInFirstSync /\ \A b \in Agents : ~StartAgent(b)
          BY <3>2, <4>1, <4>2 DEF StopInFirstSync, StartAgent, Process
        <5> QED
          BY <1>1, <5>1, <5>2
             DEF Next, Lifecycle, SyncEntities, Export, PosChanges, OrphanEnds, PutTickets,
                 Begin, SyncTickets, Respond, PutEntities, EndOfRound, LockAndExport,
                 ExportDone, ExportFails, OpenAndCreate, Copy, ParseHead, ParseTail,
                 Return, process
      <4> QED
        BY <3>2, <4>2, <4>3 DEF Process
    <3> QED
      BY <3>1, <3>2
  <2>4. holder'[a] = w <=> stage'[w] \in Owning
    BY <1>1, <2>3 DEF IInv, HolderInv
  <2>5. stage'[w] \in Owning <=> BeforeRelease(stage'[w]) # 0
    BY DEF Owning, BeforeRelease
  <2>6. BeforeRelease(stage[w]) \in {1, 2, 3}
    BY <2>1 DEF Owning, BeforeRelease
  <2>7. ASSUME StopInFirstSync \/ PosChanges \/ OrphanEnds PROVE Nearer
    BY <2>7 DEF StopInFirstSync, PosChanges, OrphanEnds
  <2>8. ASSUME NEW v \in Workers, stage[v] \notin Owning, NEW s, GoTo(v, s)
        PROVE  Nearer
    BY <2>1, <2>2, <2>8 DEF GoTo
  <2>9. ASSUME NEW b \in Agents, Lifecycle(b) PROVE Nearer
    <3>1. BeforeRelease("off") = 0
      BY DEF BeforeRelease
    <3>2. CASE Crash(b)
      <4>1. stage'[w] = stage[w] \/ stage'[w] = "off"
        BY <2>2, <3>2 DEF Crash
      <4> QED
        BY <2>6, <3>1, <4>1
    <3>3. CASE StartAgent(b)
      <4>1. b \in Workers /\ stage[b] \notin Owning
        BY <3>3, WorkersFacts DEF StartAgent, Free, Alive, Owning
      <4> QED
        BY <2>8, <3>3, <4>1 DEF StartAgent
    <3> QED
      BY <2>9, <3>2, <3>3 DEF Lifecycle
  <2>10. ASSUME NEW v \in Workers, Begin(v) \/ SyncTickets(v) PROVE Nearer
    <3>1. stage[v] \notin Owning
      BY <2>10 DEF Begin, SyncTickets, At, Owning
    <3> QED
      BY <2>8, <2>10, <3>1 DEF Begin, SyncTickets
  <2>11. ASSUME NEW v \in Syncers, LockAndExport(v) \/ ParseHead(v) \/ ParseTail(v) PROVE Nearer
    <3>1. stage[v] \notin Owning
      BY <2>11 DEF LockAndExport, ParseHead, ParseTail, At, Owning
    <3> QED
      BY <2>8, <2>11, <3>1, WorkersFacts DEF LockAndExport, ParseHead, ParseTail
  <2>12. ASSUME NEW h \in Handlers, Respond(h) PROVE Nearer
    BY <2>8, <2>12, WorkersFacts DEF Respond, At, Owning
  <2>13. ASSUME PutTickets PROVE Nearer
    BY <2>8, <2>13, WorkersFacts DEF PutTickets, At, Owning
  <2>14. ASSUME NEW b \in Agents, PutEntities(b) PROVE Nearer
    BY <2>8, <2>14, WorkersFacts DEF PutEntities, At, Owning
  <2>15. ASSUME NEW b \in Agents, EndOfRound(b) PROVE Nearer
    <3>1. w # b
      BY <2>1, <2>15 DEF EndOfRound, At, Owning
    <3>2. stage'[w] = stage[w]
      BY <2>2, <2>15, <3>1 DEF EndOfRound, GoTo
    <3> QED
      BY <3>2
  <2>16. ASSUME NEW v \in Syncers, ExportDone(v) \/ ExportFails(v) \/ OpenAndCreate(v) \/ Copy(v)
         PROVE  Nearer
    <3>1. CASE v = w
      <4>1. \A s : GoTo(w, s) => stage'[w] = s
        BY <2>2 DEF GoTo
      <4>2. CASE stage[w] = "export" /\ stage'[w] \in {"create", "parse"}
        BY <4>2 DEF BeforeRelease
      <4>3. CASE stage[w] = "create" /\ stage'[w] \in {"copy", "parse"}
        BY <4>3 DEF BeforeRelease
      <4>4. CASE stage[w] = "copy" /\ stage'[w] = "parse"
        BY <4>4 DEF BeforeRelease
      <4> HIDE DEF Nearer
      <4> QED
        BY <2>16, <3>1, <4>1, <4>2, <4>3, <4>4
           DEF ExportDone, ExportFails, OpenAndCreate, Copy, Return, At
    <3>2. CASE v # w
      <4>1. stage'[w] = stage[w]
        BY <2>2, <2>16, <3>2 DEF ExportDone, ExportFails, OpenAndCreate, Copy, Return, GoTo
      <4> QED
        BY <4>1
    <3> QED
      BY <3>1, <3>2
  <2> HIDE DEF Nearer
  <2>17. Nearer
    BY <1>1, <2>7, <2>9, <2>10, <2>11, <2>12, <2>13, <2>14, <2>15, <2>16
       DEF Next, SyncEntities, Export
  <2> QED
    BY <2>4, <2>5, <2>17 DEF Nearer
<1>2. IInv /\ IInv' /\ [Next]_vars => [HolderMovesOn]_vars
  BY <1>1 DEF HolderMovesOn
<1> QED
  BY <1>2, Invariance, PTL DEF Spec
=============================================================================
